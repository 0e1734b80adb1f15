-------------------------- MODULE TrustStoreProofs --------------------------
(***************************************************************************)
(* Theorems about TrustStore, for any processes, digests, limit of receipts *)
(* and number of calls, crashes, power losses and edits.                   *)
(*                                                                         *)
(* The inductive invariant says what each process knows at each step        *)
(* (Own), that the lock excludes (Exclusion), what a power loss may leave   *)
(* (Disks), and how many temporary files there can be (Residue).           *)
(***************************************************************************)
EXTENDS TrustStore, TLAPS

Deciding == {"look", "read", "identify", "policy", "confirm", "commit", "ensure", "mkdir", "lock", "load"}
HasTemp == {"write", "sync", "rename", "cleanup"}
Success == {"already_adopted", "newly_adopted", "adopted"}

CallType == [step : Steps, status : BOOLEAN, digest : Digests \cup {NoFile}, seen : Contents,
             known : BOOLEAN, next : Contents, temp : BOOLEAN, synced : BOOLEAN, wrote : BOOLEAN,
             canceled : BOOLEAN, result : Results]

(* Nothing is in hand, and nothing was done, before the receipts are loaded. *)
Fresh(c) ==
  c.step \in Deciding \cup {"idle"} =>
    c.next = NoFile /\ ~c.temp /\ ~c.synced /\ ~c.wrote /\ c.result = "none"

(* What a call holds while it replaces the file. *)
Replacing(c, allowed) ==
  /\ c.step \in {"create", "write", "sync", "rename", "dirsync"} =>
       c.result = "none" /\ c.next \in SUBSET allowed
  /\ c.step = "create" => ~c.temp
  /\ c.step \in HasTemp => c.temp
  /\ c.step \in {"create"} \cup HasTemp => ~c.wrote
  /\ c.step = "rename" => c.synced
  /\ c.step = "dirsync" => c.wrote /\ ~c.temp

(* What a call knows of the store: it proposes a confirmed digest, and until *)
(* the user edits the file it adds that digest to what is in the file, and   *)
(* what it found or reported is there.                                      *)
Knows(c, content, allowed, edits) ==
  /\ c.step # "idle" => c.digest \in Digests
  /\ c.step \in {"commit", "ensure", "mkdir", "lock", "load", "create", "write", "sync", "rename", "dirsync"} =>
       c.digest \in allowed
  /\ edits = 0 =>
       /\ c.step \in {"create", "write", "sync", "rename"} => c.next = Receipts(content) \cup {c.digest}
       /\ c.step = "dirsync" \/ c.known \/ c.result \in Success => c.digest \in Receipts(content)

(* What a call may say. *)
Says(c) ==
  /\ c.result \in Refusals => c.next = NoFile
  /\ c.wrote => \/ c.step = "dirsync"
                \/ c.step \in {"unlock", "returned"} /\ c.result \in {"newly_adopted", StoreFailed}

OwnOf(c, content, allowed, edits) ==
  Fresh(c) /\ Replacing(c, allowed) /\ Knows(c, content, allowed, edits) /\ Says(c)

Own == \A p \in Proc : OwnOf(call[p], file, granted, accidents.edits)

(* At most one process is inside Add, and then the lock exists. *)
Exclusion ==
  \A p \in Proc : call[p].step \in Adding => lock /\ \A q \in Proc : call[q].step \in Adding => q = p

(* Every content a power loss may leave was confirmed and, until the user   *)
(* edits the file, holds all that was reported after a sync.                *)
Disks ==
  /\ \A c \in disk.file : Receipts(c) \subseteq granted
  /\ AdoptionSurvives

Mishaps == accidents.leftovers + accidents.losses + accidents.edits

(* How many temporary files there are, by where the processes are. *)
Residue ==
  /\ temps <= 1 + Mishaps
  /\ \A p \in Proc : call[p].step \in HasTemp => temps >= 1
  /\ \A p \in Proc : call[p].step \in Adding \ HasTemp => temps <= Mishaps
  /\ ~lock => temps <= Mishaps

LockExplained ==
  lock => \/ \E p \in Proc : call[p].step \in Adding
          \/ accidents.crashes + accidents.losses + accidents.leftovers > 0

StoreInv == TypeOK /\ Own /\ Exclusion /\ Disks /\ Residue /\ LockExplained

----------------------------------------------------------------------------
(* The initial states.                                                      *)

LEMMA NoCallType == NoCall \in CallType
BY DEF NoCall, CallType, Steps, Contents, Results

LEMMA NoCallOwn ==
  ASSUME NEW content, NEW allowed, NEW edits
  PROVE  OwnOf(NoCall, content, allowed, edits)
BY DEF NoCall, OwnOf, Fresh, Replacing, Knows, Says, Deciding, HasTemp, Success, Refusals

LEMMA ReceiptsType ==
  ASSUME NEW c \in Contents
  PROVE  Receipts(c) \in SUBSET Digests
BY DEF Contents, Receipts

LEMMA InitKeeps == Init => StoreInv
<1> SUFFICES ASSUME Init PROVE StoreInv
  OBVIOUS
<1>1. file \in Contents /\ file # Torn
  BY StoreAssumption DEF Init, Contents
<1>2. TypeOK
  <2>1. call \in [Proc -> CallType]
    BY NoCallType DEF Init
  <2>2. calls \in [Proc -> 0..MaxCalls]
    BY StoreAssumption DEF Init
  <2>3. accidents \in [crashes : 0..MaxCrashes, losses : 0..MaxLosses, edits : 0..MaxEdits, leftovers : Nat]
    BY StoreAssumption DEF Init
  <2>4. granted \subseteq Digests /\ durable \subseteq Digests
    BY <1>1, ReceiptsType DEF Init
  <2>5. disk \in [file : SUBSET Contents, lock : SUBSET BOOLEAN] /\ file \in disk.file /\ lock \in disk.lock
    BY <1>1 DEF Init
  <2> QED
    BY <1>1, <2>1, <2>2, <2>3, <2>4, <2>5 DEF TypeOK, Init, CallType
<1>3. Own
  BY NoCallOwn DEF Init, Own
<1>4. Exclusion /\ LockExplained
  BY DEF Init, Exclusion, LockExplained, NoCall, Adding
<1>5. Disks
  BY <1>1 DEF Init, Disks, AdoptionSurvives
<1>6. Residue
  BY DEF Init, Residue, Mishaps, NoCall, HasTemp, Adding
<1> QED
  BY <1>2, <1>3, <1>4, <1>5, <1>6 DEF StoreInv

----------------------------------------------------------------------------
(* Steps of a process.                                                      *)

(* The call of process p changes, of the others none. *)
Only(p) == call' \in [Proc -> CallType] /\ \A q \in Proc \ {p} : call'[q] = call[q]

(* What the others know remains true while the receipts only grow, and only *)
(* the process that is inside Add replaces the file.                        *)
LEMMA OthersKeep ==
  ASSUME StoreInv, NEW p \in Proc, Only(p),
         OwnOf(call'[p], file', granted', accidents'.edits),
         granted \subseteq granted', accidents'.edits = accidents.edits,
         file' = file \/ (call[p].step \in Adding /\ Receipts(file) \subseteq Receipts(file'))
  PROVE  Own'
<1> SUFFICES ASSUME NEW q \in Proc PROVE OwnOf(call'[q], file', granted', accidents'.edits)
  BY DEF Own
<1>1. CASE q = p
  BY <1>1
<1>2. CASE q # p
  <2>1. call'[q] = call[q] /\ OwnOf(call[q], file, granted, accidents.edits)
    BY <1>2 DEF Only, StoreInv, Own
  <2>2. Replacing(call[q], granted')
    BY <2>1 DEF OwnOf, Replacing
  <2>3. call[q].step \in {"create", "write", "sync", "rename"} => file' = file
    BY <1>2 DEF StoreInv, Exclusion, Adding
  <2>4. Receipts(file) \subseteq Receipts(file')
    OBVIOUS
  <2>5. Knows(call[q], file', granted', accidents'.edits)
    BY <2>1, <2>3, <2>4 DEF OwnOf, Knows
  <2> QED
    BY <2>1, <2>2, <2>5 DEF OwnOf
<1> QED
  BY <1>1, <1>2

(* A step that changes no file, and neither enters nor leaves Add or the    *)
(* part of it in which there is a temporary file.                           *)
LEMMA CallKeeps ==
  ASSUME StoreInv, NEW p \in Proc, Only(p),
         UNCHANGED <<file, lock, temps, disk, durable, accidents>>,
         home' \in BOOLEAN, calls' \in [Proc -> 0..MaxCalls],
         granted \subseteq granted', granted' \subseteq Digests,
         OwnOf(call'[p], file, granted', accidents.edits),
         call'[p].step \in Adding <=> call[p].step \in Adding,
         call'[p].step \in HasTemp <=> call[p].step \in HasTemp
  PROVE  StoreInv'
<1>1. TypeOK'
  BY DEF StoreInv, TypeOK, Only, CallType
<1>2. Own'
  BY OthersKeep
<1>3. \A q \in Proc : /\ call'[q].step \in Adding <=> call[q].step \in Adding
                      /\ call'[q].step \in HasTemp <=> call[q].step \in HasTemp
  BY DEF Only
<1>4. Exclusion' /\ LockExplained'
  BY <1>3 DEF StoreInv, Exclusion, LockExplained
<1>5. Disks'
  BY DEF StoreInv, Disks, AdoptionSurvives
<1>6. Residue'
  BY <1>3 DEF StoreInv, Residue, Mishaps
<1> QED
  BY <1>1, <1>2, <1>4, <1>5, <1>6 DEF StoreInv

LEMMA Replaced ==
  ASSUME TypeOK, NEW p \in Proc, NEW c \in CallType, call' = [call EXCEPT ![p] = c]
  PROVE  Only(p) /\ call'[p] = c
BY DEF TypeOK, CallType, Only

LEMMA StartKeeps ==
  ASSUME StoreInv, NEW p \in Proc, Start(p)
  PROVE  StoreInv'
<1>1. PICK d \in Digests, status \in BOOLEAN :
        call' = [call EXCEPT ![p] = [NoCall EXCEPT !.step = "look", !.digest = d, !.status = status]]
  BY DEF Start
<1> DEFINE c == [NoCall EXCEPT !.step = "look", !.digest = d, !.status = status]
<1>2. c \in CallType
  BY DEF NoCall, CallType, Steps, Contents, Results
<1>3. Only(p) /\ call'[p] = c
  BY <1>1, <1>2, Replaced DEF StoreInv
<1>4. OwnOf(c, file, granted, accidents.edits)
  BY DEF NoCall, OwnOf, Fresh, Replacing, Knows, Says, Deciding, HasTemp, Success, Refusals
<1>5. calls' \in [Proc -> 0..MaxCalls]
  BY StoreAssumption DEF Start, StoreInv, TypeOK
<1>6. call[p].step \notin Adding /\ call'[p].step \notin Adding
  BY <1>3 DEF Start, Adding, NoCall
<1> QED
  BY <1>3, <1>4, <1>5, <1>6, CallKeeps DEF Start, store, history, StoreInv, TypeOK, HasTemp, Adding

(* Of the call of p at most the step and the result change. *)
Answers(p, step, result) ==
  /\ Only(p)
  /\ call'[p].step = step /\ call'[p].result = result
  /\ \A f \in {"status", "digest", "seen", "known", "next", "temp", "synced", "wrote", "canceled"} :
       call'[p][f] = call[p][f]

LEMMA GotoAnswers ==
  ASSUME TypeOK, NEW p \in Proc, NEW step \in Steps, Goto(p, step)
  PROVE  Answers(p, step, call[p].result)
<1> DEFINE c == [call[p] EXCEPT !.step = step]
<1>1. c \in CallType /\ call' = [call EXCEPT ![p] = c]
  BY DEF TypeOK, CallType, Goto
<1>2. Only(p) /\ call'[p] = c
  BY <1>1, Replaced
<1>3. call[p] \in CallType
  BY DEF TypeOK, CallType
<1> QED
  BY <1>2, <1>3 DEF CallType, Answers

LEMMA ReturnAnswers ==
  ASSUME TypeOK, NEW p \in Proc, NEW result \in Results, Return(p, result)
  PROVE  Answers(p, "returned", result)
<1> DEFINE c == [call[p] EXCEPT !.step = "returned", !.result = result]
<1>1. call' = [call EXCEPT ![p] = c]
  BY DEF TypeOK, CallType, Return
<1>2. call[p] \in CallType
  BY DEF TypeOK, CallType
<1>3. c \in CallType
  BY <1>2 DEF CallType, Steps
<1>4. Only(p) /\ call'[p] = c
  BY <1>1, <1>3, Replaced
<1> QED
  BY <1>2, <1>4 DEF CallType, Answers

LEMMA LeaveAnswers ==
  ASSUME TypeOK, NEW p \in Proc, NEW result \in Results, Leave(p, result)
  PROVE  Answers(p, IF call[p].temp THEN "cleanup" ELSE "unlock", result)
<1> DEFINE next == IF call[p].temp THEN "cleanup" ELSE "unlock"
           c == [call[p] EXCEPT !.result = result, !.step = next]
<1>1. call[p] \in CallType
  BY DEF TypeOK, CallType
<1>2. c \in CallType
  BY <1>1 DEF CallType, Steps
<1>3. next = (IF [call EXCEPT ![p].result = result][p].temp THEN "cleanup" ELSE "unlock")
  BY <1>1 DEF TypeOK, CallType
<1>4. call' = [call EXCEPT ![p] = c]
  BY <1>1, <1>3 DEF TypeOK, CallType, Leave
<1>5. Only(p) /\ call'[p] = c
  BY <1>2, <1>4, Replaced
<1> QED
  BY <1>1, <1>5 DEF CallType, Answers

(* A step before Add: what it may know is what OwnOf asks of it. *)
LEMMA DecidingKeeps ==
  ASSUME StoreInv, NEW p \in Proc, Only(p),
         UNCHANGED <<file, lock, temps, disk, calls, durable, accidents>>, home' \in BOOLEAN,
         granted \subseteq granted', granted' \subseteq Digests,
         call[p].step \notin Adding, call'[p].step \notin Adding,
         OwnOf(call'[p], file, granted', accidents.edits)
  PROVE  StoreInv'
<1>1. HasTemp \subseteq Adding
  BY DEF HasTemp, Adding
<1>2. calls' \in [Proc -> 0..MaxCalls]
  BY DEF StoreInv, TypeOK
<1> QED
  BY <1>1, <1>2, CallKeeps

(* A refusal, or any other answer given before Add, with nothing in hand. *)
LEMMA ReturnKeeps ==
  ASSUME StoreInv, NEW p \in Proc, NEW result \in Results, Return(p, result),
         call[p].step \in Deciding, call[p].step \notin Adding,
         result \in Success /\ accidents.edits = 0 => call[p].digest \in Receipts(file),
         UNCHANGED <<file, lock, temps, home, disk, calls, granted, durable, accidents>>
  PROVE  StoreInv'
<1>1. Answers(p, "returned", result)
  BY ReturnAnswers DEF StoreInv
<1>2. OwnOf(call[p], file, granted, accidents.edits)
  BY DEF StoreInv, Own
<1>3. OwnOf(call'[p], file, granted, accidents.edits)
  BY <1>1, <1>2 DEF Answers, OwnOf, Fresh, Replacing, Knows, Says, Deciding, HasTemp
<1>4. call'[p].step \notin Adding /\ home' \in BOOLEAN /\ granted \subseteq Digests
  BY <1>1 DEF Answers, Adding, StoreInv, TypeOK
<1> QED
  BY <1>1, <1>3, <1>4, DecidingKeeps DEF Answers

LEMMA ProceedKeeps ==
  ASSUME StoreInv, NEW p \in Proc, NEW next \in Deciding, Goto(p, next),
         call[p].step \in Deciding, call[p].step \notin Adding, next \notin Adding,
         next \in {"commit", "ensure", "mkdir", "lock"} => call[p].digest \in granted',
         UNCHANGED <<file, lock, temps, disk, calls, durable, accidents>>, home' \in BOOLEAN,
         granted \subseteq granted', granted' \subseteq Digests
  PROVE  StoreInv'
<1>1. Answers(p, next, call[p].result)
  BY GotoAnswers DEF StoreInv, Deciding, Steps
<1>2. OwnOf(call[p], file, granted, accidents.edits)
  BY DEF StoreInv, Own
<1>3. OwnOf(call'[p], file, granted', accidents.edits)
  BY <1>1, <1>2 DEF Answers, OwnOf, Fresh, Replacing, Knows, Says, Deciding, HasTemp, Adding
<1> QED
  BY <1>1, <1>3, DecidingKeeps DEF Answers

LEMMA InspectedKeeps ==
  ASSUME StoreInv, NEW p \in Proc, NEW state \in Observed, Inspected(p, state),
         call[p].step \in {"look", "read"},
         state = "adopted" => call[p].digest \in Receipts(file),
         UNCHANGED <<store, calls, history>>
  PROVE  StoreInv'
<1> USE DEF store, history
<1>1. call[p].step \in Deciding /\ call[p].step \notin Adding
  BY DEF Deciding, Adding
<1>2. state \in Results /\ "invalid_bundle_trust_store" \in Results
      /\ (state \in Success => state = "adopted") /\ "invalid_bundle_trust_store" \notin Success
  BY DEF Observed, Results, Refusals, Success
<1>3. CASE Return(p, state) \/ Return(p, "invalid_bundle_trust_store")
  BY <1>1, <1>2, <1>3, ReturnKeeps
<1>4. CASE call' = [call EXCEPT ![p].step = "identify", ![p].known = (state = "adopted")]
  <2> DEFINE c == [call[p] EXCEPT !.step = "identify", !.known = (state = "adopted")]
  <2>1. call[p] \in CallType
    BY DEF StoreInv, TypeOK, CallType
  <2>2. c \in CallType
    BY <2>1 DEF CallType, Steps
  <2>3. call' = [call EXCEPT ![p] = c]
    BY <1>4 DEF StoreInv, TypeOK, CallType
  <2>4. Only(p) /\ call'[p] = c
    BY <2>2, <2>3, Replaced DEF StoreInv
  <2>5. OwnOf(call[p], file, granted, accidents.edits)
    BY DEF StoreInv, Own
  <2>6. OwnOf(c, file, granted, accidents.edits)
    BY <1>1, <2>1, <2>5 DEF CallType, OwnOf, Fresh, Replacing, Knows, Says, Deciding, HasTemp, Success
  <2>7. c.step \notin Adding
    BY <2>1 DEF CallType, Adding
  <2>8. home' \in BOOLEAN /\ granted \subseteq Digests
    BY DEF StoreInv, TypeOK
  <2> QED
    BY <1>1, <2>4, <2>6, <2>7, <2>8, DecidingKeeps
<1> QED
  BY <1>3, <1>4 DEF Inspected

(* The steps before Add. *)
LEMMA DecideKeeps ==
  ASSUME StoreInv, NEW p \in Proc, Decide(p)
  PROVE  StoreInv'
<1> USE DEF store, history
<1>1. CASE InspectLook(p)
  <2>1. call[p].step = "look" /\ UNCHANGED <<store, calls, history>>
    BY <1>1 DEF InspectLook, At
  <2>2. CASE Inspected(p, "not_adopted") \/ Inspected(p, "invalid")
    BY <2>1, <2>2, InspectedKeeps DEF Observed
  <2>3. CASE call' = [call EXCEPT ![p].step = "read", ![p].seen = file]
    <3> DEFINE c == [call[p] EXCEPT !.step = "read", !.seen = file]
    <3>1. call[p] \in CallType
      BY DEF StoreInv, TypeOK, CallType
    <3>2. c \in CallType
      BY <3>1 DEF CallType, Steps, StoreInv, TypeOK
    <3>3. call' = [call EXCEPT ![p] = c]
      BY <2>3 DEF StoreInv, TypeOK, CallType
    <3>4. Only(p) /\ call'[p] = c
      BY <3>2, <3>3, Replaced DEF StoreInv
    <3>5. OwnOf(call[p], file, granted, accidents.edits)
      BY DEF StoreInv, Own
    <3>6. OwnOf(c, file, granted, accidents.edits)
      BY <2>1, <3>1, <3>5 DEF CallType, OwnOf, Fresh, Replacing, Knows, Says, Deciding, HasTemp, Success
    <3>7. c.step \notin Adding /\ call[p].step \notin Adding
      BY <2>1, <3>1 DEF CallType, Adding
    <3>8. home' \in BOOLEAN /\ granted \subseteq Digests
      BY <2>1 DEF StoreInv, TypeOK
    <3> QED
      BY <2>1, <3>4, <3>6, <3>7, <3>8, DecidingKeeps
  <2> QED
    BY <1>1, <2>2, <2>3 DEF InspectLook
<1>2. CASE InspectRead(p)
  <2>1. call[p].step = "read" /\ UNCHANGED <<store, calls, history>>
    BY <1>2 DEF InspectRead, At
  <2>2. CASE Inspected(p, "not_adopted") \/ Inspected(p, "invalid")
    BY <2>1, <2>2, InspectedKeeps DEF Observed
  <2>3. CASE file \notin {NoFile, Torn}
             /\ Inspected(p, IF call[p].digest \in file THEN "adopted" ELSE "not_adopted")
    <3>1. Receipts(file) = file
      BY <2>3 DEF Receipts
    <3> QED
      BY <2>1, <2>3, <3>1, InspectedKeeps DEF Observed
  <2> QED
    BY <1>2, <2>2, <2>3 DEF InspectRead
<1>3. CASE Identify(p)
  <2>1. call[p].step = "identify" /\ UNCHANGED <<store, calls, history>>
    BY <1>3 DEF Identify, At
  <2>2. call[p].step \in Deciding /\ call[p].step \notin Adding
    BY <2>1 DEF Deciding, Adding
  <2>3. CASE Return(p, "drift")
    BY <2>1, <2>2, <2>3, ReturnKeeps DEF Results, Refusals, Success
  <2>4. CASE call[p].known /\ Return(p, "already_adopted")
    <3>1. accidents.edits = 0 => call[p].digest \in Receipts(file)
      BY <2>4 DEF StoreInv, Own, OwnOf, Knows
    <3> QED
      BY <2>1, <2>2, <2>4, <3>1, ReturnKeeps DEF Results
  <2>5. CASE Goto(p, "policy")
    BY <2>1, <2>2, <2>5, ProceedKeeps DEF Deciding, Adding, StoreInv, TypeOK
  <2> QED
    BY <1>3, <2>3, <2>4, <2>5 DEF Identify
<1>4. CASE Policy(p)
  <2>1. call[p].step = "policy" /\ UNCHANGED <<store, calls, history>>
    BY <1>4 DEF Policy, At
  <2>2. call[p].step \in Deciding /\ call[p].step \notin Adding
    BY <2>1 DEF Deciding, Adding
  <2>3. CASE Return(p, "operation_canceled")
    BY <2>1, <2>2, <2>3, ReturnKeeps DEF Results, Refusals, Success
  <2>4. CASE Goto(p, "confirm")
    BY <2>1, <2>2, <2>4, ProceedKeeps DEF Deciding, Adding, StoreInv, TypeOK
  <2> QED
    BY <1>4, <2>3, <2>4 DEF Policy
<1>5. CASE Confirm(p)
  <2>1. call[p].step = "confirm" /\ UNCHANGED <<store, calls, durable, accidents>>
    BY <1>5 DEF Confirm, At
  <2>2. call[p].step \in Deciding /\ call[p].step \notin Adding
    BY <2>1 DEF Deciding, Adding
  <2>3. CASE Return(p, "mutation_rejected") /\ UNCHANGED granted
    BY <2>1, <2>2, <2>3, ReturnKeeps DEF Results, Refusals, Success
  <2>4. CASE Goto(p, "commit") /\ granted' = granted \cup {call[p].digest}
    <3>1. call[p].digest \in Digests
      BY <2>1 DEF StoreInv, Own, OwnOf, Knows
    <3> QED
      BY <2>1, <2>2, <2>4, <3>1, ProceedKeeps DEF Deciding, Adding, StoreInv, TypeOK
  <2> QED
    BY <1>5, <2>3, <2>4 DEF Confirm
<1>6. CASE Commit(p)
  <2>1. call[p].step = "commit" /\ UNCHANGED <<store, calls, history>>
    BY <1>6 DEF Commit, At
  <2>2. call[p].step \in Deciding /\ call[p].step \notin Adding /\ call[p].digest \in granted
    BY <2>1 DEF Deciding, Adding, StoreInv, Own, OwnOf, Knows
  <2>3. CASE Return(p, "operation_canceled")
    BY <2>1, <2>2, <2>3, ReturnKeeps DEF Results, Refusals, Success
  <2>4. CASE Goto(p, "ensure")
    BY <2>1, <2>2, <2>4, ProceedKeeps DEF Deciding, Adding, StoreInv, TypeOK
  <2> QED
    BY <1>6, <2>3, <2>4 DEF Commit
<1> QED
  BY <1>1, <1>2, <1>3, <1>4, <1>5, <1>6 DEF Decide

(* The private directory is found, or made. *)
LEMMA HomeKeeps ==
  ASSUME StoreInv, NEW p \in Proc, Ensure(p) \/ MakeHome(p)
  PROVE  StoreInv'
<1>1. /\ call[p].step \in {"ensure", "mkdir"} /\ home' \in BOOLEAN
      /\ UNCHANGED <<file, lock, temps, disk, calls, granted, durable, accidents>>
  BY DEF Ensure, MakeHome, At, store, history, StoreInv, TypeOK
<1>2. call[p].step \in Deciding /\ call[p].step \notin Adding /\ call[p].digest \in granted
  BY <1>1 DEF Deciding, Adding, StoreInv, Own, OwnOf, Knows
<1>3. CASE Return(p, StoreFailed) /\ UNCHANGED home
  BY <1>1, <1>2, <1>3, ReturnKeeps DEF Results, StoreFailed, Success
<1>4. CASE Goto(p, "lock") \/ Goto(p, "mkdir")
  BY <1>1, <1>2, <1>4, ProceedKeeps DEF Deciding, Adding, StoreInv, TypeOK
<1> QED
  BY <1>3, <1>4 DEF Ensure, MakeHome, store

(* Whoever leaves Add goes where its temporary file is removed if there is  *)
(* one, and may report what it found or wrote.                              *)
LEMMA LeaveOwn ==
  ASSUME StoreInv, NEW p \in Proc, NEW result \in {"newly_adopted", StoreFailed, Bare}, Leave(p, result),
         call[p].step \in {"lock", "load", "create", "write", "sync", "rename", "dirsync"},
         result = "newly_adopted" /\ accidents.edits = 0 => call[p].digest \in Receipts(file),
         result = Bare => ~call[p].wrote
  PROVE  /\ Only(p) /\ OwnOf(call'[p], file, granted, accidents.edits)
         /\ call'[p].step \in {"cleanup", "unlock"}
         /\ call'[p].step \in HasTemp <=> call[p].step \in HasTemp
<1>1. result \in Results /\ result \notin Refusals
  BY DEF StoreFailed, Bare, Results, Refusals
<1>2. Answers(p, IF call[p].temp THEN "cleanup" ELSE "unlock", result)
  BY <1>1, LeaveAnswers DEF StoreInv
<1>3. OwnOf(call[p], file, granted, accidents.edits)
  BY DEF StoreInv, Own
<1>4. call[p].temp <=> call[p].step \in HasTemp
  BY <1>3 DEF OwnOf, Fresh, Replacing, Deciding, HasTemp
<1>5. OwnOf(call'[p], file, granted, accidents.edits)
  <2>1. Fresh(call'[p]) /\ Replacing(call'[p], granted)
    BY <1>2, <1>3, <1>4 DEF Answers, OwnOf, Fresh, Replacing, Deciding, HasTemp
  <2>2. Knows(call'[p], file, granted, accidents.edits)
    BY <1>2, <1>3, <1>4 DEF Answers, OwnOf, Knows, Success, StoreFailed, Bare
  <2>3. Says(call'[p])
    BY <1>1, <1>2, <1>3, <1>4 DEF Answers, OwnOf, Says, HasTemp
  <2> QED
    BY <2>1, <2>2, <2>3 DEF OwnOf
<1> QED
  BY <1>2, <1>4, <1>5 DEF Answers, HasTemp

LEMMA LeaveKeeps ==
  ASSUME StoreInv, NEW p \in Proc, NEW result \in {"newly_adopted", StoreFailed, Bare}, Leave(p, result),
         call[p].step \in {"load", "create", "write", "sync", "rename", "dirsync"},
         result = "newly_adopted" /\ accidents.edits = 0 => call[p].digest \in Receipts(file),
         result = Bare => ~call[p].wrote,
         UNCHANGED <<file, lock, temps, home, disk, calls, granted, durable, accidents>>
  PROVE  StoreInv'
<1>1. /\ Only(p) /\ OwnOf(call'[p], file, granted, accidents.edits)
      /\ call'[p].step \in {"cleanup", "unlock"}
      /\ call'[p].step \in HasTemp <=> call[p].step \in HasTemp
  BY LeaveOwn
<1>2. call[p].step \in Adding /\ call'[p].step \in Adding
  BY <1>1 DEF Adding
<1>3. home' \in BOOLEAN /\ calls' \in [Proc -> 0..MaxCalls] /\ granted \subseteq Digests
  BY DEF StoreInv, TypeOK
<1> QED
  BY <1>1, <1>2, <1>3, CallKeeps

(* A step into Add finds no lock, and therefore nobody there. *)
LEMMA EnterKeeps ==
  ASSUME StoreInv, NEW p \in Proc, Only(p), call[p].step = "lock",
         ~lock, lock' = TRUE, disk' = [disk EXCEPT !.lock = @ \cup {TRUE}],
         call'[p].step \in Adding \ HasTemp,
         OwnOf(call'[p], file, granted, accidents.edits),
         UNCHANGED <<file, temps, home, calls, granted, durable, accidents>>
  PROVE  StoreInv'
<1>1. \A q \in Proc : call[q].step \notin Adding
  BY DEF StoreInv, Exclusion
<1>2. \A q \in Proc : q # p => call'[q] = call[q]
  BY DEF Only
<1>3. disk'.file = disk.file /\ disk'.lock = disk.lock \cup {TRUE}
      /\ disk' \in [file : SUBSET Contents, lock : SUBSET BOOLEAN]
  BY DEF StoreInv, TypeOK
<1>4. TypeOK'
  BY <1>3 DEF StoreInv, TypeOK, Only, CallType
<1>5. Own'
  BY OthersKeep
<1>6. Exclusion'
  BY <1>1, <1>2 DEF Exclusion
<1>7. Disks'
  BY <1>3 DEF StoreInv, Disks, AdoptionSurvives
<1>8. Residue'
  BY <1>1, <1>2 DEF StoreInv, Residue, Mishaps, HasTemp, Adding
<1>9. LockExplained'
  BY DEF LockExplained
<1> QED
  BY <1>4, <1>5, <1>6, <1>7, <1>8, <1>9 DEF StoreInv

LEMMA TakeLockKeeps ==
  ASSUME StoreInv, NEW p \in Proc, TakeLock(p)
  PROVE  StoreInv'
<1>1. call[p].step = "lock" /\ UNCHANGED <<file, temps, home, calls, granted, durable, accidents>>
  BY DEF TakeLock, At, history
<1>2. call[p].step \in Deciding /\ call[p].step \notin Adding /\ call[p].step \notin HasTemp
  BY <1>1 DEF Deciding, Adding, HasTemp
<1>3. CASE Return(p, StoreFailed) /\ UNCHANGED <<lock, disk>>
  BY <1>1, <1>2, <1>3, ReturnKeeps DEF Results, StoreFailed, Success
<1>4. CASE ~lock /\ lock' = TRUE /\ disk' = [disk EXCEPT !.lock = @ \cup {TRUE}] /\ Leave(p, StoreFailed)
  <2>1. /\ Only(p) /\ OwnOf(call'[p], file, granted, accidents.edits)
        /\ call'[p].step \in {"cleanup", "unlock"} /\ call'[p].step \notin HasTemp
    BY <1>1, <1>2, <1>4, LeaveOwn DEF StoreFailed, Bare
  <2>2. call'[p].step \in Adding
    BY <2>1 DEF Adding
  <2> QED
    BY <1>1, <1>4, <2>1, <2>2, EnterKeeps
<1>5. CASE ~lock /\ lock' = TRUE /\ disk' = [disk EXCEPT !.lock = @ \cup {TRUE}] /\ Goto(p, "load")
  <2>1. Answers(p, "load", call[p].result)
    BY <1>5, GotoAnswers DEF StoreInv, Steps
  <2>2. OwnOf(call[p], file, granted, accidents.edits)
    BY DEF StoreInv, Own
  <2>3. OwnOf(call'[p], file, granted, accidents.edits)
    BY <1>1, <2>1, <2>2 DEF Answers, OwnOf, Fresh, Replacing, Knows, Says, Deciding, HasTemp
  <2>4. call'[p].step \in Adding \ HasTemp
    BY <2>1 DEF Answers, Adding, HasTemp
  <2> QED
    BY <1>1, <1>5, <2>1, <2>3, <2>4, EnterKeeps DEF Answers
<1> QED
  BY <1>3, <1>4, <1>5 DEF TakeLock

(* Receipts are added to those in the file; the new set is in hand only.    *)
LEMMA LoadKeeps ==
  ASSUME StoreInv, NEW p \in Proc, Load(p)
  PROVE  StoreInv'
<1>1. call[p].step = "load" /\ UNCHANGED <<file, lock, temps, home, disk, calls, granted, durable, accidents>>
  BY DEF Load, At, store, history
<1>2. OwnOf(call[p], file, granted, accidents.edits) /\ ~call[p].wrote
  BY <1>1 DEF StoreInv, Own, OwnOf, Fresh, Deciding
<1>3. CASE Leave(p, StoreFailed) \/ Leave(p, Bare)
  BY <1>1, <1>2, <1>3, LeaveKeeps DEF StoreFailed, Bare
<1>4. CASE call[p].digest \in Receipts(file) /\ Leave(p, "newly_adopted")
  BY <1>1, <1>4, LeaveKeeps DEF Bare
<1>5. CASE call' = [call EXCEPT ![p].step = "create", ![p].next = Receipts(file) \cup {call[p].digest}]
  <2> DEFINE c == [call[p] EXCEPT !.step = "create", !.next = Receipts(file) \cup {call[p].digest}]
  <2>1. call[p] \in CallType
    BY DEF StoreInv, TypeOK, CallType
  <2>2. Receipts(file) \subseteq granted /\ call[p].digest \in granted /\ granted \subseteq Digests
    BY <1>1, <1>2 DEF StoreInv, TypeOK, Disks, OwnOf, Knows
  <2>3. Receipts(file) \cup {call[p].digest} \in Contents
    BY <2>2 DEF Contents
  <2>4. c \in CallType
    BY <2>1, <2>3 DEF CallType, Steps
  <2>5. call' = [call EXCEPT ![p] = c]
    BY <1>5 DEF StoreInv, TypeOK, CallType
  <2>6. Only(p) /\ call'[p] = c
    BY <2>4, <2>5, Replaced DEF StoreInv
  <2>7. /\ c.step = "create" /\ c.next = Receipts(file) \cup {call[p].digest}
        /\ c.result = "none" /\ ~c.temp /\ ~c.wrote /\ c.digest = call[p].digest /\ c.known = call[p].known
    BY <1>1, <1>2, <2>1 DEF CallType, OwnOf, Fresh, Deciding
  <2>8. OwnOf(c, file, granted, accidents.edits)
    <3>1. Fresh(c) /\ Replacing(c, granted) /\ Says(c)
      BY <2>2, <2>7 DEF Fresh, Replacing, Says, Deciding, HasTemp, Refusals
    <3>2. Knows(c, file, granted, accidents.edits)
      BY <1>1, <1>2, <2>2, <2>7 DEF OwnOf, Knows, Success
    <3> QED
      BY <3>1, <3>2 DEF OwnOf
  <2>9. /\ call[p].step \in Adding /\ call[p].step \notin HasTemp
        /\ c.step \in Adding /\ c.step \notin HasTemp
    BY <1>1, <2>7 DEF Adding, HasTemp
  <2>10. home' \in BOOLEAN /\ calls' \in [Proc -> 0..MaxCalls]
    BY <1>1 DEF StoreInv, TypeOK
  <2> QED
    BY <1>1, <2>2, <2>6, <2>8, <2>9, <2>10, CallKeeps
<1> QED
  BY <1>3, <1>4, <1>5 DEF Load

(* A step inside Add that changes no file and does not leave. *)
LEMMA WorkKeeps ==
  ASSUME StoreInv, NEW p \in Proc, Only(p),
         UNCHANGED <<file, lock, temps, home, disk, calls, granted, durable, accidents>>,
         call[p].step \in HasTemp, call'[p].step \in HasTemp,
         OwnOf(call'[p], file, granted, accidents.edits)
  PROVE  StoreInv'
<1>1. home' \in BOOLEAN /\ calls' \in [Proc -> 0..MaxCalls] /\ granted \subseteq Digests
  BY DEF StoreInv, TypeOK
<1>2. call[p].step \in Adding /\ call'[p].step \in Adding
  BY DEF Adding, HasTemp
<1> QED
  BY <1>1, <1>2, CallKeeps

LEMMA WriteKeeps ==
  ASSUME StoreInv, NEW p \in Proc, Write(p)
  PROVE  StoreInv'
<1>1. call[p].step = "write" /\ UNCHANGED <<file, lock, temps, home, disk, calls, granted, durable, accidents>>
  BY DEF Write, At, store, history
<1>2. OwnOf(call[p], file, granted, accidents.edits)
  BY DEF StoreInv, Own
<1>3. CASE Leave(p, StoreFailed)
  BY <1>1, <1>3, LeaveKeeps DEF StoreFailed, Bare
<1>4. CASE Goto(p, "sync")
  <2>1. Answers(p, "sync", call[p].result)
    BY <1>4, GotoAnswers DEF StoreInv, Steps
  <2>2. OwnOf(call'[p], file, granted, accidents.edits)
    BY <1>1, <1>2, <2>1 DEF Answers, OwnOf, Fresh, Replacing, Knows, Says, Deciding, HasTemp
  <2> QED
    BY <1>1, <2>1, <2>2, WorkKeeps DEF Answers, HasTemp
<1> QED
  BY <1>3, <1>4 DEF Write

LEMMA SyncKeeps ==
  ASSUME StoreInv, NEW p \in Proc, Sync(p)
  PROVE  StoreInv'
<1>1. call[p].step = "sync" /\ UNCHANGED <<file, lock, temps, home, disk, calls, granted, durable, accidents>>
  BY DEF Sync, At, store, history
<1>2. OwnOf(call[p], file, granted, accidents.edits)
  BY DEF StoreInv, Own
<1>3. CASE Leave(p, StoreFailed)
  BY <1>1, <1>3, LeaveKeeps DEF StoreFailed, Bare
<1>4. CASE call' = [call EXCEPT ![p].step = "rename", ![p].synced = TRUE]
  <2> DEFINE c == [call[p] EXCEPT !.step = "rename", !.synced = TRUE]
  <2>1. call[p] \in CallType
    BY DEF StoreInv, TypeOK, CallType
  <2>2. c \in CallType
    BY <2>1 DEF CallType, Steps
  <2>3. call' = [call EXCEPT ![p] = c]
    BY <1>4 DEF StoreInv, TypeOK, CallType
  <2>4. Only(p) /\ call'[p] = c
    BY <2>2, <2>3, Replaced DEF StoreInv
  <2>5. OwnOf(c, file, granted, accidents.edits) /\ c.step = "rename"
    BY <1>1, <1>2, <2>1 DEF CallType, OwnOf, Fresh, Replacing, Knows, Says, Deciding, HasTemp, Success
  <2> QED
    BY <1>1, <2>4, <2>5, WorkKeeps DEF HasTemp
<1> QED
  BY <1>3, <1>4 DEF Sync

(* Only the process inside Add has a temporary file. *)
LEMMA CreateTemporaryKeeps ==
  ASSUME StoreInv, NEW p \in Proc, CreateTemporary(p)
  PROVE  StoreInv'
<1>1. call[p].step = "create" /\ UNCHANGED <<file, lock, home, disk, calls, granted, durable, accidents>>
  BY DEF CreateTemporary, At, history
<1>2. OwnOf(call[p], file, granted, accidents.edits) /\ ~call[p].wrote
  BY <1>1 DEF StoreInv, Own, OwnOf, Replacing
<1>3. CASE (Leave(p, StoreFailed) \/ Leave(p, Bare)) /\ UNCHANGED temps
  BY <1>1, <1>2, <1>3, LeaveKeeps DEF StoreFailed, Bare
<1>4. CASE call' = [call EXCEPT ![p].step = "write", ![p].temp = TRUE] /\ temps' = temps + 1
  <2> DEFINE c == [call[p] EXCEPT !.step = "write", !.temp = TRUE]
  <2>1. call[p] \in CallType
    BY DEF StoreInv, TypeOK, CallType
  <2>2. c \in CallType
    BY <2>1 DEF CallType, Steps
  <2>3. call' = [call EXCEPT ![p] = c]
    BY <1>4 DEF StoreInv, TypeOK, CallType
  <2>4. Only(p) /\ call'[p] = c
    BY <2>2, <2>3, Replaced DEF StoreInv
  <2>5. OwnOf(c, file, granted, accidents.edits) /\ c.step = "write"
    BY <1>1, <1>2, <2>1 DEF CallType, OwnOf, Fresh, Replacing, Knows, Says, Deciding, HasTemp, Success
  <2>6. lock /\ \A q \in Proc : call[q].step \in Adding => q = p
    BY <1>1 DEF StoreInv, Exclusion, Adding
  <2>7. \A q \in Proc : call'[q].step \in Adding <=> q = p
    BY <2>4, <2>5, <2>6 DEF Only, Adding
  <2>8. TypeOK'
    BY <1>1, <1>4, <2>4 DEF StoreInv, TypeOK, Only, CallType
  <2>9. Own'
    BY <1>1, <2>4, <2>5, OthersKeep
  <2>10. Exclusion' /\ LockExplained'
    BY <1>1, <2>6, <2>7 DEF Exclusion, LockExplained
  <2>11. Disks'
    BY <1>1 DEF StoreInv, Disks, AdoptionSurvives
  <2>12. Residue'
    <3>1. temps <= Mishaps /\ temps \in Nat /\ Mishaps \in Nat
      BY <1>1 DEF StoreInv, Residue, TypeOK, Mishaps, Adding, HasTemp
    <3>2. \A q \in Proc : call'[q].step \in Adding => call'[q].step \in HasTemp
      BY <2>4, <2>5, <2>7 DEF HasTemp
    <3>3. Mishaps' = Mishaps /\ lock'
      BY <1>1, <2>6 DEF Mishaps
    <3>4. temps' <= 1 + Mishaps' /\ temps' >= 1
      BY <1>4, <3>1, <3>3
    <3>5. \A q \in Proc : call'[q].step \in Adding \ HasTemp => temps' <= Mishaps'
      BY <3>2
    <3> QED
      BY <3>3, <3>4, <3>5 DEF Residue
  <2> QED
    BY <2>8, <2>9, <2>10, <2>11, <2>12 DEF StoreInv
<1> QED
  BY <1>3, <1>4 DEF CreateTemporary

LEMMA ReceiptsOfSet ==
  ASSUME NEW S \in SUBSET Digests
  PROVE  Receipts(S) = S /\ S # Torn /\ S # NoFile /\ S \in Contents
BY StoreAssumption DEF Receipts, Contents

(* The receipts read under the lock are still those in the file when it is  *)
(* replaced: the new file holds them all, and the one added.                *)
LEMMA RenameKeeps ==
  ASSUME StoreInv, NEW p \in Proc, Rename(p)
  PROVE  StoreInv' /\ (accidents.edits = 0 => Receipts(file) \subseteq Receipts(file'))
<1>1. call[p].step = "rename" /\ UNCHANGED <<lock, home, calls, granted, durable, accidents>>
  BY DEF Rename, At, history
<1>2. OwnOf(call[p], file, granted, accidents.edits) /\ ~call[p].wrote /\ call[p].synced
  BY <1>1 DEF StoreInv, Own, OwnOf, Replacing, HasTemp
<1>3. CASE (Leave(p, StoreFailed) \/ Leave(p, Bare)) /\ UNCHANGED <<file, temps, disk>>
  <2>1. StoreInv'
    BY <1>1, <1>2, <1>3, LeaveKeeps DEF StoreFailed, Bare
  <2> QED
    BY <1>3, <2>1
<1>4. CASE /\ file' = call[p].next /\ temps' = temps - 1
           /\ disk' = [disk EXCEPT !.file = @ \cup {file'} \cup (IF call[p].synced THEN {} ELSE {Torn})]
           /\ call' = [call EXCEPT ![p].step = "dirsync", ![p].temp = FALSE, ![p].wrote = TRUE]
  <2> DEFINE c == [call[p] EXCEPT !.step = "dirsync", !.temp = FALSE, !.wrote = TRUE]
  <2>1. call[p] \in CallType
    BY DEF StoreInv, TypeOK, CallType
  <2>2. c \in CallType
    BY <2>1 DEF CallType, Steps
  <2>3. call' = [call EXCEPT ![p] = c]
    BY <1>4 DEF StoreInv, TypeOK, CallType
  <2>4. Only(p) /\ call'[p] = c
    BY <2>2, <2>3, Replaced DEF StoreInv
  <2>5. file' \in SUBSET granted /\ granted \subseteq Digests
    BY <1>1, <1>2, <1>4 DEF OwnOf, Replacing, StoreInv, TypeOK
  <2>6. Receipts(file') = file' /\ file' # Torn /\ file' \in Contents
    BY <2>5, ReceiptsOfSet
  <2>7. accidents.edits = 0 => file' = Receipts(file) \cup {call[p].digest}
    BY <1>1, <1>2, <1>4 DEF OwnOf, Knows
  <2>8. /\ c.step = "dirsync" /\ ~c.temp /\ c.wrote /\ c.next = file' /\ c.result = "none"
        /\ c.digest = call[p].digest /\ c.known = call[p].known
    BY <1>1, <1>2, <1>4, <2>1 DEF CallType, OwnOf, Replacing
  <2>9. OwnOf(c, file', granted, accidents.edits)
    <3>1. Fresh(c) /\ Replacing(c, granted) /\ Says(c)
      BY <2>5, <2>8 DEF Fresh, Replacing, Says, Deciding, HasTemp, Refusals
    <3>2. Knows(c, file', granted, accidents.edits)
      BY <1>1, <1>2, <2>6, <2>7, <2>8 DEF OwnOf, Knows, Success
    <3> QED
      BY <3>1, <3>2 DEF OwnOf
  <2>10. lock /\ \A q \in Proc : call[q].step \in Adding => q = p
    BY <1>1 DEF StoreInv, Exclusion, Adding
  <2>11. \A q \in Proc : call'[q].step \in Adding <=> q = p
    BY <2>4, <2>8, <2>10 DEF Only, Adding
  <2>12. disk'.file = disk.file \cup {file'} /\ disk'.lock = disk.lock
         /\ disk' \in [file : SUBSET Contents, lock : SUBSET BOOLEAN]
    BY <1>2, <1>4, <2>6 DEF StoreInv, TypeOK
  <2>13. temps \in Nat /\ temps >= 1 /\ temps <= 1 + Mishaps /\ Mishaps \in Nat
    BY <1>1 DEF StoreInv, Residue, TypeOK, Mishaps, HasTemp
  <2>14. TypeOK'
    BY <1>1, <1>4, <2>4, <2>6, <2>12, <2>13 DEF StoreInv, TypeOK, Only, CallType
  <2>15. Own'
    <3>1. accidents.edits = 0 => Receipts(file) \subseteq Receipts(file')
      BY <2>6, <2>7
    <3> SUFFICES ASSUME NEW q \in Proc, q # p PROVE OwnOf(call'[q], file', granted', accidents'.edits)
      BY <1>1, <2>4, <2>9 DEF Own
    <3>2. call'[q] = call[q] /\ OwnOf(call[q], file, granted, accidents.edits) /\ call[q].step \notin Adding
      BY <2>4, <2>10 DEF Only, StoreInv, Own
    <3>3. Knows(call[q], file', granted, accidents.edits)
      BY <3>1, <3>2 DEF OwnOf, Knows, Adding
    <3> QED
      BY <1>1, <3>2, <3>3 DEF OwnOf
  <2>16. Exclusion' /\ LockExplained'
    BY <1>1, <2>10, <2>11 DEF Exclusion, LockExplained
  <2>17. Disks'
    <3>1. \A d \in disk'.file : Receipts(d) \subseteq granted'
      BY <1>1, <2>5, <2>6, <2>12 DEF StoreInv, Disks
    <3>2. accidents.edits = 0 => file \in disk.file /\ durable \subseteq Receipts(file)
      BY DEF StoreInv, TypeOK, Disks, AdoptionSurvives
    <3>3. AdoptionSurvives'
      BY <1>1, <2>6, <2>7, <2>12, <3>2 DEF StoreInv, Disks, AdoptionSurvives
    <3> QED
      BY <3>1, <3>3 DEF Disks
  <2>18. Residue'
    <3>1. Mishaps' = Mishaps /\ lock' /\ temps' <= Mishaps
      BY <1>1, <1>4, <2>10, <2>13 DEF Mishaps
    <3>2. \A q \in Proc : call'[q].step \notin HasTemp
      BY <2>4, <2>8, <2>11 DEF HasTemp, Adding
    <3>3. temps' <= Mishaps' /\ temps' <= 1 + Mishaps'
      BY <1>4, <2>13, <3>1
    <3> QED
      BY <3>2, <3>3 DEF Residue
  <2>19. StoreInv'
    BY <2>14, <2>15, <2>16, <2>17, <2>18 DEF StoreInv
  <2> QED
    BY <2>6, <2>7, <2>19
<1> QED
  BY <1>3, <1>4 DEF Rename

(* Once the directory is synced only the new file can be found.             *)
LEMMA SyncDirectoryKeeps ==
  ASSUME StoreInv, NEW p \in Proc, SyncDirectory(p)
  PROVE  StoreInv'
<1>1. call[p].step = "dirsync" /\ UNCHANGED <<file, lock, temps, home, calls, granted, accidents>>
  BY DEF SyncDirectory, At
<1>2. OwnOf(call[p], file, granted, accidents.edits)
  BY DEF StoreInv, Own
<1>3. call[p].digest \in granted /\ (accidents.edits = 0 => call[p].digest \in Receipts(file))
  BY <1>1, <1>2 DEF OwnOf, Knows
<1>4. CASE Leave(p, StoreFailed) /\ UNCHANGED <<disk, durable>>
  BY <1>1, <1>4, LeaveKeeps DEF StoreFailed, Bare
<1>5. CASE Leave(p, "newly_adopted") /\ disk' = [file |-> {file}, lock |-> {lock}]
           /\ durable' = durable \cup {call[p].digest}
  <2>1. /\ Only(p) /\ OwnOf(call'[p], file, granted, accidents.edits)
        /\ call'[p].step \in {"cleanup", "unlock"}
        /\ call'[p].step \in HasTemp <=> call[p].step \in HasTemp
    BY <1>1, <1>3, <1>5, LeaveOwn DEF Bare
  <2>2. \A q \in Proc : /\ call'[q].step \in Adding <=> call[q].step \in Adding
                        /\ call'[q].step \in HasTemp <=> call[q].step \in HasTemp
    BY <1>1, <2>1 DEF Only, Adding
  <2>3. TypeOK'
    BY <1>1, <1>3, <1>5, <2>1 DEF StoreInv, TypeOK, Only, CallType
  <2>4. Own'
    BY <1>1, <2>1, OthersKeep
  <2>5. Exclusion' /\ LockExplained'
    BY <1>1, <2>2 DEF StoreInv, Exclusion, LockExplained
  <2>6. Disks'
    BY <1>1, <1>3, <1>5 DEF StoreInv, TypeOK, Disks, AdoptionSurvives
  <2>7. Residue'
    BY <1>1, <2>2 DEF StoreInv, Residue, Mishaps
  <2> QED
    BY <2>3, <2>4, <2>5, <2>6, <2>7 DEF StoreInv
<1> QED
  BY <1>4, <1>5 DEF SyncDirectory

(* The temporary file is removed, or its loss is counted.                   *)
LEMMA CleanUpKeeps ==
  ASSUME StoreInv, NEW p \in Proc, CleanUp(p)
  PROVE  StoreInv'
<1>1. call[p].step = "cleanup" /\ Goto(p, "unlock") /\ UNCHANGED <<file, lock, home, disk, calls, granted, durable>>
  BY DEF CleanUp, At
<1>2. OwnOf(call[p], file, granted, accidents.edits)
  BY DEF StoreInv, Own
<1>3. Answers(p, "unlock", call[p].result)
  BY <1>1, GotoAnswers DEF StoreInv, Steps
<1>4. lock /\ \A q \in Proc : call[q].step \in Adding => q = p
  BY <1>1 DEF StoreInv, Exclusion, Adding
<1>5. \A q \in Proc : call'[q].step \in Adding <=> q = p
  BY <1>3, <1>4 DEF Answers, Only, Adding
<1>6. /\ temps \in Nat /\ temps >= 1 /\ temps <= 1 + Mishaps /\ Mishaps \in Nat
      /\ accidents \in [crashes : 0..MaxCrashes, losses : 0..MaxLosses, edits : 0..MaxEdits, leftovers : Nat]
  BY <1>1 DEF StoreInv, Residue, TypeOK, Mishaps, HasTemp
<1>7. /\ accidents' \in [crashes : 0..MaxCrashes, losses : 0..MaxLosses, edits : 0..MaxEdits, leftovers : Nat]
      /\ accidents'.edits = accidents.edits
      /\ temps' \in Nat /\ temps' <= Mishaps' /\ temps' <= 1 + Mishaps'
  <2>1. CASE temps' = temps - 1 /\ UNCHANGED accidents
    BY <1>6, <2>1 DEF Mishaps
  <2>2. CASE LeftBehind /\ UNCHANGED temps
    BY <1>6, <2>2 DEF LeftBehind, Mishaps
  <2> QED
    BY <2>1, <2>2 DEF CleanUp
<1>8. OwnOf(call'[p], file, granted, accidents'.edits)
  BY <1>1, <1>2, <1>3, <1>7 DEF Answers, OwnOf, Fresh, Replacing, Knows, Says, Deciding, HasTemp
<1>9. TypeOK'
  BY <1>1, <1>3, <1>7 DEF StoreInv, TypeOK, Only, CallType, Answers
<1>10. Own'
  BY <1>1, <1>3, <1>7, <1>8, OthersKeep DEF Answers
<1>11. Exclusion' /\ LockExplained'
  BY <1>1, <1>4, <1>5 DEF Exclusion, LockExplained
<1>12. Disks'
  BY <1>1, <1>7 DEF StoreInv, Disks, AdoptionSurvives
<1>13. Residue'
  <2>1. \A q \in Proc : call'[q].step \notin HasTemp
    BY <1>3, <1>5 DEF Answers, HasTemp, Adding
  <2> QED
    BY <1>7, <2>1 DEF Residue
<1> QED
  BY <1>9, <1>10, <1>11, <1>12, <1>13 DEF StoreInv

(* The lock is removed, or its loss is counted.                             *)
LEMMA UnlockKeeps ==
  ASSUME StoreInv, NEW p \in Proc, Unlock(p)
  PROVE  StoreInv'
<1>1. call[p].step = "unlock" /\ Goto(p, "returned") /\ UNCHANGED <<file, temps, home, calls, granted, durable>>
  BY DEF Unlock, At
<1>2. OwnOf(call[p], file, granted, accidents.edits)
  BY DEF StoreInv, Own
<1>3. Answers(p, "returned", call[p].result)
  BY <1>1, GotoAnswers DEF StoreInv, Steps
<1>4. lock /\ \A q \in Proc : call[q].step \in Adding => q = p
  BY <1>1 DEF StoreInv, Exclusion, Adding
<1>5. \A q \in Proc : call'[q].step \notin Adding
  BY <1>3, <1>4 DEF Answers, Only, Adding
<1>6. /\ temps \in Nat /\ temps <= Mishaps /\ Mishaps \in Nat
      /\ accidents \in [crashes : 0..MaxCrashes, losses : 0..MaxLosses, edits : 0..MaxEdits, leftovers : Nat]
  BY <1>1 DEF StoreInv, Residue, TypeOK, Mishaps, HasTemp, Adding
<1>7. /\ accidents' \in [crashes : 0..MaxCrashes, losses : 0..MaxLosses, edits : 0..MaxEdits, leftovers : Nat]
      /\ accidents'.edits = accidents.edits
      /\ temps' <= Mishaps' /\ temps' <= 1 + Mishaps'
      /\ disk'.file = disk.file /\ disk' \in [file : SUBSET Contents, lock : SUBSET BOOLEAN]
      /\ lock' \in disk'.lock /\ lock' \in BOOLEAN
      /\ lock' => accidents'.crashes + accidents'.losses + accidents'.leftovers > 0
  <2>1. CASE lock' = FALSE /\ disk' = [disk EXCEPT !.lock = @ \cup {FALSE}] /\ UNCHANGED accidents
    <3>1. disk'.file = disk.file /\ disk'.lock = disk.lock \cup {FALSE}
          /\ disk' \in [file : SUBSET Contents, lock : SUBSET BOOLEAN]
      BY <2>1 DEF StoreInv, TypeOK
    <3>2. lock' \in disk'.lock /\ lock' \in BOOLEAN /\ ~lock'
      BY <2>1, <3>1
    <3>3. Mishaps' = Mishaps
      BY <2>1 DEF Mishaps
    <3>4. temps' <= Mishaps' /\ temps' <= 1 + Mishaps'
      BY <1>1, <1>6, <3>3
    <3> QED
      BY <1>6, <2>1, <3>1, <3>2, <3>4
  <2>2. CASE LeftBehind /\ UNCHANGED <<lock, disk>>
    BY <1>1, <1>6, <2>2 DEF LeftBehind, Mishaps, StoreInv, TypeOK
  <2> QED
    BY <2>1, <2>2 DEF Unlock
<1>8. OwnOf(call'[p], file, granted, accidents'.edits)
  BY <1>1, <1>2, <1>3, <1>7 DEF Answers, OwnOf, Fresh, Replacing, Knows, Says, Deciding, HasTemp
<1>9. TypeOK'
  BY <1>1, <1>3, <1>7 DEF StoreInv, TypeOK, Only, CallType, Answers
<1>10. Own'
  BY <1>1, <1>3, <1>7, <1>8, OthersKeep DEF Answers
<1>11. Exclusion' /\ LockExplained'
  BY <1>5, <1>7 DEF Exclusion, LockExplained
<1>12. Disks'
  BY <1>1, <1>7 DEF StoreInv, Disks, AdoptionSurvives
<1>13. Residue'
  BY <1>5, <1>7 DEF Residue, HasTemp, Adding
<1> QED
  BY <1>9, <1>10, <1>11, <1>12, <1>13 DEF StoreInv

LEMMA AddKeeps ==
  ASSUME StoreInv, NEW p \in Proc, Add(p)
  PROVE  StoreInv'
BY HomeKeeps, TakeLockKeeps, LoadKeeps, CreateTemporaryKeeps, WriteKeeps, SyncKeeps, RenameKeeps,
   SyncDirectoryKeeps, CleanUpKeeps, UnlockKeeps DEF Add

----------------------------------------------------------------------------
(* What happens around the processes.                                       *)

LEMMA CancelKeeps ==
  ASSUME StoreInv, NEW p \in Proc, Cancel(p)
  PROVE  StoreInv'
<1> DEFINE c == [call[p] EXCEPT !.canceled = TRUE]
<1>1. call[p] \in CallType /\ OwnOf(call[p], file, granted, accidents.edits)
  BY DEF StoreInv, TypeOK, CallType, Own
<1>2. c \in CallType
  BY <1>1 DEF CallType
<1>3. call' = [call EXCEPT ![p] = c]
  BY DEF StoreInv, TypeOK, CallType, Cancel
<1>4. Only(p) /\ call'[p] = c
  BY <1>2, <1>3, Replaced DEF StoreInv
<1>5. OwnOf(c, file, granted, accidents.edits) /\ c.step = call[p].step
  BY <1>1 DEF CallType, OwnOf, Fresh, Replacing, Knows, Says
<1>6. UNCHANGED <<file, lock, temps, home, disk, calls, granted, durable, accidents>>
  BY DEF Cancel, store, history
<1>7. home' \in BOOLEAN /\ calls' \in [Proc -> 0..MaxCalls] /\ granted \subseteq Digests
  BY <1>6 DEF StoreInv, TypeOK
<1> QED
  BY <1>4, <1>5, <1>6, <1>7, CallKeeps

(* A process that dies inside Add leaves the lock, and nobody enters again. *)
LEMMA CrashKeeps ==
  ASSUME StoreInv, NEW p \in Proc, Crash(p)
  PROVE  StoreInv'
<1>1. /\ call' = [call EXCEPT ![p] = NoCall] /\ accidents.crashes < MaxCrashes
      /\ accidents' = [accidents EXCEPT !.crashes = @ + 1]
      /\ UNCHANGED <<file, lock, temps, home, disk, calls, granted, durable>>
  BY DEF Crash, store
<1>2. Only(p) /\ call'[p] = NoCall
  BY <1>1, NoCallType, Replaced DEF StoreInv
<1>3. \A q \in Proc : call'[q].step \in Adding => q # p /\ call'[q] = call[q]
  BY <1>2 DEF Only, NoCall, Adding
<1>4. accidents \in [crashes : 0..MaxCrashes, losses : 0..MaxLosses, edits : 0..MaxEdits, leftovers : Nat]
  BY DEF StoreInv, TypeOK
<1>5. /\ accidents' \in [crashes : 0..MaxCrashes, losses : 0..MaxLosses, edits : 0..MaxEdits, leftovers : Nat]
      /\ accidents'.edits = accidents.edits
      /\ accidents'.crashes + accidents'.losses + accidents'.leftovers > 0
  BY <1>1, <1>4, StoreAssumption
<1>6. Mishaps' = Mishaps
  BY <1>1, <1>4 DEF Mishaps
<1>7. TypeOK'
  BY <1>1, <1>2, <1>5 DEF StoreInv, TypeOK, Only, CallType
<1>8. Own'
  BY <1>1, <1>2, <1>5, NoCallOwn, OthersKeep
<1>9. Exclusion'
  BY <1>1, <1>3 DEF StoreInv, Exclusion
<1>10. LockExplained'
  BY <1>5 DEF LockExplained
<1>11. Disks'
  BY <1>1, <1>5 DEF StoreInv, Disks, AdoptionSurvives
<1>12. Residue'
  <2>1. HasTemp \subseteq Adding
    BY DEF HasTemp, Adding
  <2> QED
    BY <1>1, <1>3, <1>6, <2>1 DEF StoreInv, Residue
<1> QED
  BY <1>7, <1>8, <1>9, <1>10, <1>11, <1>12 DEF StoreInv

(* What a power loss leaves was possible before it.                         *)
LEMMA PowerLossKeeps ==
  ASSUME StoreInv, PowerLoss
  PROVE  StoreInv'
<1>1. /\ accidents.losses < MaxLosses /\ accidents' = [accidents EXCEPT !.losses = @ + 1]
      /\ file' \in disk.file /\ lock' \in disk.lock /\ temps' \in 0..temps
      /\ disk' = [file |-> {file'}, lock |-> {lock'}]
      /\ call' = [p \in Proc |-> NoCall]
      /\ UNCHANGED <<home, calls, granted, durable>>
  BY DEF PowerLoss
<1>2. accidents \in [crashes : 0..MaxCrashes, losses : 0..MaxLosses, edits : 0..MaxEdits, leftovers : Nat]
  BY DEF StoreInv, TypeOK
<1>3. /\ accidents' \in [crashes : 0..MaxCrashes, losses : 0..MaxLosses, edits : 0..MaxEdits, leftovers : Nat]
      /\ accidents'.edits = accidents.edits
      /\ accidents'.crashes + accidents'.losses + accidents'.leftovers > 0
  BY <1>1, <1>2, StoreAssumption
<1>4. temps \in Nat /\ temps' \in Nat /\ temps' <= temps /\ temps <= 1 + Mishaps /\ Mishaps \in Nat
  BY <1>1, <1>2 DEF StoreInv, TypeOK, Residue, Mishaps
<1>5. Mishaps' = Mishaps + 1
  BY <1>1, <1>2 DEF Mishaps
<1>6. \A p \in Proc : call'[p] = NoCall /\ call'[p].step \notin Adding /\ call'[p].step \notin HasTemp
  BY <1>1 DEF NoCall, Adding, HasTemp
<1>7. TypeOK'
  <2>1. file' \in Contents /\ lock' \in BOOLEAN /\ file' \in disk'.file /\ lock' \in disk'.lock
        /\ disk' \in [file : SUBSET Contents, lock : SUBSET BOOLEAN]
    BY <1>1 DEF StoreInv, TypeOK
  <2>2. call' \in [Proc -> CallType]
    BY <1>1, NoCallType
  <2> QED
    BY <1>1, <1>3, <1>4, <2>1, <2>2 DEF StoreInv, TypeOK, CallType
<1>8. Own'
  BY <1>6, NoCallOwn DEF Own
<1>9. Exclusion'
  BY <1>6 DEF Exclusion
<1>10. LockExplained'
  BY <1>3 DEF LockExplained
<1>11. Disks'
  BY <1>1, <1>3 DEF StoreInv, Disks, AdoptionSurvives
<1>12. Residue'
  <2>1. temps' <= Mishaps' /\ temps' <= 1 + Mishaps'
    BY <1>4, <1>5
  <2> QED
    BY <1>6, <2>1 DEF Residue
<1> QED
  BY <1>7, <1>8, <1>9, <1>10, <1>11, <1>12 DEF StoreInv

(* Once the user edited the file or removed a lock, nothing is expected of  *)
(* its receipts but that they were confirmed.                               *)
LEMMA EditedCounts ==
  ASSUME StoreInv, Edited
  PROVE  /\ accidents' \in [crashes : 0..MaxCrashes, losses : 0..MaxLosses, edits : 0..MaxEdits, leftovers : Nat]
         /\ accidents'.edits > 0 /\ Mishaps' = Mishaps + 1 /\ Mishaps \in Nat
         /\ accidents'.crashes = accidents.crashes /\ accidents'.losses = accidents.losses
         /\ accidents'.leftovers = accidents.leftovers
<1>1. accidents \in [crashes : 0..MaxCrashes, losses : 0..MaxLosses, edits : 0..MaxEdits, leftovers : Nat]
  BY DEF StoreInv, TypeOK
<1> QED
  BY <1>1, StoreAssumption DEF Edited, Mishaps

LEMMA EditedOwn ==
  ASSUME StoreInv, Edited, call' = call, granted \subseteq granted'
  PROVE  Own'
<1> SUFFICES ASSUME NEW p \in Proc PROVE OwnOf(call[p], file', granted', accidents'.edits)
  BY DEF Own
<1>1. OwnOf(call[p], file, granted, accidents.edits)
  BY DEF StoreInv, Own
<1>2. accidents'.edits > 0
  BY EditedCounts
<1> QED
  BY <1>1, <1>2 DEF OwnOf, Replacing, Knows

LEMMA EditKeeps ==
  ASSUME StoreInv, Edit
  PROVE  StoreInv'
<1>1. PICK c \in Contents : /\ file' = c /\ disk' = [disk EXCEPT !.file = @ \cup {c}]
                            /\ granted' = granted \cup Receipts(c)
  BY DEF Edit
<1>2. Edited /\ UNCHANGED <<lock, temps, home, call, calls, durable>>
  BY DEF Edit
<1>3. Receipts(c) \in SUBSET Digests
  BY ReceiptsType
<1>4. disk'.file = disk.file \cup {c} /\ disk'.lock = disk.lock
      /\ disk' \in [file : SUBSET Contents, lock : SUBSET BOOLEAN]
  BY <1>1 DEF StoreInv, TypeOK
<1>5. TypeOK'
  BY <1>1, <1>2, <1>3, <1>4, EditedCounts DEF StoreInv, TypeOK
<1>6. Own'
  BY <1>1, <1>2, EditedOwn
<1>7. Exclusion' /\ LockExplained'
  BY <1>2, EditedCounts DEF StoreInv, Exclusion, LockExplained
<1>8. Disks'
  <2>1. \A d \in disk'.file : Receipts(d) \subseteq granted'
    BY <1>1, <1>4 DEF StoreInv, Disks
  <2>2. AdoptionSurvives'
    BY <1>2, EditedCounts DEF AdoptionSurvives
  <2> QED
    BY <2>1, <2>2 DEF Disks
<1>9. Residue'
  <2>1. temps \in Nat /\ Mishaps \in Nat /\ Mishaps' = Mishaps + 1
    BY <1>2, EditedCounts DEF StoreInv, TypeOK
  <2> QED
    BY <1>2, <2>1 DEF StoreInv, Residue
<1> QED
  BY <1>5, <1>6, <1>7, <1>8, <1>9 DEF StoreInv

LEMMA RemoveStaleLockKeeps ==
  ASSUME StoreInv, RemoveStaleLock
  PROVE  StoreInv'
<1>1. /\ Edited /\ \A p \in Proc : call[p].step \notin Adding
      /\ lock' = FALSE /\ disk' = [disk EXCEPT !.lock = @ \cup {FALSE}]
      /\ UNCHANGED <<file, temps, home, call, calls, granted, durable>>
  BY DEF RemoveStaleLock
<1>2. disk'.file = disk.file /\ disk'.lock = disk.lock \cup {FALSE}
      /\ disk' \in [file : SUBSET Contents, lock : SUBSET BOOLEAN]
  BY <1>1 DEF StoreInv, TypeOK
<1>3. lock' \in BOOLEAN /\ lock' \in disk'.lock
  BY <1>1, <1>2
<1>4. TypeOK'
  BY <1>1, <1>2, <1>3, EditedCounts DEF StoreInv, TypeOK
<1>5. Own'
  BY <1>1, EditedOwn
<1>6. Exclusion' /\ LockExplained'
  BY <1>1 DEF Exclusion, LockExplained
<1>7. Disks'
  <2>1. AdoptionSurvives'
    BY <1>1, EditedCounts DEF AdoptionSurvives
  <2> QED
    BY <1>1, <1>2, <2>1 DEF StoreInv, Disks
<1>8. Residue'
  <2>1. temps' <= Mishaps' /\ temps' <= 1 + Mishaps'
    BY <1>1, EditedCounts DEF StoreInv, TypeOK, Residue
  <2> QED
    BY <1>1, <2>1 DEF Residue, HasTemp, Adding
<1> QED
  BY <1>4, <1>5, <1>6, <1>7, <1>8 DEF StoreInv

LEMMA NextKeeps == StoreInv /\ [Next]_vars => StoreInv'
<1> SUFFICES ASSUME StoreInv, [Next]_vars PROVE StoreInv'
  OBVIOUS
<1>1. ASSUME NEW p \in Proc, Start(p) \/ Decide(p) \/ Add(p) \/ Cancel(p) \/ Crash(p) PROVE StoreInv'
  BY <1>1, StartKeeps, DecideKeeps, AddKeeps, CancelKeeps, CrashKeeps
<1>2. CASE PowerLoss \/ Edit \/ RemoveStaleLock
  BY <1>2, PowerLossKeeps, EditKeeps, RemoveStaleLockKeeps
<1>3. CASE UNCHANGED vars
  BY <1>3 DEF vars, StoreInv, TypeOK, Own, Exclusion, Disks, AdoptionSurvives, Residue, Mishaps, LockExplained
<1> QED
  BY <1>1, <1>2, <1>3 DEF Next

LEMMA StoreInvHolds == Spec => []StoreInv
BY InitKeeps, NextKeeps, PTL DEF Spec

----------------------------------------------------------------------------
(* The theorems.                                                            *)

(* Every variable keeps its type, whatever processes race, die or fail, and *)
(* what the directory holds is always among what a power loss may leave.    *)
THEOREM TypeCorrect == Spec => []TypeOK
<1>1. StoreInv => TypeOK
  BY DEF StoreInv
<1> QED
  BY <1>1, StoreInvHolds, PTL

(* At most one process is between taking and removing the lock of           *)
(* trustfile.Store.Add, and the lock file exists while it is.               *)
THEOREM AddExcludes == Spec => []Exclusion
<1>1. StoreInv => Exclusion
  BY DEF StoreInv
<1> QED
  BY <1>1, StoreInvHolds, PTL

(* What a process reports as adopted is in the receipt file until the user  *)
(* edits it, and nothing is in it that the user did not confirm.            *)
THEOREM ReportsAreTrue == Spec => []ReportTruth
<1>1. StoreInv => ReportTruth
  <2> SUFFICES ASSUME StoreInv PROVE ReportTruth
    OBVIOUS
  <2>1. OnlyConfirmed
    BY DEF StoreInv, TypeOK, Disks, OnlyConfirmed
  <2>2. ASSUME accidents.edits = 0, NEW p \in Proc, call[p].result \in {"already_adopted", "newly_adopted", "adopted"}
        PROVE  call[p].digest \in Receipts(file)
    BY <2>2 DEF StoreInv, Own, OwnOf, Knows, Success
  <2> QED
    BY <2>1, <2>2 DEF ReportTruth
<1> QED
  BY <1>1, StoreInvHolds, PTL

(* A refusal of Service.Trust is given only while no new store is in hand,  *)
(* and a store that was written is reported as success or as a failure.     *)
THEOREM RefusalsAreClean == Spec => []RefusalsChangedNothing
<1>1. StoreInv => RefusalsChangedNothing
  BY DEF StoreInv, Own, OwnOf, Says, RefusalsChangedNothing
<1> QED
  BY <1>1, StoreInvHolds, PTL

(* However many processes die inside Add, one temporary file is the most    *)
(* they leave between them, and a lock without a holder has a cause.        *)
THEOREM LeftoversHaveCause == Spec => []LeftoversAccounted
<1>1. StoreInv => LeftoversAccounted
  <2> SUFFICES ASSUME StoreInv PROVE LeftoversAccounted
    OBVIOUS
  <2>1. accidents \in [crashes : 0..MaxCrashes, losses : 0..MaxLosses, edits : 0..MaxEdits, leftovers : Nat]
    BY DEF StoreInv, TypeOK
  <2>2. temps <= 1 + accidents.leftovers + accidents.losses + accidents.edits
    <3>1. 1 + Mishaps = 1 + accidents.leftovers + accidents.losses + accidents.edits
      BY <2>1 DEF Mishaps
    <3> QED
      BY <3>1 DEF StoreInv, Residue
  <2> QED
    BY <2>2 DEF StoreInv, LockExplained, LeftoversAccounted
<1> QED
  BY <1>1, StoreInvHolds, PTL

(* What was reported after the directory was synced is in every content a   *)
(* power loss may leave, and none of these is torn.                         *)
THEOREM AdoptionsSurvive == Spec => []AdoptionSurvives
<1>1. StoreInv => AdoptionSurvives
  BY DEF StoreInv, Disks
<1> QED
  BY <1>1, StoreInvHolds, PTL

(* Every step but a power loss, an edit or what follows an edit keeps every *)
(* receipt: the store is replaced by a superset of what it is at that moment. *)
THEOREM NothingIsLost == Spec => ReceiptsKept
<1> DEFINE Kept == \/ accidents'.losses # accidents.losses \/ accidents'.edits > 0
                   \/ Receipts(file) \subseteq Receipts(file')
<1>1. StoreInv /\ [Next]_vars => [Kept]_vars
  <2> SUFFICES ASSUME StoreInv, Next PROVE Kept
    OBVIOUS
  <2>1. accidents \in [crashes : 0..MaxCrashes, losses : 0..MaxLosses, edits : 0..MaxEdits, leftovers : Nat]
    BY DEF StoreInv, TypeOK
  <2>2. CASE PowerLoss
    BY <2>1, <2>2 DEF PowerLoss
  <2>3. CASE Edit \/ RemoveStaleLock
    BY <2>3, EditedCounts DEF Edit, RemoveStaleLock
  <2>4. ASSUME NEW p \in Proc, Rename(p) PROVE Kept
    <3>1. accidents' = accidents
      BY <2>4 DEF Rename, history
    <3>2. accidents.edits = 0 \/ accidents.edits > 0
      BY <2>1
    <3> QED
      BY <2>4, <3>1, <3>2, RenameKeeps
  <2>5. ASSUME NEW p \in Proc, Start(p) \/ Decide(p) \/ Cancel(p) \/ Crash(p) \/ (Add(p) /\ ~Rename(p))
        PROVE  file' = file
    BY <2>5 DEF Start, Decide, Cancel, Crash, Add, InspectLook, InspectRead, Identify, Policy, Confirm, Commit,
       Ensure, MakeHome, TakeLock, Load, CreateTemporary, Write, Sync, SyncDirectory, CleanUp, Unlock, store
  <2> QED
    BY <2>2, <2>3, <2>4, <2>5 DEF Next, Add
<1> QED
  BY <1>1, StoreInvHolds, PTL DEF Spec, ReceiptsKept
=============================================================================
