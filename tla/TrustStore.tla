----------------------------- MODULE TrustStore -----------------------------
(***************************************************************************)
(* Adopting bundles: bundleauthority.Service.Trust and Status over the       *)
(* receipt file of internal/infra/trustfile, with the mutation boundary of  *)
(* internal/app/execution between them.  Several atr processes work on one   *)
(* directory that holds the receipt file, an exclusively created lock file  *)
(* and temporary files; a process may die between any two steps, a step may *)
(* fail, and the machine may lose what was not yet synced.                  *)
(***************************************************************************)
EXTENDS Naturals, FiniteSets

CONSTANTS
  Proc,         \* the atr processes
  Digests,      \* the bundle digests
  MaxReceipts,  \* the limit of one store (256 in the code)
  NoFile,       \* there is no receipt file
  Torn,         \* a receipt file that does not decode
  Faulty,       \* BOOLEAN: system calls may fail
  MaxCalls,     \* bound: commands per process
  MaxCrashes,   \* bound: processes that die
  MaxLosses,    \* bound: power losses
  MaxEdits      \* bound: the user's own changes to the receipt file

ASSUME StoreAssumption ==
  /\ NoFile # Torn /\ \A S \in SUBSET Digests : S # NoFile /\ S # Torn
  /\ NoFile \notin Digests
  /\ MaxReceipts \in Nat /\ Faulty \in BOOLEAN
  /\ {MaxCalls, MaxCrashes, MaxLosses, MaxEdits} \subseteq Nat

VARIABLES
  file,      \* what the receipt file holds
  lock,      \* the lock file exists
  temps,     \* how many temporary files exist
  home,      \* the private directory exists
  disk,      \* the contents of the two names that a power loss may leave
  call,      \* what each process is doing
  calls,     \* how many commands each process has run
  granted,   \* the digests the user confirmed, or had adopted before
  durable,   \* the digests whose adoption was reported after its own sync
  accidents  \* how often each thing outside the protocol happened

vars == <<file, lock, temps, home, disk, call, calls, granted, durable, accidents>>

Contents == {NoFile, Torn} \cup SUBSET Digests
Receipts(content) == IF content \in {NoFile, Torn} THEN {} ELSE content

Steps == {"idle", "look", "read", "identify", "policy", "confirm", "commit", "ensure", "mkdir",
          "lock", "load", "create", "write", "sync", "rename", "dirsync", "cleanup", "unlock", "returned"}
Adding == {"load", "create", "write", "sync", "rename", "dirsync", "cleanup", "unlock"}
Refusals == {"invalid_bundle_trust_store", "drift", "operation_canceled", "mutation_rejected"}
Observed == {"adopted", "not_adopted", "invalid"}
Results == {"none", "already_adopted", "newly_adopted", "bundle_trust_store_failed",
            "unclassified_mutation_outcome"} \cup Refusals \cup Observed

NoCall == [step |-> "idle", status |-> FALSE, digest |-> NoFile, seen |-> NoFile, known |-> FALSE,
           next |-> NoFile, temp |-> FALSE, synced |-> FALSE, wrote |-> FALSE, canceled |-> FALSE, result |-> "none"]

TypeOK ==
  /\ file \in Contents
  /\ lock \in BOOLEAN /\ home \in BOOLEAN
  /\ temps \in Nat
  /\ disk \in [file : SUBSET Contents, lock : SUBSET BOOLEAN]
  /\ file \in disk.file /\ lock \in disk.lock
  /\ call \in [Proc -> [step : Steps, status : BOOLEAN, digest : Digests \cup {NoFile}, seen : Contents,
                        known : BOOLEAN, next : Contents, temp : BOOLEAN, synced : BOOLEAN, wrote : BOOLEAN,
                        canceled : BOOLEAN, result : Results]]
  /\ calls \in [Proc -> 0..MaxCalls]
  /\ granted \subseteq Digests /\ durable \subseteq Digests
  /\ accidents \in [crashes : 0..MaxCrashes, losses : 0..MaxLosses, edits : 0..MaxEdits, leftovers : Nat]

----------------------------------------------------------------------------
At(p, step) == call[p].step = step
Goto(p, step) == call' = [call EXCEPT ![p].step = step]
Return(p, result) == call' = [call EXCEPT ![p].step = "returned", ![p].result = result]

\* Leave Add: its deferred calls remove the temporary file, then the lock.
Leave(p, result) ==
  call' = [call EXCEPT ![p].result = result,
                       ![p].step = IF call[p].temp THEN "cleanup" ELSE "unlock"]

StoreFailed == "bundle_trust_store_failed"

\* Mutant: a bare cancellation is passed on as what it says.
BareAsCanceled == "operation_canceled"

\* What any bare error of the action becomes (sanitizeMutationOutcomeError).
Bare == "unclassified_mutation_outcome"

store == <<file, lock, temps, home, disk>>
history == <<granted, durable, accidents>>

----------------------------------------------------------------------------
(* Before the mutation.                                                     *)

\* The bundle is loaded and validated; only its digest matters from here on.
Start(p) ==
  /\ call[p].step \in {"idle", "returned"}
  /\ calls[p] < MaxCalls
  /\ calls' = [calls EXCEPT ![p] = @ + 1]
  /\ \E d \in Digests, status \in BOOLEAN :
       call' = [call EXCEPT ![p] = [NoCall EXCEPT !.step = "look", !.digest = d, !.status = status]]
  /\ UNCHANGED <<store, history>>

Inspected(p, state) ==
  IF call[p].status THEN Return(p, state)
  ELSE IF state = "invalid" THEN Return(p, "invalid_bundle_trust_store")
  ELSE call' = [call EXCEPT ![p].step = "identify", ![p].known = (state = "adopted")]

\* localfile.Read: the name is examined first and opened later.
InspectLook(p) ==
  /\ At(p, "look")
  /\ \/ ~call[p].canceled /\ file = NoFile /\ Inspected(p, "not_adopted")
     \/ ~call[p].canceled /\ file # NoFile /\ call' = [call EXCEPT ![p].step = "read", ![p].seen = file]
     \/ (call[p].canceled \/ Faulty) /\ Inspected(p, "invalid")
  /\ UNCHANGED <<store, calls, history>>

\* What is opened must be the very file that was examined.  Versions of the
\* file that Add writes differ in their receipts, which therefore stand for its
\* identity; the user may also have put an equal file in its place.
InspectRead(p) ==
  /\ At(p, "read")
  /\ \/ file = NoFile /\ Inspected(p, "not_adopted")
     \/ /\ ~call[p].canceled /\ file \notin {NoFile, Torn} /\ file = call[p].seen
        /\ Inspected(p, IF call[p].digest \in file THEN "adopted" ELSE "not_adopted")
     \/ /\ file # NoFile
        /\ file = Torn \/ file # call[p].seen \/ call[p].canceled \/ accidents.edits > 0
        /\ Inspected(p, "invalid")
     \/ Faulty /\ Inspected(p, "invalid")
  /\ UNCHANGED <<store, calls, history>>

\* The executables are current, or they are not (a canceled look finds nothing).
Identify(p) ==
  /\ At(p, "identify")
  /\ \/ Return(p, "drift")
     \/ call[p].known /\ Return(p, "already_adopted")
     \/ ~call[p].known /\ Goto(p, "policy")
  /\ UNCHANGED <<store, calls, history>>

Policy(p) ==
  /\ At(p, "policy")
  /\ IF call[p].canceled THEN Return(p, "operation_canceled") ELSE Goto(p, "confirm")
  /\ UNCHANGED <<store, calls, history>>

\* The user types the full digest on the controlling terminal, or does not.
Confirm(p) ==
  /\ At(p, "confirm")
  /\ \/ ~call[p].canceled /\ Goto(p, "commit") /\ granted' = granted \cup {call[p].digest}
     \/ Return(p, "mutation_rejected") /\ UNCHANGED granted
  /\ UNCHANGED <<store, calls, durable, accidents>>

Commit(p) ==
  /\ At(p, "commit")
  /\ IF call[p].canceled THEN Return(p, "operation_canceled") ELSE Goto(p, "ensure")
  /\ UNCHANGED <<store, calls, history>>

----------------------------------------------------------------------------
(* The mutation: trustfile.Store.Add.                                       *)

Ensure(p) ==
  /\ At(p, "ensure")
  /\ \/ Goto(p, IF home THEN "lock" ELSE "mkdir")
     \/ Faulty /\ Return(p, StoreFailed)
  /\ UNCHANGED <<store, calls, history>>

MakeHome(p) ==
  /\ At(p, "mkdir")
  /\ \/ ~home /\ home' = TRUE /\ Goto(p, "lock")
     \/ (home \/ Faulty) /\ Return(p, StoreFailed) /\ UNCHANGED home
  /\ UNCHANGED <<file, lock, temps, disk, calls, history>>

\* Mutant: the lock file is opened when it exists.
TakeLockShared(p) ==
  /\ At(p, "lock")
  /\ Goto(p, "load")
  /\ lock' = TRUE /\ disk' = [disk EXCEPT !.lock = @ \cup {TRUE}]
  /\ UNCHANGED <<file, temps, home, calls, history>>

\* O_CREATE|O_EXCL; a lock that cannot be closed is removed again.
TakeLock(p) ==
  /\ At(p, "lock")
  /\ \/ (lock \/ Faulty) /\ Return(p, StoreFailed) /\ UNCHANGED <<lock, disk>>
     \/ /\ ~lock
        /\ \/ Goto(p, "load")
           \/ Faulty /\ Leave(p, StoreFailed)
        /\ lock' = TRUE /\ disk' = [disk EXCEPT !.lock = @ \cup {TRUE}]
  /\ UNCHANGED <<file, temps, home, calls, history>>

\* Mutant: a full store is reported like an unchanged one.
LoadFullUnchanged(p) ==
  /\ At(p, "load")
  /\ IF call[p].digest \in Receipts(file) \/ Cardinality(Receipts(file)) = MaxReceipts
     THEN Leave(p, "newly_adopted")
     ELSE call' = [call EXCEPT ![p].step = "create", ![p].next = Receipts(file) \cup {call[p].digest}]
  /\ UNCHANGED <<store, calls, history>>

\* loadRoot and bundletrust.Store.Add: the cancellation of a read that found a
\* valid file and the limit of receipts are bare errors.
Load(p) ==
  /\ At(p, "load")
  /\ \/ (file = Torn \/ Faulty) /\ Leave(p, StoreFailed)
     \/ file \notin {NoFile, Torn} /\ call[p].canceled /\ Leave(p, Bare)
     \/ /\ file # Torn
        /\ call[p].canceled => file = NoFile
        /\ IF call[p].digest \in Receipts(file) THEN Leave(p, "newly_adopted")
           ELSE IF Cardinality(Receipts(file)) = MaxReceipts THEN Leave(p, Bare)
           ELSE call' = [call EXCEPT ![p].step = "create", ![p].next = Receipts(file) \cup {call[p].digest}]
  /\ UNCHANGED <<store, calls, history>>

CreateTemporary(p) ==
  /\ At(p, "create")
  /\ \/ call[p].canceled /\ Leave(p, Bare) /\ UNCHANGED temps
     \/ Faulty /\ Leave(p, StoreFailed) /\ UNCHANGED temps
     \/ /\ ~call[p].canceled
        /\ call' = [call EXCEPT ![p].step = "write", ![p].temp = TRUE]
        /\ temps' = temps + 1
  /\ UNCHANGED <<file, lock, home, disk, calls, history>>

Write(p) ==
  /\ At(p, "write")
  /\ \/ Goto(p, "sync")
     \/ Faulty /\ Leave(p, StoreFailed)
  /\ UNCHANGED <<store, calls, history>>

Sync(p) ==
  /\ At(p, "sync")
  /\ \/ call' = [call EXCEPT ![p].step = "rename", ![p].synced = TRUE]
     \/ Faulty /\ Leave(p, StoreFailed)
  /\ UNCHANGED <<store, calls, history>>

\* A file whose data was not synced may be torn by a power loss.
Rename(p) ==
  /\ At(p, "rename")
  /\ \/ /\ call[p].canceled /\ Leave(p, Bare)
        /\ UNCHANGED <<file, temps, disk>>
     \/ /\ Faulty /\ Leave(p, StoreFailed)
        /\ UNCHANGED <<file, temps, disk>>
     \/ /\ ~call[p].canceled
        /\ file' = call[p].next
        /\ temps' = temps - 1
        /\ disk' = [disk EXCEPT !.file = @ \cup {file'} \cup (IF call[p].synced THEN {} ELSE {Torn})]
        /\ call' = [call EXCEPT ![p].step = "dirsync", ![p].temp = FALSE, ![p].wrote = TRUE]
  /\ UNCHANGED <<lock, home, calls, history>>

\* Mutant: success is reported without syncing the directory.
SyncDirectorySkipped(p) ==
  /\ At(p, "dirsync")
  /\ Leave(p, "newly_adopted")
  /\ durable' = durable \cup {call[p].digest}
  /\ UNCHANGED <<store, calls, granted, accidents>>

SyncDirectory(p) ==
  /\ At(p, "dirsync")
  /\ \/ /\ Leave(p, "newly_adopted")
        /\ disk' = [file |-> {file}, lock |-> {lock}]
        /\ durable' = durable \cup {call[p].digest}
     \/ Faulty /\ Leave(p, StoreFailed) /\ UNCHANGED <<disk, durable>>
  /\ UNCHANGED <<file, lock, temps, home, calls, granted, accidents>>

LeftBehind == accidents' = [accidents EXCEPT !.leftovers = @ + 1]

\* Mutant: the temporary file of a failed attempt is left behind.
CleanUpSkipped(p) ==
  /\ At(p, "cleanup")
  /\ Goto(p, "unlock")
  /\ UNCHANGED <<store, calls, history>>

CleanUp(p) ==
  /\ At(p, "cleanup")
  /\ \/ temps' = temps - 1 /\ UNCHANGED accidents
     \/ Faulty /\ LeftBehind /\ UNCHANGED temps
  /\ Goto(p, "unlock")
  /\ UNCHANGED <<file, lock, home, disk, calls, granted, durable>>

Unlock(p) ==
  /\ At(p, "unlock")
  /\ \/ lock' = FALSE /\ disk' = [disk EXCEPT !.lock = @ \cup {FALSE}] /\ UNCHANGED accidents
     \/ Faulty /\ LeftBehind /\ UNCHANGED <<lock, disk>>
  /\ Goto(p, "returned")
  /\ UNCHANGED <<file, temps, home, calls, granted, durable>>

----------------------------------------------------------------------------
(* What happens around the processes.                                       *)

Running(p) == call[p].step \notin {"idle", "returned"}

Cancel(p) ==
  /\ Running(p) /\ ~call[p].canceled
  /\ call' = [call EXCEPT ![p].canceled = TRUE]
  /\ UNCHANGED <<store, calls, history>>

Crash(p) ==
  /\ Running(p)
  /\ accidents.crashes < MaxCrashes
  /\ call' = [call EXCEPT ![p] = NoCall]
  /\ accidents' = [accidents EXCEPT !.crashes = @ + 1]
  /\ UNCHANGED <<store, calls, granted, durable>>

PowerLoss ==
  /\ accidents.losses < MaxLosses
  /\ accidents' = [accidents EXCEPT !.losses = @ + 1]
  /\ file' \in disk.file /\ lock' \in disk.lock /\ temps' \in 0..temps
  /\ disk' = [file |-> {file'}, lock |-> {lock'}]
  /\ call' = [p \in Proc |-> NoCall]
  /\ UNCHANGED <<home, calls, granted, durable>>

Edited ==
  /\ accidents.edits < MaxEdits
  /\ accidents' = [accidents EXCEPT !.edits = @ + 1]

\* The user writes or removes the receipt file.
Edit ==
  /\ home /\ Edited
  /\ \E c \in Contents \ {file} :
       /\ Cardinality(Receipts(c)) <= MaxReceipts
       /\ file' = c
       /\ disk' = [disk EXCEPT !.file = @ \cup {c}]
       /\ granted' = granted \cup Receipts(c)
  /\ UNCHANGED <<lock, temps, home, call, calls, durable>>

\* The user removes a lock that nobody holds.
RemoveStaleLock ==
  /\ lock /\ \A p \in Proc : call[p].step \notin Adding
  /\ Edited
  /\ lock' = FALSE /\ disk' = [disk EXCEPT !.lock = @ \cup {FALSE}]
  /\ UNCHANGED <<file, temps, home, call, calls, granted, durable>>

----------------------------------------------------------------------------
Decide(p) == InspectLook(p) \/ InspectRead(p) \/ Identify(p) \/ Policy(p) \/ Confirm(p) \/ Commit(p)
Add(p) == \/ Ensure(p) \/ MakeHome(p) \/ TakeLock(p) \/ Load(p) \/ CreateTemporary(p) \/ Write(p) \/ Sync(p)
          \/ Rename(p) \/ SyncDirectory(p) \/ CleanUp(p) \/ Unlock(p)

Init ==
  /\ home \in BOOLEAN
  /\ file \in {c \in {NoFile} \cup SUBSET Digests : Cardinality(Receipts(c)) <= MaxReceipts}
  /\ file # NoFile => home
  /\ lock = FALSE /\ temps = 0
  /\ disk = [file |-> {file}, lock |-> {FALSE}]
  /\ call = [p \in Proc |-> NoCall]
  /\ calls = [p \in Proc |-> 0]
  /\ granted = Receipts(file) /\ durable = {}
  /\ accidents = [crashes |-> 0, losses |-> 0, edits |-> 0, leftovers |-> 0]

Next ==
  \/ \E p \in Proc : Start(p) \/ Decide(p) \/ Add(p) \/ Cancel(p) \/ Crash(p)
  \/ PowerLoss \/ Edit \/ RemoveStaleLock
Spec == Init /\ [][Next]_vars

----------------------------------------------------------------------------
(* Properties.                                                              *)

\* No adoption disappears, whatever processes race, die or fail: between
\* reading the receipts and replacing the file nobody else replaces it
\* (trustfile.Store.Add).  A power loss may take it back; an edit of the user,
\* who takes no lock, may be overwritten as a whole.
ReceiptsKept ==
  [][ \/ accidents'.losses # accidents.losses \/ accidents'.edits > 0
      \/ Receipts(file) \subseteq Receipts(file') ]_vars

\* An adoption reported by the process that wrote it survives a power loss at
\* any later moment, and no power loss leaves a file that does not decode.
AdoptionSurvives ==
  accidents.edits = 0 => \A c \in disk.file : c # Torn /\ durable \subseteq Receipts(c)

\* Every receipt was confirmed by the user for that very digest; no process
\* adds one on the strength of an interrupted or failed confirmation.
OnlyConfirmed == Receipts(file) \subseteq granted

\* What is reported as adopted is in the store, until the user edits it, and
\* nothing is in the store that the user did not confirm.
ReportTruth ==
  /\ OnlyConfirmed
  /\ accidents.edits = 0 =>
       \A p \in Proc : call[p].result \in {"already_adopted", "newly_adopted", "adopted"} =>
         call[p].digest \in Receipts(file)

\* A refusal, the only kind of failure that may be repeated as it is, is never
\* given once the action had a new store in hand; a written store is reported
\* as success or as a failure to be reconciled.
RefusalsChangedNothing ==
  \A p \in Proc :
    /\ call[p].result \in Refusals => call[p].next = NoFile
    /\ call[p].step = "returned" /\ call[p].wrote => call[p].result \in {"newly_adopted", StoreFailed}

\* Leftovers have a cause: the lock outlives its holder only after a crash, a
\* power loss or a failed removal, and since it then blocks every later Add,
\* crashes alone never leave a second temporary file.
LeftoversAccounted ==
  /\ temps <= 1 + accidents.leftovers + accidents.losses + accidents.edits
  /\ lock => \/ \E p \in Proc : call[p].step \in Adding
             \/ accidents.crashes + accidents.losses + accidents.leftovers > 0

\* The words of the refusal, "The user-local trust store is invalid"
\* (bundleauthority.Trust): of a file that was never anything but valid, and a
\* command that was not canceled, nobody reports that it is invalid.
InvalidMeansInvalid ==
  accidents.edits = 0 =>
    \A p \in Proc : call[p].result \in {"invalid", "invalid_bundle_trust_store"} => call[p].canceled
=============================================================================
