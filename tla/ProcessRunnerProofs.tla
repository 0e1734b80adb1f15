------------------------ MODULE ProcessRunnerProofs ------------------------
(***************************************************************************)
(* What every attempt of ProcessRunner satisfies, for every set of          *)
(* executables, number of replacements and either role.                     *)
(*                                                                         *)
(* The inductive invariant is the conjunction of TypeOK (the record is      *)
(* well-formed), Phased (what the attempt has learned at each step),        *)
(* Watched (how many replacements it takes for the file, or the program     *)
(* that ran, to differ from the authority at each step), Rooted (where the  *)
(* isolated root can exist) and Unstopped (an outcome of the program is one *)
(* that neither the deadline nor a full buffer nor the caller had a part in,*)
(* and a cancellation that interrupted it is still there to be seen).       *)
(***************************************************************************)
EXTENDS ProcessRunner, TLAPS

BeforeStart == {"idle", "enter", "identify", "setup", "revalidate", "start"}

Phased ==
  /\ call.stage \in BeforeStart => /\ call.ran = NotRun /\ call.fault = NoFault /\ ~call.retry
  /\ call.stage \in {"running", "waited"} =>
       /\ call.ran \in Files /\ call.fault = NoFault /\ ~call.retry
  /\ call.stage \in {"setup", "revalidate", "start", "running", "waited"} => call.authority \in Images
  /\ call.stage \in {"cleanup", "returned"} =>
       /\ call.retry => call.ran = NotRun
       /\ Conventional => call.ran \in Files /\ call.authority \in Images
       /\ call.fault = NoFault => call.ending[1] = 0
  /\ call.stage = "waited" => call.ending \in Endings

Watched ==
  /\ call.stage \in {"setup", "revalidate", "start"} /\ image # call.authority => swaps >= 1
  /\ call.stage \in {"running", "waited"} /\ call.ran # call.authority =>
       /\ swaps >= 1
       /\ image = call.authority => swaps >= 2
  /\ call.stage \in {"cleanup", "returned"} /\ Conventional /\ call.ran # call.authority => swaps >= 2

Rooted ==
  /\ call.root = "made" => call.stage \in {"revalidate", "start", "running", "waited", "cleanup"}
  /\ call.root = "left" => /\ call.stage = "returned"
                           /\ call.fault \in {"environment_setup_failed", "cleanup_failed"}
  /\ call.stage = "cleanup" => call.root = "made"
  /\ call.stage \in {"idle", "enter", "identify", "setup"} => call.root = "none"

Unstopped ==
  /\ call.stage = "waited" /\ call.interrupted => canceled
  /\ call.stage \in {"cleanup", "returned"} /\ Conventional =>
       call.over = {} /\ call.expired = FALSE /\ call.interrupted = FALSE

RunnerInv == TypeOK /\ Phased /\ Watched /\ Rooted /\ Unstopped

----------------------------------------------------------------------------
LEMMA RunnerInit == Init => RunnerInv
<1> SUFFICES ASSUME Init PROVE RunnerInv
  OBVIOUS
<1>1. TypeOK
  <2>1. NoCall \in [stage : Stages, authority : Images \cup {Unbound}, ran : Files \cup {NotRun},
                    ending : Endings \cup {NoCall.ending}, out : SUBSET Outputs, complains : BOOLEAN,
                    over : SUBSET Streams, expired : BOOLEAN, interrupted : BOOLEAN,
                    root : {"none", "made", "left"},
                    fault : Faults, retry : BOOLEAN]
    BY DEF NoCall, Stages, Faults, NoFault
  <2>2. 0 \in 0..MaxSwaps
    BY SwapsAssumption
  <2>3. image \in Files /\ swaps \in 0..MaxSwaps /\ canceled \in BOOLEAN /\ call = NoCall
    BY <2>2, Zenon DEF Init
  <2>4. QED BY <2>1, <2>3, Zenon DEF TypeOK
<1>2. Phased /\ Watched /\ Rooted /\ Unstopped
  BY DEF Init, Phased, Watched, Rooted, Unstopped, NoCall, BeforeStart
<1>3. QED BY <1>1, <1>2 DEF RunnerInv

(* The caller starts an attempt. *)
LEMMA CallKeeps ==
  ASSUME RunnerInv, NEW identity \in Images \cup {Unbound}, Call(identity)
  PROVE  RunnerInv'
BY FileAssumption DEF Call, At, RunnerInv, TypeOK, Phased, Watched, Rooted, Unstopped, NoCall, Conventional, Files,
   Stages, Faults, NoFault, EarlyFaults, LateFaults, Endings, BeforeStart

(* A step that returns before anything was started. *)
LEMMA EndEarlyKeeps ==
  ASSUME RunnerInv, call.stage \in {"enter", "identify", "revalidate", "start"},
         NEW code \in EarlyFaults, NEW retry \in BOOLEAN,
         End(code, retry), UNCHANGED <<image, swaps, canceled>>
  PROVE  RunnerInv'
<1>1. /\ call' = [call EXCEPT !.fault = code, !.retry = retry,
                  !.stage = IF call.root = "made" THEN "cleanup" ELSE "returned"]
      /\ call.ran = NotRun
  BY DEF End, RunnerInv, Phased, BeforeStart
<1>2. TypeOK'
  <2>1. code \in Faults /\ (IF call.root = "made" THEN "cleanup" ELSE "returned") \in Stages
    BY DEF Faults, Stages
  <2>2. CASE retry = TRUE
    BY <1>1, <2>1, <2>2 DEF RunnerInv, TypeOK
  <2>3. CASE retry = FALSE
    BY <1>1, <2>1, <2>3 DEF RunnerInv, TypeOK
  <2>4. QED BY <2>2, <2>3
<1>3. code \notin {NoFault, "command_failed"}
  BY DEF EarlyFaults, NoFault
<1>4. /\ call'.stage \in {"cleanup", "returned"} /\ call'.ran = NotRun /\ ~Conventional'
      /\ call'.root = call.root /\ call'.fault # NoFault
  BY <1>1, <1>3 DEF RunnerInv, TypeOK, Conventional
<1>5. Phased' /\ Watched' /\ Unstopped'
  BY <1>4 DEF Phased, Watched, Unstopped, BeforeStart
<1>6. Rooted'
  BY <1>1 DEF RunnerInv, Rooted, TypeOK
<1>7. QED BY <1>2, <1>5, <1>6 DEF RunnerInv

(* Whatever identifyExecutable reports as an executable is what is there. *)
LEMMA SeenIsThere ==
  ASSUME NEW file, NEW seen \in Seen(file), seen # Gone
  PROVE  seen = file
BY DEF Seen

LEMMA AdvanceKeeps ==
  ASSUME RunnerInv, Advance
  PROVE  RunnerInv'
<1> USE FileAssumption
<1>1. CASE Enter
  <2>1. CASE canceled
    BY <1>1, <2>1, EndEarlyKeeps DEF Enter, At, EarlyFaults
  <2>2. CASE ~canceled
    <3>1. call.stage = "enter" /\ call' = [call EXCEPT !.stage = "identify"]
          /\ UNCHANGED <<image, swaps, canceled>>
      BY <1>1, <2>2 DEF Enter, At, Goto
    <3>2. TypeOK'
      BY <3>1 DEF RunnerInv, TypeOK, Stages
    <3>3. Phased' /\ Watched' /\ Rooted' /\ Unstopped'
      BY <3>1 DEF RunnerInv, TypeOK, Phased, Watched, Rooted, Unstopped, BeforeStart
    <3>4. QED BY <3>2, <3>3 DEF RunnerInv
  <2>3. QED BY <2>1, <2>2
<1>2. CASE Identify
  <2>1. PICK seen \in Seen(image) :
          \/ \E code \in EarlyFaults, retry \in BOOLEAN : End(code, retry)
          \/ /\ seen \in Images
             /\ call.authority \in {Unbound, seen}
             /\ call' = [call EXCEPT !.authority = seen,
                           !.stage = IF Role = "processor" THEN "setup" ELSE "revalidate"]
    <3>1. {"identity_unavailable", "unsafe_executable", "executable_not_found", "identity_changed"}
            \subseteq EarlyFaults
      BY DEF EarlyFaults
    <3>2. QED BY <1>2, <3>1, Zenon DEF Identify
  <2>2. CASE \E code \in EarlyFaults, retry \in BOOLEAN : End(code, retry)
    <3>1. PICK code \in EarlyFaults, retry \in BOOLEAN : End(code, retry)
      BY <2>2
    <3>2. call.stage = "identify" /\ UNCHANGED <<image, swaps, canceled>>
      BY <1>2 DEF Identify, At
    <3>3. QED BY <3>1, <3>2, EndEarlyKeeps
  <2>3. CASE /\ seen \in Images
             /\ call' = [call EXCEPT !.authority = seen,
                           !.stage = IF Role = "processor" THEN "setup" ELSE "revalidate"]
    <3>1. seen = image
      BY <2>3, SeenIsThere
    <3>2. QED
      BY <1>2, <2>3, <3>1 DEF Identify, At, RunnerInv, TypeOK, Phased, Watched, Rooted, Unstopped, Conventional, Stages,
         BeforeStart
  <2>4. QED BY <2>1, <2>2, <2>3
<1>3. CASE Setup
  <2>1. call.stage = "setup" /\ UNCHANGED <<image, swaps, canceled>>
    BY <1>3 DEF Setup, At
  <2>2. CASE call' = [call EXCEPT !.root = "made", !.stage = "revalidate"]
    <3>1. TypeOK'
      BY <2>1, <2>2 DEF RunnerInv, TypeOK, Stages
    <3>2. Phased' /\ Watched' /\ Rooted' /\ Unstopped'
      BY <2>1, <2>2 DEF RunnerInv, TypeOK, Phased, Watched, Rooted, Unstopped, BeforeStart
    <3>3. QED BY <3>1, <3>2 DEF RunnerInv
  <2>3. CASE \E rest \in {"none", "left"} :
               call' = [call EXCEPT !.root = rest, !.stage = "returned",
                                    !.fault = "environment_setup_failed", !.retry = TRUE]
    <3>1. TypeOK'
      <4>1. "environment_setup_failed" \in Faults /\ "returned" \in Stages
        BY DEF Faults, EarlyFaults, Stages
      <4>2. PICK rest \in {"none", "left"} :
               call' = [call EXCEPT !.root = rest, !.stage = "returned",
                                    !.fault = "environment_setup_failed", !.retry = TRUE]
        BY <2>3
      <4>3. rest \in {"none", "made", "left"}
        OBVIOUS
      <4>4. QED BY <2>1, <4>1, <4>2, <4>3 DEF RunnerInv, TypeOK
    <3>2. call'.stage = "returned" /\ call'.fault = "environment_setup_failed" /\ call'.ran = NotRun
          /\ call'.root \in {"none", "left"}
      BY <2>1, <2>3 DEF RunnerInv, TypeOK, Phased, BeforeStart
    <3>3. Phased' /\ Watched' /\ Rooted' /\ Unstopped'
      BY <3>2 DEF Phased, Watched, Rooted, Unstopped, BeforeStart, Conventional, NoFault
    <3>4. QED BY <3>1, <3>3 DEF RunnerInv
  <2>4. QED BY <1>3, <2>2, <2>3 DEF Setup
<1>4. CASE Revalidate
  <2>1. PICK seen \in Seen(image) :
          \/ seen = call.authority /\ Goto("start")
          \/ seen # call.authority /\ End("identity_changed", FALSE)
    BY <1>4 DEF Revalidate
  <2>2. CASE Goto("start")
    BY <1>4, <2>2 DEF Revalidate, At, Goto, RunnerInv, TypeOK, Phased, Watched, Rooted, Unstopped, Conventional, Stages,
       BeforeStart
  <2>3. CASE End("identity_changed", FALSE)
    BY <1>4, <2>3, EndEarlyKeeps DEF Revalidate, At, EarlyFaults
  <2>4. QED BY <2>1, <2>2, <2>3
<1>5. CASE Start
  <2>1. CASE End("process_start_failed", TRUE)
    BY <1>5, <2>1, EndEarlyKeeps DEF Start, At, EarlyFaults
  <2>2. CASE image # Gone /\ call' = [call EXCEPT !.stage = "running", !.ran = image]
    BY <1>5, <2>2 DEF Start, At, RunnerInv, TypeOK, Phased, Watched, Rooted, Unstopped, Conventional, Stages,
       BeforeStart, Files
  <2>3. QED BY <1>5, <2>1, <2>2 DEF Start
<1>6. CASE Classify
  <2>1. PICK seen \in Seen(image) : End(Verdict(seen), FALSE)
    BY <1>6 DEF Classify
  <2>2. Verdict(seen) \in Faults
    BY DEF Verdict, Stopped, Changed, Ended, Faults, LateFaults, EarlyFaults, NoFault, RunnerInv, TypeOK,
       Endings, NoCall
  <2>3. Verdict(seen) \in {NoFault, "command_failed"} => seen = call.authority
    BY DEF Verdict, Stopped, Changed, Ended, NoFault
  <2>4. Verdict(seen) \in {NoFault, "command_failed"} => image = call.authority
    BY <1>6, <2>3, SeenIsThere DEF Classify, At, RunnerInv, Phased
  <2>5. Verdict(seen) = NoFault => call.ending[1] = 0
    <3>1. call.ending \in Endings
      BY <1>6 DEF Classify, At, RunnerInv, Phased
    <3>2. Verdict(seen) = NoFault => call.ending[2] = "ok"
      BY <3>1 DEF Verdict, Stopped, Changed, Ended, NoFault, Endings
    <3>3. QED BY <3>1, <3>2 DEF Endings
  <2>6. /\ call.stage = "waited" /\ UNCHANGED <<image, swaps, canceled>>
        /\ call' = [call EXCEPT !.fault = Verdict(seen), !.retry = FALSE,
                      !.stage = IF call.root = "made" THEN "cleanup" ELSE "returned"]
    BY <1>6, <2>1 DEF Classify, At, End
  <2>7. TypeOK'
    BY <2>2, <2>6 DEF RunnerInv, TypeOK, Stages
  <2>8. Watched' /\ Rooted'
    BY <2>4, <2>6 DEF RunnerInv, TypeOK, Watched, Rooted, Unstopped, Conventional, NoFault
  <2>9. Phased'
    BY <2>5, <2>6 DEF RunnerInv, TypeOK, Phased, Conventional, BeforeStart, NoFault
  <2>10. Unstopped'
    <3>1. Verdict(seen) \in {NoFault, "command_failed"} =>
            call.over = {} /\ call.expired = FALSE /\ call.interrupted = FALSE
      <4>0. /\ call.interrupted \in BOOLEAN
            /\ canceled => Verdict(seen) \notin {NoFault, "command_failed"}
            /\ call.interrupted => canceled
        BY <2>6 DEF RunnerInv, TypeOK, Unstopped, Verdict, Stopped, Changed, NoFault
      <4>1. call.over \subseteq {"stdout", "stderr"} /\ call.expired \in BOOLEAN
        BY DEF RunnerInv, TypeOK, Streams
      <4>2. CASE call.expired = TRUE
        BY <4>2 DEF Verdict, Stopped, Changed, NoFault
      <4>3. CASE call.expired = FALSE
        BY <4>0, <4>1, <4>3 DEF Verdict, Stopped, Changed, NoFault
      <4>4. QED BY <4>1, <4>2, <4>3
    <3>2. /\ call'.fault = Verdict(seen) /\ call'.over = call.over /\ call'.expired = call.expired
          /\ call'.interrupted = call.interrupted /\ call'.stage # "waited"
      BY <2>6 DEF RunnerInv, TypeOK
    <3>3. QED BY <3>1, <3>2 DEF Unstopped, Conventional
  <2>11. QED BY <2>7, <2>8, <2>9, <2>10 DEF RunnerInv
<1>7. CASE Cleanup
  <2>1. call.stage = "cleanup" /\ UNCHANGED <<image, swaps, canceled>>
    BY <1>7 DEF Cleanup, At
  <2>2. CASE call' = [call EXCEPT !.root = "none", !.stage = "returned"]
    <3>1. TypeOK'
      BY <2>1, <2>2 DEF RunnerInv, TypeOK, Stages
    <3>2. Conventional' = Conventional
      BY <2>2 DEF RunnerInv, TypeOK, Conventional
    <3>3. Phased' /\ Watched' /\ Rooted' /\ Unstopped'
      BY <2>1, <2>2, <3>2 DEF RunnerInv, TypeOK, Phased, Watched, Rooted, Unstopped, BeforeStart
    <3>4. QED BY <3>1, <3>3 DEF RunnerInv
  <2>3. CASE call' = [call EXCEPT !.root = "left", !.stage = "returned",
                                  !.fault = "cleanup_failed", !.retry = FALSE]
    <3>1. TypeOK'
      BY <2>1, <2>3 DEF RunnerInv, TypeOK, Stages, Faults
    <3>2. call'.stage = "returned" /\ call'.fault = "cleanup_failed" /\ call'.retry = FALSE
          /\ ~Conventional' /\ call'.root = "left"
      BY <2>3 DEF RunnerInv, TypeOK, Conventional, NoFault
    <3>3. Phased' /\ Watched' /\ Rooted' /\ Unstopped'
      BY <3>2 DEF Phased, Watched, Rooted, Unstopped, BeforeStart, Conventional, NoFault
    <3>4. QED BY <3>1, <3>3 DEF RunnerInv
  <2>4. QED BY <1>7, <2>2, <2>3 DEF Cleanup
<1>8. QED BY <1>1, <1>2, <1>3, <1>4, <1>5, <1>6, <1>7 DEF Advance

LEMMA ChildKeeps ==
  ASSUME RunnerInv, Child
  PROVE  RunnerInv'
<1>1. /\ call.stage \in {"running", "waited"} /\ UNCHANGED <<image, swaps, canceled>>
      /\ call'.stage \in {"running", "waited"} /\ call'.authority = call.authority
      /\ call'.ran = call.ran /\ call'.fault = call.fault /\ call'.retry = call.retry
      /\ call'.root = call.root
  BY DEF Child, Overflow, Expire, Exit, Kill, At, RunnerInv, TypeOK
<1>2. TypeOK'
  <2>1. CASE Overflow
    BY <2>1 DEF Overflow, RunnerInv, TypeOK
  <2>2. CASE Expire
    BY <2>2 DEF Expire, RunnerInv, TypeOK
  <2>3. CASE Exit
    <3>1. PICK e \in Endings, out \in Outputs, complains \in BOOLEAN :
            call' = [call EXCEPT !.stage = "waited", !.ending = e, !.out = {out}, !.complains = complains,
                                 !.interrupted = canceled]
      BY <2>3 DEF Exit
    <3>2. {out} \in SUBSET Outputs /\ canceled \in BOOLEAN
      BY DEF RunnerInv, TypeOK
    <3>3. QED BY <1>1, <3>1, <3>2 DEF RunnerInv, TypeOK, Stages
  <2>4. CASE Kill
    <3>1. <<-1, "exit_error">> \in Endings
      BY DEF Endings
    <3>2. QED BY <2>4, <3>1 DEF Kill, RunnerInv, TypeOK, Stages
  <2>5. QED BY <2>1, <2>2, <2>3, <2>4 DEF Child
<1>3. call'.stage = "waited" => call'.ending \in Endings
  BY <1>1 DEF Child, Overflow, Expire, Exit, Kill, At, RunnerInv, TypeOK, Phased, Endings
<1>4. call'.stage = "waited" /\ call'.interrupted => canceled'
  BY <1>1 DEF Child, Overflow, Expire, Exit, Kill, At, RunnerInv, TypeOK, Unstopped
<1>5. Phased' /\ Watched' /\ Rooted' /\ Unstopped'
  BY <1>1, <1>3, <1>4 DEF RunnerInv, Phased, Watched, Rooted, Unstopped, BeforeStart
<1>6. QED BY <1>2, <1>5 DEF RunnerInv

(* A step belongs to an attempt that is under way, and keeps what it is bound
   to and what was started. *)
LEMMA StepStays ==
  ASSUME RunnerInv, Step, call.authority \in Images
  PROVE  /\ call.stage \notin {"idle", "returned"}
         /\ call'.stage # "idle"
         /\ call'.authority = call.authority
         /\ call.ran # NotRun => call'.ran = call.ran
         /\ UNCHANGED canceled
<1>1. CASE Advance
  <2>1. CASE Enter
    BY <2>1 DEF Enter, At, Goto, End, RunnerInv, TypeOK
  <2>2. CASE Identify
    <3>1. PICK seen \in Seen(image) :
            \/ \E code \in Faults, retry \in BOOLEAN : End(code, retry)
            \/ /\ seen \in Images /\ call.authority \in {Unbound, seen}
               /\ call' = [call EXCEPT !.authority = seen,
                             !.stage = IF Role = "processor" THEN "setup" ELSE "revalidate"]
      BY <2>2 DEF Identify, Faults, EarlyFaults
    <3>2. At("identify") /\ UNCHANGED canceled
      BY <2>2 DEF Identify
    <3>3. CASE \E code \in Faults, retry \in BOOLEAN : End(code, retry)
      BY <3>2, <3>3 DEF End, At, RunnerInv, TypeOK
    <3>4. CASE call' = [call EXCEPT !.authority = seen,
                          !.stage = IF Role = "processor" THEN "setup" ELSE "revalidate"]
               /\ seen \in Images /\ call.authority \in {Unbound, seen}
      BY <3>2, <3>4, FileAssumption DEF At, RunnerInv, TypeOK
    <3>5. QED BY <3>1, <3>3, <3>4
  <2>3. CASE Setup
    BY <2>3 DEF Setup, At, RunnerInv, TypeOK
  <2>4. CASE Revalidate
    BY <2>4 DEF Revalidate, At, Goto, End, RunnerInv, TypeOK
  <2>5. CASE Start
    BY <2>5 DEF Start, At, End, RunnerInv, TypeOK, Phased, BeforeStart
  <2>6. CASE Classify
    BY <2>6 DEF Classify, At, End, RunnerInv, TypeOK
  <2>7. CASE Cleanup
    BY <2>7 DEF Cleanup, At, RunnerInv, TypeOK
  <2>8. QED BY <1>1, <2>1, <2>2, <2>3, <2>4, <2>5, <2>6, <2>7 DEF Advance
<1>2. CASE Child
  BY <1>2 DEF Child, Overflow, Expire, Exit, Kill, At, RunnerInv, TypeOK
<1>3. QED BY <1>1, <1>2 DEF Step

LEMMA ReplaceKeeps ==
  ASSUME RunnerInv, Replace
  PROVE  RunnerInv'
BY SwapsAssumption DEF Replace, RunnerInv, TypeOK, Phased, Watched, Rooted, Unstopped, Conventional, BeforeStart

LEMMA CancelKeeps ==
  ASSUME RunnerInv, Cancel
  PROVE  RunnerInv'
BY DEF Cancel, RunnerInv, TypeOK, Phased, Watched, Rooted, Unstopped, Conventional, BeforeStart

LEMMA RunnerNext == RunnerInv /\ [Next]_vars => RunnerInv'
<1> SUFFICES ASSUME RunnerInv, [Next]_vars PROVE RunnerInv'
  OBVIOUS
<1>1. CASE \E identity \in Requests : Call(identity)
  BY <1>1, CallKeeps DEF Requests
<1>2. CASE Step
  BY <1>2, AdvanceKeeps, ChildKeeps DEF Step
<1>3. CASE Replace
  BY <1>3, ReplaceKeeps
<1>4. CASE Cancel
  BY <1>4, CancelKeeps
<1>5. CASE UNCHANGED vars
  <2>1. TypeOK'
    BY <1>5 DEF vars, RunnerInv, TypeOK
  <2>2. Phased' /\ Watched' /\ Rooted' /\ Unstopped'
    BY <1>5 DEF vars, RunnerInv, Phased, Watched, Rooted, Unstopped, Conventional
  <2>3. QED BY <2>1, <2>2 DEF RunnerInv
<1>6. QED BY <1>1, <1>2, <1>3, <1>4, <1>5 DEF Next

(* The invariant holds in every reachable state of an attempt. *)
THEOREM RunnerSafe == Spec => []RunnerInv
BY RunnerInit, RunnerNext, PTL DEF Spec

(* A fault offered for retry never follows a start, and a conventional outcome
   always does, whatever the user and the program do meanwhile. *)
THEOREM RetrySafe == Spec => []RetryOnlyUnstarted
<1>1. RunnerInv => RetryOnlyUnstarted
  BY FileAssumption DEF RunnerInv, Phased, RetryOnlyUnstarted, Returned, At, Started, Files
<1>2. QED BY <1>1, RunnerSafe, PTL

(* However many replacements are allowed, one alone never gets the output of
   the wrong program accepted. *)
THEOREM OneSwapSafe == Spec => []OneSwapNeverTrusted
<1>1. RunnerInv => OneSwapNeverTrusted
  BY DEF RunnerInv, Watched, OneSwapNeverTrusted, Returned, At
<1>2. QED BY <1>1, RunnerSafe, PTL

(* An isolated root that outlives the attempt is always reported. *)
THEOREM ResidueSafe == Spec => []NoSilentResidue
<1>1. RunnerInv => NoSilentResidue
  BY DEF RunnerInv, Rooted, NoSilentResidue, Returned, At
<1>2. QED BY <1>1, RunnerSafe, PTL

(* A process that a full buffer, the deadline or its caller stopped is never
   reported as an outcome of the program, whatever its exit code was. *)
THEOREM StoppedSafe == Spec => []StoppedIsNotAnOutcome
<1>1. RunnerInv => StoppedIsNotAnOutcome
  BY DEF RunnerInv, Unstopped, StoppedIsNotAnOutcome, Returned, At
<1>2. QED BY <1>1, RunnerSafe, PTL
=============================================================================
