--------------------------- MODULE ProcessRunner ---------------------------
(***************************************************************************)
(* One bounded attempt to run a fingerprinted executable: the process       *)
(* adapters internal/infra/sourceexec (Role = "source") and                 *)
(* internal/infra/processorexec (Role = "processor").  Both fingerprint the *)
(* file at the bound path twice before the start and once after the wait;   *)
(* they differ in the isolated root the processor is given and in the order *)
(* in which a finished process is classified.                               *)
(*                                                                         *)
(* The file at the path belongs to the user: it may be replaced or removed  *)
(* between any two steps, and the caller may cancel at any moment.          *)
(***************************************************************************)
EXTENDS Naturals, Integers, FiniteSets

CONSTANTS
  Role,      \* "source" or "processor"
  Images,    \* the executables, told apart by path, size and SHA-256
  Gone,      \* no readable file at the path
  Unsafe,    \* something there that is no regular executable
  Unbound,   \* the request names no expected identity (sourceexec.Run)
  NotRun,    \* no process was started
  Outputs,   \* what a process may print on stdout
  MaxSwaps   \* bound: how often the file at the path is replaced

ASSUME RoleAssumption == Role \in {"source", "processor"}
ASSUME FileAssumption ==
  /\ Gone \notin Images \cup {Unsafe, Unbound, NotRun}
  /\ Unsafe \notin Images \cup {Unbound, NotRun}
  /\ {Unbound, NotRun} \cap Images = {}
ASSUME SwapsAssumption == MaxSwaps \in Nat

VARIABLES
  image,     \* the file at the bound path now
  swaps,     \* how often it was replaced
  canceled,  \* the caller's context is canceled
  call       \* the attempt: its step, what it learned, its result; and, for a
             \* property only, whether it was interrupted: canceled when it was reaped

vars == <<image, swaps, canceled, call>>

Files == Images \cup {Gone, Unsafe}
Streams == {"stdout", "stderr"}
NoFault == "none"
Stages == {"idle", "enter", "identify", "setup", "revalidate", "start", "running", "waited",
           "cleanup", "returned"}
EarlyFaults == {"context", "executable_not_found", "identity_changed", "identity_unavailable",
                "unsafe_executable", "environment_setup_failed", "process_start_failed"}
LateFaults == {"stdout_too_large", "stderr_too_large", "execution_canceled", "timeout",
               "identity_changed", "command_failed", "process_wait_failed"}
Faults == {NoFault, "cleanup_failed"} \cup EarlyFaults \cup LateFaults

\* How Wait can end: the exit code (-1 after a signal) and the error it returned.
Endings == {<<0, "ok">>, <<0, "failed">>, <<1, "exit_error">>, <<-1, "exit_error">>, <<-1, "failed">>}

NoCall == [stage |-> "idle", authority |-> Unbound, ran |-> NotRun, ending |-> <<-1, "ok">>,
           out |-> {}, complains |-> FALSE, over |-> {}, expired |-> FALSE, interrupted |-> FALSE,
           root |-> "none",
           fault |-> NoFault, retry |-> FALSE]

TypeOK ==
  /\ image \in Files
  /\ swaps \in 0..MaxSwaps
  /\ canceled \in BOOLEAN
  /\ call \in [stage : Stages, authority : Images \cup {Unbound}, ran : Files \cup {NotRun},
               ending : Endings \cup {NoCall.ending}, out : SUBSET Outputs, complains : BOOLEAN,
               over : SUBSET Streams, expired : BOOLEAN, interrupted : BOOLEAN,
               root : {"none", "made", "left"}, fault : Faults, retry : BOOLEAN]

----------------------------------------------------------------------------
(* Reading the executable.                                                  *)

\* What identifyExecutable can report: what is there, or an I/O error.
Seen(file) == IF file \in Images THEN {file, Gone} ELSE {file}

At(stage) == call.stage = stage
Goto(stage) == call' = [call EXCEPT !.stage = stage]

\* Return a fault; an isolated root that exists is removed first.
End(code, retry) ==
  call' = [call EXCEPT !.fault = code, !.retry = retry,
                       !.stage = IF call.root = "made" THEN "cleanup" ELSE "returned"]

Call(identity) ==
  /\ At("idle")
  /\ call' = [NoCall EXCEPT !.stage = "enter", !.authority = identity]
  /\ UNCHANGED <<image, swaps, canceled>>

Enter ==
  /\ At("enter")
  /\ \/ canceled /\ End("context", FALSE)
     \/ ~canceled /\ Goto("identify")
  /\ UNCHANGED <<image, swaps, canceled>>

\* LookPath comes first where no identity is expected.  A file that is no longer
\* the one looked at when it is open counts as changed.
Identify ==
  /\ At("identify")
  /\ \E seen \in Seen(image) :
       \/ seen = Gone /\ End("identity_unavailable", TRUE)
       \/ seen \in {Gone, Unsafe} /\ call.authority = Unbound /\ End("executable_not_found", FALSE)
       \/ seen = Unsafe /\ End("unsafe_executable", FALSE)
       \/ seen \in Images /\ End("identity_changed", FALSE)
       \/ /\ seen \in Images
          /\ call.authority \in {Unbound, seen}
          /\ call' = [call EXCEPT !.authority = seen,
                        !.stage = IF Role = "processor" THEN "setup" ELSE "revalidate"]
  /\ UNCHANGED <<image, swaps, canceled>>

\* The private root with its marker and directories.  A setup that fails
\* removes what it made, or cannot, or gave up before it pinned the root.
Setup ==
  /\ At("setup")
  /\ \/ call' = [call EXCEPT !.root = "made", !.stage = "revalidate"]
     \/ \E rest \in {"none", "left"} :
          call' = [call EXCEPT !.root = rest, !.stage = "returned",
                               !.fault = "environment_setup_failed", !.retry = TRUE]
  /\ UNCHANGED <<image, swaps, canceled>>

Revalidate ==
  /\ At("revalidate")
  /\ \E seen \in Seen(image) :
       \/ seen = call.authority /\ Goto("start")
       \/ seen # call.authority /\ End("identity_changed", FALSE)
  /\ UNCHANGED <<image, swaps, canceled>>

\* The operating system opens the path anew: whatever is there now runs.
Start ==
  /\ At("start")
  /\ \/ End("process_start_failed", TRUE)
     \/ /\ ~canceled
        /\ image # Gone
        /\ call' = [call EXCEPT !.stage = "running", !.ran = image]
  /\ UNCHANGED <<image, swaps, canceled>>

----------------------------------------------------------------------------
(* The running process.                                                     *)

Overflow ==
  /\ At("running")
  /\ \E s \in Streams \ call.over : call' = [call EXCEPT !.over = @ \cup {s}]
  /\ UNCHANGED <<image, swaps, canceled>>

\* The deadline also counts when it passes between the wait and the look at it.
Expire ==
  /\ At("running") \/ At("waited")
  /\ ~call.expired
  /\ call' = [call EXCEPT !.expired = TRUE]
  /\ UNCHANGED <<image, swaps, canceled>>

Exit ==
  /\ At("running")
  /\ \E e \in Endings, out \in Outputs, complains \in BOOLEAN :
       call' = [call EXCEPT !.stage = "waited", !.ending = e, !.out = {out}, !.complains = complains,
                            !.interrupted = canceled]
  /\ UNCHANGED <<image, swaps, canceled>>

\* Mutant: a deadline that reports without stopping the process.
RunContextWithoutDeadline == canceled \/ call.over # {}

\* The run context is done: canceled by the caller, by the deadline, or by a full buffer.
RunContextDone == canceled \/ call.expired \/ call.over # {}

Kill ==
  /\ At("running")
  /\ RunContextDone
  /\ call' = [call EXCEPT !.stage = "waited", !.ending = <<-1, "exit_error">>, !.interrupted = canceled]
  /\ UNCHANGED <<image, swaps, canceled>>

----------------------------------------------------------------------------
(* Classifying what happened.                                               *)

\* Mutant: the caller's context is not consulted once the process has ended.
StoppedUnlessCanceled(otherwise) ==
  IF "stdout" \in call.over THEN "stdout_too_large"
  ELSE IF "stderr" \in call.over THEN "stderr_too_large"
  ELSE IF call.expired THEN "timeout"
  ELSE otherwise

Stopped(otherwise) ==
  IF "stdout" \in call.over THEN "stdout_too_large"
  ELSE IF "stderr" \in call.over THEN "stderr_too_large"
  ELSE IF canceled THEN "execution_canceled"
  ELSE IF call.expired THEN "timeout"
  ELSE otherwise

\* Mutant: no fingerprint after the wait.
NeverChanged(seen, otherwise) == otherwise

Changed(seen, otherwise) == IF seen # call.authority THEN "identity_changed" ELSE otherwise

Ended == CASE call.ending[2] = "ok" -> NoFault
           [] call.ending[2] = "exit_error" -> "command_failed"
           [] call.ending[2] = "failed" -> "process_wait_failed"

Verdict(seen) ==
  IF Role = "source" THEN Stopped(Changed(seen, Ended)) ELSE Changed(seen, Stopped(Ended))

\* Mutant: a timeout is offered for retry, as other unavailable outcomes are.
ClassifyRetryingTimeout ==
  /\ At("waited")
  /\ \E seen \in Seen(image) : End(Verdict(seen), Verdict(seen) = "timeout")
  /\ UNCHANGED <<image, swaps, canceled>>

Classify ==
  /\ At("waited")
  /\ \E seen \in Seen(image) : End(Verdict(seen), FALSE)
  /\ UNCHANGED <<image, swaps, canceled>>

\* Mutant: a failed cleanup is ignored.
CleanupIgnored ==
  /\ At("cleanup")
  /\ \E rest \in {"none", "left"} :
       call' = [call EXCEPT !.root = rest, !.stage = "returned"]
  /\ UNCHANGED <<image, swaps, canceled>>

\* A root that cannot be removed replaces the outcome of the attempt.
Cleanup ==
  /\ At("cleanup")
  /\ \/ call' = [call EXCEPT !.root = "none", !.stage = "returned"]
     \/ call' = [call EXCEPT !.root = "left", !.stage = "returned",
                             !.fault = "cleanup_failed", !.retry = FALSE]
  /\ UNCHANGED <<image, swaps, canceled>>

----------------------------------------------------------------------------
Advance == Enter \/ Identify \/ Setup \/ Revalidate \/ Start \/ Classify \/ Cleanup
Child == Overflow \/ Expire \/ Exit \/ Kill
Step == Advance \/ Child

\* The user replaces, edits or removes the executable.
Replace ==
  /\ swaps < MaxSwaps
  /\ \E f \in Files \ {image} : image' = f
  /\ swaps' = swaps + 1
  /\ UNCHANGED <<canceled, call>>

Cancel ==
  /\ ~canceled
  /\ canceled' = TRUE
  /\ UNCHANGED <<image, swaps, call>>

Init ==
  /\ image \in Files
  /\ swaps = 0
  /\ canceled = FALSE
  /\ call = NoCall

\* Only inspection runs a source it holds no identity for.
Requests == IF Role = "source" THEN Images \cup {Unbound} ELSE Images

Next == (\E identity \in Requests : Call(identity)) \/ Step \/ Replace \/ Cancel

Spec == Init /\ [][Next]_vars

\* The runner's own steps are scheduled, the deadline fires, and the kernel
\* reaps a killed process.  A process is never assumed to exit by itself.
Fairness == WF_vars(Advance) /\ WF_vars(Expire) /\ WF_vars(Kill)
LiveSpec == Spec /\ Fairness

----------------------------------------------------------------------------
(* Properties.                                                              *)

Returned == At("returned")
Started == call.ran # NotRun
\* The outcomes whose output a caller may publish.
Conventional == call.fault = NoFault \/ (call.fault = "command_failed" /\ call.ending[1] > 0)

\* A fault offered for retry never follows a start, and a clean outcome always
\* does (sourceexec.run, processorexec.Run).
RetryOnlyUnstarted ==
  Returned => /\ call.retry => ~Started
              /\ Conventional => Started

\* One replacement of the executable, whenever it happens, cannot get the
\* output of the wrong program accepted: only a swap after the last check
\* before the start and a swap back before the check after the wait can.
OneSwapNeverTrusted ==
  Returned /\ Conventional /\ call.ran # call.authority => swaps >= 2

\* An isolated root outlives the attempt only behind a fault that says so
\* (processorexec.Run, cleanupIsolation).
NoSilentResidue ==
  Returned => /\ call.root # "made"
              /\ call.root = "left" => call.fault \in {"environment_setup_failed", "cleanup_failed"}

\* A process whose output passed its limit, whose deadline passed before it was
\* classified, or whose caller had canceled by the time it was reaped never has
\* an outcome, not even when it exited cleanly by itself in the same moment
\* (sourceexec.run and processorexec.runPrepared, the checks after Wait).
StoppedIsNotAnOutcome ==
  Returned /\ Started /\ (call.over # {} \/ call.expired \/ call.interrupted) => ~Conventional
=============================================================================
