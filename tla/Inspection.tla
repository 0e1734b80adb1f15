----------------------------- MODULE Inspection -----------------------------
(***************************************************************************)
(* The inspection of one executable: sourceinspect over the GitHub CLI and *)
(* Go adapters (four and three probes), processorinspect over the RTK      *)
(* adapter (one probe of the official artifact).  Every probe is an attempt*)
(* of ProcessRunner; a source probe is bound to no identity, and only the  *)
(* comparison of what each attempt reports makes the probes one body of    *)
(* evidence.  The file may be replaced between any two steps of any probe. *)
(* What is particular to the processor, its first step included, is in     *)
(* Optimizer.                                                              *)
(*                                                                         *)
(* Outputs are what an adapter tells apart in what a probe prints: the     *)
(* contract it supports, one of another version, or none at all.           *)
(***************************************************************************)
EXTENDS ProcessRunner

CONSTANTS Supported, OtherVersion,   \* outputs; any other output is malformed
          Official                   \* the image of the maintained processor artifact

ASSUME OfficialAssumption == Official \in Images

VARIABLE inspection   \* the adapter in use, its step and probe, the evidence so far, the answer

inspectionVars == <<image, swaps, canceled, call, inspection>>

Adapters == IF Role = "source" THEN {"github-cli", "go-cli"} ELSE {"rtk"}
ProbeCount == [a \in {"github-cli", "go-cli", "rtk"} |-> IF a = "github-cli" THEN 4 ELSE IF a = "go-cli" THEN 3 ELSE 1]

Open == [kind |-> "open", code |-> NoFault, retry |-> FALSE]
NoInspection == [adapter |-> "none", step |-> "idle", probe |-> 0, identity |-> Unbound, ran |-> {}, answer |-> Open]

During(step) == inspection.step = step
Move(step) == inspection' = [inspection EXCEPT !.step = step]
Answer(code, retry) ==
  inspection' = [inspection EXCEPT !.step = "done", !.answer = [kind |-> "fault", code |-> code, retry |-> retry]]
Publish == inspection' = [inspection EXCEPT !.step = "done", !.answer.kind = "evidence"]

\* A canceled context as the classify of each service reports it.
ContextFault == IF Role = "source" THEN "internal_error" ELSE "execution_canceled"

\* Anything but the exact expected output is another version to RTK, and no evidence to the others.
NotTheContract == IF Role = "source" THEN "inspection_failed" ELSE "unsupported_version"

Begin(adapter) ==
  /\ During("idle") /\ At("idle")
  /\ IF canceled
     THEN inspection' = [NoInspection EXCEPT !.step = "done",
                           !.answer = [kind |-> "fault", code |-> "operation_canceled", retry |-> TRUE]]
     ELSE inspection' = [NoInspection EXCEPT !.adapter = adapter, !.probe = 1,
                           !.step = IF Role = "source" THEN "probe" ELSE "identify"]
  /\ UNCHANGED <<image, swaps, canceled, call>>

\* runProbe: a source is run without an expected identity, the processor with the one just read.
Probe ==
  /\ During("probe") /\ At("idle")
  /\ Call(IF Role = "source" THEN Unbound ELSE Official)
  /\ UNCHANGED inspection

\* Mutant: the identity of a later probe is not compared with that of the first.
EvidenceOfAnyImage ==
  call' = NoCall /\
  IF call.fault # NoFault
  THEN Answer(IF call.fault = "context" THEN ContextFault ELSE call.fault, call.retry)
  ELSE IF call.complains THEN Answer(NotTheContract, FALSE)
  ELSE IF call.out = {OtherVersion} /\ inspection.probe = 1 THEN Answer("unsupported_version", FALSE)
  ELSE IF call.out # {Supported} THEN Answer(NotTheContract, FALSE)
  ELSE inspection' = [inspection EXCEPT
         !.identity = IF @ = Unbound THEN call.authority ELSE @,
         !.ran = @ \cup {call.ran},
         !.probe = IF @ = ProbeCount[inspection.adapter] THEN @ ELSE @ + 1,
         !.step = IF inspection.probe = ProbeCount[inspection.adapter] THEN "conclude" ELSE "probe"]

\* What one probe contributes: its fault, or its output when it ran the image of the first probe.
Evidence ==
  call' = NoCall /\
  IF call.fault # NoFault
  THEN Answer(IF call.fault = "context" THEN ContextFault ELSE call.fault, call.retry)
  ELSE IF call.complains THEN Answer(NotTheContract, FALSE)
  ELSE IF inspection.identity \notin {Unbound, call.authority} THEN Answer("inspection_failed", FALSE)
  ELSE IF call.out = {OtherVersion} /\ inspection.probe = 1 THEN Answer("unsupported_version", FALSE)
  ELSE IF call.out # {Supported} THEN Answer(NotTheContract, FALSE)
  ELSE inspection' = [inspection EXCEPT
         !.identity = IF @ = Unbound THEN call.authority ELSE @,
         !.ran = @ \cup {call.ran},
         !.probe = IF @ = ProbeCount[inspection.adapter] THEN @ ELSE @ + 1,
         !.step = IF inspection.probe = ProbeCount[inspection.adapter] THEN "conclude" ELSE "probe"]

ReadProbe ==
  /\ During("probe") /\ At("returned")
  /\ Evidence
  /\ UNCHANGED <<image, swaps, canceled>>

\* The adapter validates its own evidence; the service honours a late cancellation before it is published.
Conclude ==
  /\ During("conclude")
  /\ \/ Answer("invalid_evidence", FALSE)
     \/ canceled /\ Answer("execution_canceled", FALSE)
     \/ ~canceled /\ Publish
  /\ UNCHANGED <<image, swaps, canceled, call>>

\* The other user of the runner: an attempt bound to an identity a plan carries.
RunBound ==
  /\ During("idle")
  /\ \E identity \in Images : Call(identity)
  /\ UNCHANGED inspection

Inspect == Probe \/ ReadProbe \/ Conclude

InspectionInit == Init /\ inspection = NoInspection
InspectionNext ==
  \/ \E adapter \in Adapters : Begin(adapter)
  \/ Inspect \/ RunBound
  \/ (Step \/ Replace \/ Cancel) /\ UNCHANGED inspection

\* The runner's fairness, and the adapter takes its own steps.
InspectionSpec ==
  /\ InspectionInit /\ [][InspectionNext]_inspectionVars
  /\ WF_inspectionVars(Inspect)
  /\ WF_inspectionVars(Advance /\ UNCHANGED inspection)
  /\ WF_inspectionVars(Expire /\ UNCHANGED inspection)
  /\ WF_inspectionVars(Kill /\ UNCHANGED inspection)
-----------------------------------------------------------------------------
(* Properties.                                                              *)

\* The catalog or observation that is published is evidence of one program, the one whose path, size and
\* hash it records, although no probe of a source is told what to expect: it takes two replacements, both
\* around the same start, to mix in another (Inspect of githubcli, gocli and rtkprocessor).
EvidenceIsOneImage ==
  inspection.answer.kind = "evidence" /\ inspection.ran # {inspection.identity} => swaps >= 2

\* An inspection ends, even when the program never exits and answers no probe.
InspectionReturns == During("probe") ~> During("done")
=============================================================================
