----------------------------- MODULE Optimizer -----------------------------
(***************************************************************************)
(* The processor side of one execution: optimizerResult of planapply over  *)
(* the analyzer of TestEvents and the runner of ProcessRunner, next to the *)
(* inspection of the processor (Inspection with Role = "processor").  The  *)
(* events are those a source prints; only a document the analyzer admits   *)
(* is handed to the processor, and only the analyzer's own summary, or the *)
(* document itself, is published.                                          *)
(***************************************************************************)
EXTENDS Inspection, TestEvents

VARIABLES
  events,     \* the records the source printed
  published   \* what the optimizer result shows of them

optimizerVars == <<inspectionVars, events, published>>

Owed == [kind |-> "nothing", passes |-> 0]
Result(kind, passes) == published' = [kind |-> kind, passes |-> passes]

\* The source of a plan that was bound to the inspected processor prints one more record; a document
\* that is already refused need not grow.
Write(record) ==
  /\ During("idle") /\ At("idle") /\ published = Owed /\ image = Official
  /\ Len(events) <= MaxRecords
  /\ Reading(events, Len(events)).ok
  /\ events' = Append(events, record)
  /\ UNCHANGED <<inspectionVars, published>>

\* Outside the grammar the source's own output is the result, and no processor starts.
PreserveBefore ==
  /\ During("idle") /\ At("idle") /\ published = Owed
  /\ events # <<>> /\ ~Admitted(events)
  /\ IF canceled THEN Result("fault", 0) ELSE Result("preserved", 0)
  /\ UNCHANGED <<inspectionVars, events>>

Optimize ==
  /\ During("idle") /\ Admitted(events) /\ published = Owed
  /\ Call(Official)
  /\ UNCHANGED <<inspection, events, published>>

\* Supported stands for the text of the expected summary, OtherVersion for the document itself.
ReadOptimized ==
  /\ During("idle") /\ At("returned") /\ published = Owed
  /\ IF call.fault # NoFault \/ canceled \/ call.complains THEN Result("fault", 0)
     ELSE IF call.out = {OtherVersion} THEN Result("preserved", 0)
     ELSE IF call.out = {Supported} THEN Result("optimized", SummaryOf(events))
     ELSE Result("fault", 0)
  /\ UNCHANGED <<inspectionVars, events>>

\* The inspection of a processor begins here: only the official artifact of the platform is run.
IdentifyOfficial ==
  /\ During("identify")
  /\ \/ canceled /\ Answer(ContextFault, FALSE)
     \/ \E seen \in Seen(image) :
          \/ seen = Gone /\ Answer("identity_unavailable", TRUE)
          \/ seen = Unsafe /\ Answer("unsafe_executable", FALSE)
          \/ seen \in Images /\ Answer("identity_changed", FALSE)
          \/ seen \in Images \ {Official} /\ Answer("unsupported_artifact", FALSE)
          \/ seen = Official /\ inspection' = [inspection EXCEPT !.step = "probe", !.identity = Official]
  /\ UNCHANGED <<image, swaps, canceled, call, events, published>>

\* An optimizer and an inspection never share a process; the file may change once there is a process.
Around ==
  /\ events = <<>> \/ ~At("idle")
  /\ \/ \E adapter \in Adapters : Begin(adapter)
     \/ Inspect
     \/ (Step \/ Replace \/ Cancel) /\ UNCHANGED inspection
  /\ UNCHANGED <<events, published>>

OptimizerInit == InspectionInit /\ events = <<>> /\ published = Owed
OptimizerNext ==
  \/ \E record \in Records : Write(record)
  \/ PreserveBefore \/ Optimize \/ ReadOptimized \/ IdentifyOfficial \/ Around
OptimizerSpec == OptimizerInit /\ [][OptimizerNext]_optimizerVars
-----------------------------------------------------------------------------
(* Properties.                                                              *)

NamedTests == {events[k].test : k \in DOMAIN events} \ {NoTest}
LastEventOf(t) ==
  LET mine == {k \in DOMAIN events : events[k].test = t}
  IN  events[CHOOSE k \in mine : \A other \in mine : other <= k].action

\* Output is replaced by "n passed in 1 packages" only when that is the whole truth about the run: the
\* document is one package that started and passed, n tests are named, and the last word on each is that
\* it passed (Analyze of gotestjson, optimizerResult of planapply).
SummaryMeansPassed ==
  published.kind = "optimized" =>
    /\ Undecodable \notin {events[k] : k \in DOMAIN events}
    /\ Cardinality({events[k].package : k \in DOMAIN events}) = 1
    /\ events[1].action = "start"
    /\ events[Len(events)].action = "pass" /\ events[Len(events)].test = NoTest
    /\ published.passes = Cardinality(NamedTests) /\ published.passes > 0
    /\ \A t \in NamedTests : LastEventOf(t) = "pass"
=============================================================================
