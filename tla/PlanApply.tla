----------------------------- MODULE PlanApply -----------------------------
(***************************************************************************)
(* One application of an adopted bundle: planapply.Service.Apply behind its *)
(* two façades, bundleexecute ("execute") and wrapperrun ("wrapper").  It   *)
(* loads the bundle, requires its adoption and a current source, builds the *)
(* plan, runs the source once and, for an optimizer plan, the processor     *)
(* once on the source's output.  The two process adapters are instances of  *)
(* ProcessRunner; the bundle file, the adoption store and both executables  *)
(* may change between any two steps.                                        *)
(***************************************************************************)
EXTENDS Naturals, Integers, FiniteSets

CONSTANTS
  Bundles,      \* the bundles, told apart by digest
  Mode,         \* their result mode: "json", "stream" or "optimizer"
  SourceOf,     \* the source identity a bundle binds
  ProcessorOf,  \* the processor identity it binds (read for optimizer plans)
  Expected,     \* the bundle a generated wrapper is bound to
  Images, Gone, Unsafe, Unbound, NotRun, Outputs, MaxSwaps,  \* see ProcessRunner
  Parsable,     \* the outputs the JSON parser and the transformation accept
  Summary       \* the expected summary of each eligible output

ASSUME BundleAssumption ==
  /\ Mode \in [Bundles -> {"json", "stream", "optimizer"}]
  /\ SourceOf \in [Bundles -> Images]
  /\ ProcessorOf \in [Bundles -> Images]
  /\ Expected \in Bundles
  /\ Gone \notin Bundles
ASSUME ImageAssumption ==
  /\ Gone \notin Images \cup {Unsafe, Unbound, NotRun}
  /\ Unsafe \notin Images \cup {Unbound, NotRun}
  /\ {Unbound, NotRun} \cap Images = {}
  /\ MaxSwaps \in Nat
ASSUME OutputAssumption ==
  /\ Parsable \subseteq Outputs
  /\ DOMAIN Summary \subseteq Outputs
  /\ \A o \in DOMAIN Summary : Summary[o] \in Outputs \ {o}

VARIABLES
  bundleFile,  \* what the bundle path holds
  adopted,     \* the digests with an adoption receipt
  canceled,    \* the caller's context
  srcImage, srcSwaps, srcCall,     \* the source executable and its attempt
  procImage, procSwaps, procCall,  \* the processor executable and its attempt
  apply        \* this application: façade, step, loaded bundle, result

srcVars == <<srcImage, srcSwaps, srcCall>>
procVars == <<procImage, procSwaps, procCall>>
inputs == <<bundleFile, adopted>>
vars == <<bundleFile, adopted, canceled, srcImage, srcSwaps, srcCall,
          procImage, procSwaps, procCall, apply>>

Source == INSTANCE ProcessRunner
            WITH Role <- "source", image <- srcImage, swaps <- srcSwaps, call <- srcCall
Processor == INSTANCE ProcessRunner
               WITH Role <- "processor", image <- procImage, swaps <- procSwaps, call <- procCall

Facades == {"execute", "wrapper"}
Stages == {"runtime", "load", "adoption", "identity", "plan", "processor_identity", "source",
           "source_run", "reidentify", "processor", "processor_run", "done"}
Dispositions == {"transformed", "stream", "preserved_before", "preserved_after", "optimized"}

Open == [kind |-> "open"]
Faulted(who, code, retry) == [kind |-> "fault", who |-> who, code |-> code, retry |-> retry]
Published(how, out) == [kind |-> "output", how |-> how, out |-> out]

At(stage) == apply.stage = stage
Goto(stage) == apply' = [apply EXCEPT !.stage = stage]
Return(result) == apply' = [apply EXCEPT !.stage = "done", !.result = result]
Fail(who, code, retry) == Return(Faulted(who, code, retry))
Refuse(code) == Fail("plan", code, FALSE)

LoadedMode == Mode[apply.bundle]

----------------------------------------------------------------------------
(* Before anything starts.                                                  *)

\* wrapperrun.Execute: the running atr must be the one the wrapper was made for.
CheckRuntime ==
  /\ At("runtime")
  /\ \/ canceled /\ Refuse("context")
     \/ Refuse("wrapper_runtime_unavailable")
     \/ Refuse("wrapper_runtime_drift")
     \/ ~canceled /\ Goto("load")
  /\ UNCHANGED <<inputs, canceled, srcVars, procVars>>

\* Mutant: the loaded digest is not compared with the wrapper's binding.
LoadUnbound ==
  /\ At("load")
  /\ \/ canceled /\ Refuse("context")
     \/ \E retry \in BOOLEAN : Fail("plan", "bundle_load_failed", retry)
     \/ /\ bundleFile \in Bundles
        /\ apply' = [apply EXCEPT !.stage = "adoption", !.bundle = bundleFile]
  /\ UNCHANGED <<inputs, canceled, srcVars, procVars>>

Load ==
  /\ At("load")
  /\ \/ canceled /\ Refuse("context")
     \/ \E retry \in BOOLEAN : Fail("plan", "bundle_load_failed", retry)
     \/ /\ bundleFile \in Bundles
        /\ apply.facade = "wrapper" /\ bundleFile # Expected
        /\ Refuse("bundle_binding_mismatch")
     \/ /\ bundleFile \in Bundles
        /\ apply.facade = "wrapper" => bundleFile = Expected
        /\ apply' = [apply EXCEPT !.stage = "adoption", !.bundle = bundleFile]
  /\ UNCHANGED <<inputs, canceled, srcVars, procVars>>

InspectAdoption ==
  /\ At("adoption")
  /\ \/ Refuse("invalid_bundle_trust_store")
     \/ apply.bundle \notin adopted /\ Refuse("bundle_not_adopted")
     \/ apply.bundle \in adopted /\ IF canceled THEN Refuse("context") ELSE Goto("identity")
  /\ UNCHANGED <<inputs, canceled, srcVars, procVars>>

\* sourceexec.Identify: LookPath finds no missing and no unsafe executable, and a
\* link is followed to a program of another path.
IdentifySource ==
  /\ At("identity")
  /\ IF canceled THEN Refuse("context")
     ELSE \E seen \in Source!Seen(srcImage) :
            \/ seen = Gone /\ Fail("source", "identity_unavailable", TRUE)
            \/ seen \in {Gone, Unsafe} /\ Fail("source", "executable_not_found", FALSE)
            \/ seen = Unsafe /\ Fail("source", "unsafe_executable", FALSE)
            \/ seen \in Images /\ Fail("source", "identity_changed", FALSE)
            \/ seen \notin {Gone, SourceOf[apply.bundle]} /\ Refuse("bundle_source_drift")
            \/ seen = SourceOf[apply.bundle] /\ Goto("plan")
  /\ UNCHANGED <<inputs, canceled, srcVars, procVars>>

\* tailoringplan.Build, the façade's admission of the result mode and the
\* runtime compatibility check: pure functions of the bundle and the argv.
BuildPlan ==
  /\ At("plan")
  /\ \/ \E code \in {"invalid_invocation", "not_in_surface", "invalid_wrapper_plan",
                     "wrapper_runtime_not_supported"} : Refuse(code)
     \/ /\ apply.facade = "execute" => LoadedMode = "json"
        /\ Goto(IF LoadedMode = "optimizer" THEN "processor_identity" ELSE "source")
  /\ UNCHANGED <<inputs, canceled, srcVars, procVars>>

\* An executable that changes while it is read counts as changed, here and below.
IdentifyProcessor ==
  /\ At("processor_identity")
  /\ IF canceled THEN Refuse("context")
     ELSE \E seen \in Processor!Seen(procImage) :
            \/ seen = Gone /\ Fail("processor", "identity_unavailable", TRUE)
            \/ seen = Unsafe /\ Fail("processor", "unsafe_executable", FALSE)
            \/ seen \in Images /\ Fail("processor", "identity_changed", FALSE)
            \/ seen = ProcessorOf[apply.bundle] /\ Goto("source")
  /\ UNCHANGED <<inputs, canceled, srcVars, procVars>>

RunSource ==
  /\ At("source")
  /\ \/ canceled /\ Refuse("context") /\ UNCHANGED srcVars
     \/ ~canceled /\ Source!Call(SourceOf[apply.bundle]) /\ Goto("source_run")
  /\ UNCHANGED <<inputs, canceled, procVars>>

----------------------------------------------------------------------------
(* After the source.                                                        *)

\* safeProcessFault: the outcomes of an attempt that started nothing, with
\* their retryability, and those of one that did.
BeforeSourceStart == [identity_changed |-> FALSE, identity_unavailable |-> TRUE,
                      unsafe_executable |-> FALSE, executable_not_found |-> FALSE,
                      process_start_failed |-> TRUE]
AfterSourceStart == {"stdout_too_large", "stderr_too_large", "execution_canceled", "timeout",
                     "identity_changed", "command_failed", "process_wait_failed"}

Unclassified(who) == Faulted(who, "unclassified_execution_outcome", FALSE)

\* Mutant: every outcome of kind "unavailable" is offered for retry.
SourceFaultByKind ==
  Faulted("source", srcCall.fault,
          srcCall.fault \in {"identity_unavailable", "process_start_failed", "timeout", "process_wait_failed"})

\* classifyProcess
SourceFault ==
  IF srcCall.ran = NotRun /\ srcCall.fault \in DOMAIN BeforeSourceStart
  THEN Faulted("source", srcCall.fault, BeforeSourceStart[srcCall.fault])
  ELSE IF srcCall.ran # NotRun /\ srcCall.fault \in AfterSourceStart
  THEN Faulted("source", srcCall.fault, FALSE)
  ELSE Unclassified("source")

\* A conventional completion: a clean exit, or a nonzero status of its own.
Completed ==
  /\ srcCall.ran # NotRun
  /\ \/ srcCall.fault = "none" /\ srcCall.ending[1] = 0
     \/ srcCall.fault = "command_failed" /\ srcCall.ending[1] > 0

ExitedClean == srcCall.ending[1] = 0 /\ ~srcCall.complains

OutputCanceled == Faulted("source", "output_processing_canceled", FALSE)

\* The transformed_json path of Apply: nothing but a clean, parsable output passes.
ReturnTransformed ==
  /\ LoadedMode = "json"
  /\ Return(IF srcCall.fault # "none" THEN SourceFault
            ELSE IF srcCall.complains THEN Faulted("source", "stderr_not_supported", FALSE)
            ELSE IF canceled THEN OutputCanceled
            ELSE IF srcCall.out \subseteq Parsable THEN Published("transformed", srcCall.out)
            ELSE Faulted("source", "output_not_transformable", FALSE))

ReturnStream ==
  /\ LoadedMode = "stream"
  /\ Return(IF ~Completed THEN SourceFault
            ELSE IF canceled THEN OutputCanceled
            ELSE Published("stream", srcCall.out))

Eligible == ExitedClean /\ srcCall.out \subseteq DOMAIN Summary

\* The first half of optimizerResult: preserve what the processor may not see.
ReturnUnprocessed ==
  /\ LoadedMode = "optimizer"
  /\ IF ~Completed THEN Return(SourceFault)
     ELSE IF canceled THEN Return(OutputCanceled)
     ELSE IF ~Eligible THEN Return(Published("preserved_before", srcCall.out))
     ELSE Goto("reidentify")

AwaitSource ==
  /\ At("source_run")
  /\ srcCall.stage = "returned"
  /\ ReturnTransformed \/ ReturnStream \/ ReturnUnprocessed
  /\ UNCHANGED <<inputs, canceled, srcVars, procVars>>

\* Mutant: the second look at the processor is classified like the first.
ReidentifyLikeFirst ==
  /\ At("reidentify")
  /\ IF canceled THEN Fail("processor", "execution_canceled", FALSE)
     ELSE \E seen \in Processor!Seen(procImage) :
            \/ seen = Gone /\ Fail("processor", "identity_unavailable", TRUE)
            \/ seen = Unsafe /\ Fail("processor", "unsafe_executable", FALSE)
            \/ seen \in Images /\ Fail("processor", "identity_changed", FALSE)
            \/ seen = ProcessorOf[apply.bundle] /\ Goto("processor")
  /\ UNCHANGED <<inputs, canceled, srcVars, procVars>>

ReidentifyProcessor ==
  /\ At("reidentify")
  /\ IF canceled THEN Fail("processor", "execution_canceled", FALSE)
     ELSE \E seen \in Processor!Seen(procImage) :
            \/ seen = Gone /\ Fail("processor", "identity_unavailable_after_source", FALSE)
            \/ seen = Unsafe /\ Fail("processor", "unsafe_executable", FALSE)
            \/ seen \in Images /\ Fail("processor", "identity_changed", FALSE)
            \/ seen = ProcessorOf[apply.bundle] /\ Goto("processor")
  /\ UNCHANGED <<inputs, canceled, srcVars, procVars>>

RunProcessor ==
  /\ At("processor")
  /\ \/ canceled /\ Fail("processor", "execution_canceled", FALSE) /\ UNCHANGED procVars
     \/ ~canceled /\ Processor!Call(ProcessorOf[apply.bundle]) /\ Goto("processor_run")
  /\ UNCHANGED <<inputs, canceled, srcVars>>

\* safeProcessorFault; no outcome of the processor is offered for retry.
BeforeProcessorStart == {"identity_changed", "identity_unavailable", "unsafe_executable",
                         "environment_setup_failed", "process_start_failed", "cleanup_failed"}
AfterProcessorStart == {"identity_changed", "stdout_too_large", "stderr_too_large",
                        "execution_canceled", "timeout", "command_failed", "process_wait_failed",
                        "cleanup_failed"}
AfterSource(code) ==
  CASE code = "identity_unavailable" -> "identity_unavailable_after_source"
    [] code = "environment_setup_failed" -> "environment_setup_failed_after_source"
    [] code = "process_start_failed" -> "process_start_failed_after_source"
    [] OTHER -> code

ProcessorFault ==
  IF procCall.ran = NotRun /\ procCall.fault \in BeforeProcessorStart
  THEN Faulted("processor", AfterSource(procCall.fault), FALSE)
  ELSE IF procCall.ran # NotRun /\ procCall.fault \in AfterProcessorStart
  THEN Faulted("processor", procCall.fault, FALSE)
  ELSE Unclassified("processor")

\* Mutant: a failed processor falls back to the source's output.
AwaitProcessorFallingBack ==
  /\ At("processor_run")
  /\ procCall.stage = "returned"
  /\ Return(IF canceled THEN Faulted("processor", "execution_canceled", FALSE)
            ELSE IF procCall.fault # "none" THEN Published("preserved_after", srcCall.out)
            ELSE Published("optimized", procCall.out))
  /\ UNCHANGED <<inputs, canceled, srcVars, procVars>>

\* Mutant: the status of the processor is taken for the validity of its output.
AwaitProcessorTrusting ==
  /\ At("processor_run")
  /\ procCall.stage = "returned"
  /\ Return(IF procCall.fault # "none" THEN ProcessorFault
            ELSE IF canceled THEN Faulted("processor", "execution_canceled", FALSE)
            ELSE IF procCall.out = srcCall.out THEN Published("preserved_after", procCall.out)
            ELSE Published("optimized", procCall.out))
  /\ UNCHANGED <<inputs, canceled, srcVars, procVars>>

AwaitProcessor ==
  /\ At("processor_run")
  /\ procCall.stage = "returned"
  /\ Return(IF procCall.fault # "none" THEN ProcessorFault
            ELSE IF canceled THEN Faulted("processor", "execution_canceled", FALSE)
            ELSE IF procCall.complains THEN Faulted("processor", "output_not_admitted", FALSE)
            ELSE IF procCall.out = srcCall.out THEN Published("preserved_after", procCall.out)
            ELSE IF procCall.out = {Summary[o] : o \in srcCall.out}
                 THEN Published("optimized", procCall.out)
            ELSE Faulted("processor", "output_not_admitted", FALSE))
  /\ UNCHANGED <<inputs, canceled, srcVars, procVars>>

----------------------------------------------------------------------------
(* The world around it.                                                     *)

\* The bundle file and the receipts are read once, so only their changes
\* before that matter.
Deciding == apply.stage \in {"runtime", "load", "adoption"}

ReplaceBundle ==
  /\ Deciding
  /\ \E b \in (Bundles \cup {Gone}) \ {bundleFile} : bundleFile' = b
  /\ UNCHANGED <<adopted, canceled, srcVars, procVars, apply>>

\* Another process runs bundle trust; receipts are only ever added.
Adopt ==
  /\ Deciding
  /\ \E b \in Bundles \ adopted : adopted' = adopted \cup {b}
  /\ UNCHANGED <<bundleFile, canceled, srcVars, procVars, apply>>

ReplaceSource == Source!Replace /\ UNCHANGED <<inputs, procVars, apply>>
ReplaceProcessor == Processor!Replace /\ UNCHANGED <<inputs, srcVars, apply>>
Cancel == Source!Cancel /\ UNCHANGED <<inputs, procVars, apply>>

SourceStep == Source!Step /\ UNCHANGED <<inputs, procVars, apply>>
ProcessorStep == Processor!Step /\ UNCHANGED <<inputs, srcVars, apply>>

Decide == CheckRuntime \/ Load \/ InspectAdoption \/ IdentifySource \/ BuildPlan \/ IdentifyProcessor
Drive == RunSource \/ AwaitSource \/ ReidentifyProcessor \/ RunProcessor \/ AwaitProcessor
World == ReplaceBundle \/ Adopt \/ ReplaceSource \/ ReplaceProcessor \/ Cancel

Init ==
  /\ bundleFile \in Bundles \cup {Gone}
  /\ adopted \in SUBSET Bundles
  /\ canceled = FALSE
  /\ srcImage \in Images \cup {Gone, Unsafe} /\ srcSwaps = 0 /\ srcCall = Source!NoCall
  /\ procImage \in Images \cup {Gone, Unsafe} /\ procSwaps = 0 /\ procCall = Processor!NoCall
  /\ \E f \in Facades :
       apply = [facade |-> f, stage |-> IF f = "wrapper" THEN "runtime" ELSE "load",
                bundle |-> Gone, result |-> Open]

Next == Decide \/ Drive \/ SourceStep \/ ProcessorStep \/ World
Spec == Init /\ [][Next]_vars

\* The application and both runners are scheduled; deadlines fire; a killed
\* process is reaped.  The programs themselves may never exit.
Fairness ==
  /\ WF_vars(Decide \/ Drive)
  /\ WF_vars(Source!Advance /\ SourceStep) /\ WF_vars(Processor!Advance /\ ProcessorStep)
  /\ WF_vars(Source!Expire /\ SourceStep) /\ WF_vars(Processor!Expire /\ ProcessorStep)
  /\ WF_vars(Source!Kill /\ SourceStep) /\ WF_vars(Processor!Kill /\ ProcessorStep)
LiveSpec == Spec /\ Fairness

----------------------------------------------------------------------------
(* Properties.                                                              *)

SourceStarted == srcCall.ran # NotRun
ProcessorStarted == procCall.ran # NotRun
IsFault == apply.result.kind = "fault"
IsOutput == apply.result.kind = "output"

PlanCodes == {"context", "wrapper_runtime_unavailable", "wrapper_runtime_drift", "bundle_load_failed",
              "bundle_binding_mismatch", "invalid_bundle_trust_store", "bundle_not_adopted",
              "bundle_source_drift", "invalid_invocation", "not_in_surface", "invalid_wrapper_plan",
              "wrapper_runtime_not_supported"}
OutputCodes == {"stderr_not_supported", "output_processing_canceled", "output_not_transformable",
                "output_not_admitted", "unclassified_execution_outcome"}
AfterSourceCodes == {"identity_unavailable_after_source", "environment_setup_failed_after_source",
                     "process_start_failed_after_source"}
Codes == PlanCodes \cup OutputCodes \cup AfterSourceCodes \cup DOMAIN BeforeSourceStart
         \cup AfterSourceStart \cup BeforeProcessorStart \cup AfterProcessorStart

Results ==
  {Open}
  \cup [kind : {"fault"}, who : {"plan", "source", "processor"}, code : Codes, retry : BOOLEAN]
  \cup [kind : {"output"}, how : Dispositions, out : SUBSET Outputs]

TypeOK ==
  /\ bundleFile \in Bundles \cup {Gone}
  /\ adopted \subseteq Bundles
  /\ Source!TypeOK
  /\ Processor!TypeOK
  /\ apply \in [facade : Facades, stage : Stages, bundle : Bundles \cup {Gone}, result : Results]
  /\ apply.stage \notin {"runtime", "load", "done"} => apply.bundle \in Bundles

\* Nothing starts without authority: the source runs only for a loaded bundle
\* whose digest was adopted, in a result mode the façade admits, and for a
\* wrapper only the bundle it was generated for; the processor only for an
\* optimizer plan, after a clean source whose output is eligible
\* (planapply.Apply, docs/03_security_model.md "start zero attempts").
StartsAreAuthorized ==
  /\ SourceStarted =>
       /\ apply.bundle \in adopted
       /\ apply.facade = "wrapper" => apply.bundle = Expected
       /\ apply.facade = "execute" => LoadedMode = "json"
       /\ srcCall.authority = SourceOf[apply.bundle]
  /\ ProcessorStarted =>
       /\ LoadedMode = "optimizer"
       /\ srcCall.stage = "returned" /\ srcCall.fault = "none" /\ Eligible
       /\ procCall.authority = ProcessorOf[apply.bundle]

\* A fault that invites a retry is returned only when no process was started
\* (planapply.Apply, "report every unknown post-start outcome as non-retryable").
RetryMeansNothingStarted ==
  IsFault /\ apply.result.retry => ~SourceStarted /\ ~ProcessorStarted

\* Bytes are published only from attempts that ended conventionally, and a
\* processor that failed after the source never makes the source's own output
\* visible instead (docs/03_security_model.md "Failure policy").
NoFallback ==
  IsOutput =>
    /\ Completed
    /\ procCall.stage # "idle" => procCall.fault = "none" /\ ProcessorStarted
    /\ apply.result.how = "preserved_before" => ~Eligible

\* What is published is the source's output, or the one summary computed
\* independently from it.
PublishedOutputIsOwed ==
  IsOutput =>
    \/ apply.result.how # "optimized" /\ apply.result.out = srcCall.out
    \/ apply.result.how = "optimized" /\ apply.result.out = {Summary[o] : o \in srcCall.out}

\* A single replacement of an executable during the application never gets the
\* other program's output published; it takes a swap and a swap back around
\* the start.
OneSwapNeverPublished ==
  IsOutput =>
    /\ srcCall.ran # srcCall.authority => srcSwaps >= 2
    /\ ProcessorStarted /\ procCall.ran # procCall.authority => procSwaps >= 2

\* Published output never coexists with an isolated root left behind.
PublishedIsClean == IsOutput => procCall.root = "none"

\* The application always returns, even when the programs it runs never exit.
ApplyReturns == <>At("done")
=============================================================================
