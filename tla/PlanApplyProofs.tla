-------------------------- MODULE PlanApplyProofs --------------------------
(***************************************************************************)
(* What every application of PlanApply satisfies, for every set of bundles, *)
(* executables and outputs and any number of replacements, and that it      *)
(* implements ApplyContract.                                                *)
(*                                                                         *)
(* The invariant joins RunnerInv of both attempts (ProcessRunnerProofs) to  *)
(* four facts of the application: Shaped (its record), Staged (where the    *)
(* attempts are at each step), Authorized and Handed (what was checked      *)
(* before the source, the processor, was started) and Answered (what the    *)
(* result rests on).                                                        *)
(***************************************************************************)
EXTENDS ApplyRefinement, TLAPS

SP == INSTANCE ProcessRunnerProofs
        WITH Role <- "source", image <- srcImage, swaps <- srcSwaps, call <- srcCall
PP == INSTANCE ProcessRunnerProofs
        WITH Role <- "processor", image <- procImage, swaps <- procSwaps, call <- procCall

BeforeSource == {"runtime", "load", "adoption", "identity", "plan", "processor_identity", "source"}
HandoverStages == {"reidentify", "processor", "processor_run"}

Shaped ==
  /\ bundleFile \in Bundles \cup {Gone}
  /\ adopted \subseteq Bundles
  /\ apply \in [facade : Facades, stage : Stages, bundle : Bundles \cup {Gone}, result : Results]

Handover ==
  /\ apply.bundle \in Bundles
  /\ LoadedMode = "optimizer"
  /\ srcCall.stage = "returned" /\ srcCall.fault = "none" /\ Completed /\ Eligible

Staged ==
  /\ apply.stage \in BeforeSource => srcCall.stage = "idle"
  /\ apply.stage = "source_run" => srcCall.stage # "idle"
  /\ apply.stage \in HandoverStages => Handover
  /\ apply.stage \in BeforeSource \cup {"source_run", "reidentify", "processor"} => procCall.stage = "idle"
  /\ apply.stage = "done" =>
       /\ srcCall.stage \in {"idle", "returned"}
       /\ procCall.stage \in {"idle", "returned"}
  /\ apply.stage # "done" => apply.result = Open

Authorized ==
  /\ apply.stage \notin {"runtime", "load", "done"} =>
       /\ apply.bundle \in Bundles
       /\ apply.facade = "wrapper" => apply.bundle = Expected
  /\ apply.stage \notin {"runtime", "load", "adoption", "done"} => apply.bundle \in adopted
  /\ apply.stage \in {"processor_identity", "source"} /\ apply.facade = "execute" => LoadedMode = "json"
  /\ srcCall.stage # "idle" =>
       /\ apply.bundle \in Bundles \cap adopted
       /\ apply.facade = "wrapper" => apply.bundle = Expected
       /\ apply.facade = "execute" => LoadedMode = "json"
       /\ srcCall.authority = SourceOf[apply.bundle]

Handed ==
  procCall.stage # "idle" => Handover /\ procCall.authority = ProcessorOf[apply.bundle]

Justified(r) ==
  /\ r.kind \in {"fault", "output"}
  /\ r.kind = "fault" /\ r.retry => ~SourceStarted /\ ~ProcessorStarted
  /\ r.kind = "output" =>
       /\ srcCall.stage = "returned" /\ Completed
       /\ procCall.stage # "idle" => procCall.fault = "none"
       /\ r.how = "preserved_before" => ~Eligible
       /\ r.how # "optimized" => r.out = srcCall.out
       /\ r.how = "optimized" => r.out = {Summary[o] : o \in srcCall.out}

Answered == apply.stage = "done" => Justified(apply.result)

AppInv == Shaped /\ Staged /\ Authorized /\ Handed /\ Answered
Inv == SP!RunnerInv /\ PP!RunnerInv /\ AppInv

----------------------------------------------------------------------------
(* The runners of PlanApply are those ProcessRunnerProofs speaks of.        *)

LEMMA SourceIsRunner ==
  /\ Source!Step <=> SP!Step
  /\ Source!Replace <=> SP!Replace
  /\ Source!Cancel <=> SP!Cancel
  /\ \A i : Source!Call(i) <=> SP!Call(i)
  /\ Source!NoCall = SP!NoCall
<1>1. Source!Advance <=> SP!Advance
  BY DEF Source!Advance, Source!Enter, Source!Identify, Source!Setup, Source!Revalidate, Source!Start,
     Source!Classify, Source!Cleanup, Source!At, Source!Goto, Source!End, Source!Seen, Source!Verdict,
     Source!Stopped, Source!Changed, Source!Ended, Source!NoFault,
     SP!Advance, SP!Enter, SP!Identify, SP!Setup, SP!Revalidate, SP!Start,
     SP!Classify, SP!Cleanup, SP!At, SP!Goto, SP!End, SP!Seen, SP!Verdict,
     SP!Stopped, SP!Changed, SP!Ended, SP!NoFault
<1>2. Source!Child <=> SP!Child
  BY DEF Source!Child, Source!Overflow, Source!Expire, Source!Exit, Source!Kill, Source!At,
     Source!Streams, Source!Endings, Source!RunContextDone,
     SP!Child, SP!Overflow, SP!Expire, SP!Exit, SP!Kill, SP!At, SP!Streams, SP!Endings, SP!RunContextDone
<1>3. QED
  BY <1>1, <1>2 DEF Source!Step, SP!Step, Source!Replace, SP!Replace, Source!Cancel, SP!Cancel,
     Source!Call, SP!Call, Source!At, SP!At, Source!NoCall, SP!NoCall, Source!NoFault, SP!NoFault,
     Source!Files, SP!Files

LEMMA ProcessorIsRunner ==
  /\ Processor!Step <=> PP!Step
  /\ Processor!Replace <=> PP!Replace
  /\ \A i : Processor!Call(i) <=> PP!Call(i)
  /\ Processor!NoCall = PP!NoCall
<1>1. Processor!Advance <=> PP!Advance
  BY DEF Processor!Advance, Processor!Enter, Processor!Identify, Processor!Setup, Processor!Revalidate,
     Processor!Start, Processor!Classify, Processor!Cleanup, Processor!At, Processor!Goto, Processor!End,
     Processor!Seen, Processor!Verdict, Processor!Stopped, Processor!Changed, Processor!Ended, Processor!NoFault,
     PP!Advance, PP!Enter, PP!Identify, PP!Setup, PP!Revalidate, PP!Start,
     PP!Classify, PP!Cleanup, PP!At, PP!Goto, PP!End, PP!Seen, PP!Verdict,
     PP!Stopped, PP!Changed, PP!Ended, PP!NoFault
<1>2. Processor!Child <=> PP!Child
  BY DEF Processor!Child, Processor!Overflow, Processor!Expire, Processor!Exit, Processor!Kill, Processor!At,
     Processor!Streams, Processor!Endings, Processor!RunContextDone,
     PP!Child, PP!Overflow, PP!Expire, PP!Exit, PP!Kill, PP!At, PP!Streams, PP!Endings, PP!RunContextDone
<1>3. QED
  BY <1>1, <1>2 DEF Processor!Step, PP!Step, Processor!Replace, PP!Replace,
     Processor!Call, PP!Call, Processor!At, PP!At, Processor!NoCall, PP!NoCall, Processor!NoFault, PP!NoFault,
     Processor!Files, PP!Files
----------------------------------------------------------------------------
(* Steps of a runner and of the world.                                      *)

LEMMA RunnerFacts ==
  ASSUME Inv
  PROVE  /\ srcCall.stage = "idle" => srcCall.ran = NotRun
         /\ procCall.stage = "idle" => procCall.ran = NotRun
         /\ srcCall.stage # "idle" => srcCall.authority \in Images
         /\ procCall.stage # "idle" => procCall.authority \in Images
         /\ srcCall.retry /\ srcCall.stage = "returned" => srcCall.ran = NotRun
<1>1. /\ srcCall.stage = "idle" => srcCall.ran = NotRun
      /\ procCall.stage = "idle" => procCall.ran = NotRun
      /\ srcCall.retry /\ srcCall.stage = "returned" => srcCall.ran = NotRun
  BY DEF Inv, SP!RunnerInv, PP!RunnerInv, SP!Phased, PP!Phased, SP!BeforeStart, PP!BeforeStart
<1>2. /\ srcCall.stage # "idle" => srcCall.authority \in Images
      /\ procCall.stage # "idle" => procCall.authority \in Images
  BY BundleAssumption DEF Inv, AppInv, Authorized, Handed, Handover
<1>3. QED BY <1>1, <1>2

(* A step of the source's attempt happens only while the application waits for it. *)
LEMMA SourceStepMoves ==
  ASSUME Inv, SourceStep
  PROVE  /\ apply.stage = "source_run"
         /\ srcCall'.stage # "idle"
         /\ srcCall'.authority = srcCall.authority
         /\ srcCall.ran # NotRun => srcCall'.ran = srcCall.ran
         /\ procCall.stage = "idle"
         /\ UNCHANGED <<canceled, inputs, procVars, apply>>
<1>1. SP!Step
  BY SourceIsRunner DEF SourceStep
<1>2. srcCall.stage # "idle"
  BY <1>1 DEF SP!Step, SP!Advance, SP!Child, SP!Enter, SP!Identify, SP!Setup, SP!Revalidate, SP!Start,
     SP!Classify, SP!Cleanup, SP!Overflow, SP!Expire, SP!Exit, SP!Kill, SP!At
<1>3. /\ srcCall.stage \notin {"idle", "returned"}
      /\ srcCall'.stage # "idle"
      /\ srcCall'.authority = srcCall.authority
      /\ srcCall.ran # NotRun => srcCall'.ran = srcCall.ran
      /\ UNCHANGED canceled
  BY <1>1, <1>2, RunnerFacts, ImageAssumption, SP!StepStays DEF Inv
<1>4. apply.stage = "source_run" /\ procCall.stage = "idle"
  BY <1>3 DEF Inv, AppInv, Shaped, Staged, Handover, Stages, BeforeSource, HandoverStages
<1>5. QED BY <1>3, <1>4 DEF SourceStep

LEMMA ProcessorStepMoves ==
  ASSUME Inv, ProcessorStep
  PROVE  /\ apply.stage = "processor_run"
         /\ procCall'.stage # "idle"
         /\ procCall'.authority = procCall.authority
         /\ procCall.ran # NotRun => procCall'.ran = procCall.ran
         /\ UNCHANGED <<canceled, inputs, srcVars, apply>>
<1>1. PP!Step
  BY ProcessorIsRunner DEF ProcessorStep
<1>2. procCall.stage # "idle"
  BY <1>1 DEF PP!Step, PP!Advance, PP!Child, PP!Enter, PP!Identify, PP!Setup, PP!Revalidate, PP!Start,
     PP!Classify, PP!Cleanup, PP!Overflow, PP!Expire, PP!Exit, PP!Kill, PP!At
<1>3. /\ procCall.stage \notin {"idle", "returned"}
      /\ procCall'.stage # "idle"
      /\ procCall'.authority = procCall.authority
      /\ procCall.ran # NotRun => procCall'.ran = procCall.ran
      /\ UNCHANGED canceled
  BY <1>1, <1>2, RunnerFacts, ImageAssumption, PP!StepStays DEF Inv
<1>4. apply.stage = "processor_run"
  BY <1>3 DEF Inv, AppInv, Shaped, Staged, Stages, BeforeSource, HandoverStages
<1>5. QED BY <1>3, <1>4 DEF ProcessorStep

LEMMA SourceStepKeeps ==
  ASSUME Inv, SourceStep
  PROVE  Inv'
<1>1. SP!RunnerInv'
  <2>1. SP!Step
    BY SourceIsRunner DEF SourceStep
  <2>2. [SP!Next]_(SP!vars)
    BY <2>1 DEF SP!Next
  <2>3. QED BY <2>2, ImageAssumption, SP!RunnerNext DEF Inv
<1>2. PP!RunnerInv'
  <2>1. PP!TypeOK' /\ PP!Phased' /\ PP!Watched' /\ PP!Rooted'
    BY SourceStepMoves DEF Inv, procVars, PP!RunnerInv, PP!TypeOK, PP!Phased, PP!Watched, PP!Rooted, PP!Conventional
  <2>2. PP!Unstopped'
    BY SourceStepMoves DEF Inv, procVars, PP!RunnerInv, PP!Unstopped, PP!Conventional
  <2>3. QED BY <2>1, <2>2 DEF PP!RunnerInv
<1>3. AppInv'
  BY SourceStepMoves DEF Inv, AppInv, inputs, procVars, Shaped, Staged, Authorized, Handed, Answered, LoadedMode,
     BeforeSource, HandoverStages
<1>4. QED BY <1>1, <1>2, <1>3 DEF Inv

LEMMA ProcessorStepKeeps ==
  ASSUME Inv, ProcessorStep
  PROVE  Inv'
<1>1. PP!RunnerInv'
  <2>1. PP!Step
    BY ProcessorIsRunner DEF ProcessorStep
  <2>2. [PP!Next]_(PP!vars)
    BY <2>1 DEF PP!Next
  <2>3. QED BY <2>2, ImageAssumption, PP!RunnerNext DEF Inv
<1>2. SP!RunnerInv'
  <2>1. SP!TypeOK' /\ SP!Phased' /\ SP!Watched' /\ SP!Rooted'
    BY ProcessorStepMoves DEF Inv, srcVars, SP!RunnerInv, SP!TypeOK, SP!Phased, SP!Watched, SP!Rooted, SP!Conventional
  <2>2. SP!Unstopped'
    BY ProcessorStepMoves DEF Inv, srcVars, SP!RunnerInv, SP!Unstopped, SP!Conventional
  <2>3. QED BY <2>1, <2>2 DEF SP!RunnerInv
<1>3. AppInv'
  <2>1. /\ UNCHANGED <<bundleFile, adopted, srcCall, apply>>
        /\ procCall'.stage # "idle" /\ procCall'.authority = procCall.authority
        /\ apply.stage = "processor_run" /\ Handover /\ procCall.stage # "idle"
    <3>1. procCall.stage # "idle"
      BY ProcessorIsRunner DEF ProcessorStep, PP!Step, PP!Advance, PP!Child, PP!Enter, PP!Identify, PP!Setup,
         PP!Revalidate, PP!Start, PP!Classify, PP!Cleanup, PP!Overflow, PP!Expire, PP!Exit, PP!Kill, PP!At
    <3>2. QED BY <3>1, ProcessorStepMoves DEF inputs, srcVars, Inv, AppInv, Handed
  <2>2. Handover'
    BY <2>1 DEF Handover, LoadedMode, Completed, Eligible, ExitedClean
  <2>3. Shaped' /\ Handed' /\ Answered'
    BY <2>1, <2>2 DEF Inv, AppInv, Shaped, Handed, Answered
  <2>4. Staged' /\ Authorized'
    BY <2>1, <2>2 DEF Inv, AppInv, Staged, Authorized, LoadedMode, BeforeSource, HandoverStages
  <2>5. QED BY <2>3, <2>4 DEF AppInv
<1>4. QED BY <1>1, <1>2, <1>3 DEF Inv
----------------------------------------------------------------------------
(* Steps of the application.                                                *)

LEMMA RunnersKeep ==
  ASSUME Inv, UNCHANGED <<canceled, srcVars, procVars>>
  PROVE  SP!RunnerInv' /\ PP!RunnerInv'
BY DEF Inv, srcVars, procVars, SP!RunnerInv, SP!TypeOK, SP!Phased, SP!Watched, SP!Rooted, SP!Unstopped,
   SP!Conventional, PP!RunnerInv, PP!TypeOK, PP!Phased, PP!Watched, PP!Rooted, PP!Unstopped, PP!Conventional

(* A fault is an answer; it may invite a retry only when nothing was started. *)
LEMMA FaultIsAnswer ==
  ASSUME NEW who \in {"plan", "source", "processor"}, NEW code \in Codes, NEW retry \in BOOLEAN,
         retry => ~SourceStarted /\ ~ProcessorStarted
  PROVE  Faulted(who, code, retry) \in Results /\ Justified(Faulted(who, code, retry))
BY DEF Faulted, Results, Justified

LEMMA CodesAreKnown ==
  /\ PlanCodes \subseteq Codes
  /\ {"identity_unavailable", "unsafe_executable", "identity_changed", "execution_canceled", "executable_not_found"} \subseteq Codes
  /\ OutputCodes \subseteq Codes
  /\ AfterSourceCodes \subseteq Codes
BY DEF Codes, BeforeProcessorStart, AfterSourceStart, BeforeSourceStart

LEMMA ReturnKeeps ==
  ASSUME Inv, apply.stage # "done", NEW r \in Results, Justified(r), Return(r),
         srcCall.stage \in {"idle", "returned"}, procCall.stage \in {"idle", "returned"},
         UNCHANGED <<inputs, canceled, srcVars, procVars>>
  PROVE  Inv'
<1>1. apply' = [apply EXCEPT !.stage = "done", !.result = r]
  BY DEF Return
<1>2. /\ UNCHANGED <<bundleFile, adopted, srcCall, procCall>>
      /\ apply'.stage = "done" /\ apply'.result = r
      /\ apply'.facade = apply.facade /\ apply'.bundle = apply.bundle
  BY <1>1 DEF inputs, srcVars, procVars, Inv, AppInv, Shaped
<1>3. Shaped'
  BY <1>1, <1>2 DEF Inv, AppInv, Shaped, Stages
<1>4. Staged' /\ Authorized'
  BY <1>2 DEF Inv, AppInv, Staged, Authorized, LoadedMode, BeforeSource, HandoverStages
<1>5. Handed'
  BY <1>2 DEF Inv, AppInv, Handed, Handover, LoadedMode, Completed, Eligible, ExitedClean
<1>6. Answered'
  BY <1>2 DEF Answered, Justified, SourceStarted, ProcessorStarted, Completed, Eligible, ExitedClean
<1>7. QED BY <1>3, <1>4, <1>5, <1>6, RunnersKeep DEF Inv, AppInv

(* Before the source is started every fault may be returned as it is. *)
LEMMA FailEarlyKeeps ==
  ASSUME Inv, apply.stage \in BeforeSource,
         NEW who \in {"plan", "source", "processor"}, NEW code \in Codes, NEW retry \in BOOLEAN,
         Fail(who, code, retry), UNCHANGED <<inputs, canceled, srcVars, procVars>>
  PROVE  Inv'
<1>1. /\ apply.stage # "done" /\ srcCall.stage = "idle" /\ procCall.stage = "idle"
      /\ ~SourceStarted /\ ~ProcessorStarted
  BY RunnerFacts DEF BeforeSource, Inv, AppInv, Staged, SourceStarted, ProcessorStarted
<1>2. QED BY <1>1, FaultIsAnswer, ReturnKeeps DEF Fail

(* A step from one stage before the source to the next. *)
LEMMA GotoEarlyKeeps ==
  ASSUME Inv, apply.stage \in BeforeSource, NEW stage \in BeforeSource, Goto(stage),
         stage \notin {"runtime", "load"} =>
           /\ apply.bundle \in Bundles
           /\ apply.facade = "wrapper" => apply.bundle = Expected,
         stage \notin {"runtime", "load", "adoption"} => apply.bundle \in adopted,
         stage \in {"processor_identity", "source"} /\ apply.facade = "execute" => LoadedMode = "json",
         UNCHANGED <<inputs, canceled, srcVars, procVars>>
  PROVE  Inv'
<1>1. /\ UNCHANGED <<bundleFile, adopted, srcCall, procCall>>
      /\ apply' = [apply EXCEPT !.stage = stage]
      /\ apply'.stage = stage /\ stage # "done" /\ apply'.result = apply.result
      /\ apply'.facade = apply.facade /\ apply'.bundle = apply.bundle
      /\ srcCall.stage = "idle" /\ procCall.stage = "idle" /\ apply.result = Open
  BY DEF Goto, inputs, srcVars, procVars, Inv, AppInv, Shaped, Staged, BeforeSource
<1>2. Shaped'
  BY <1>1 DEF Inv, AppInv, Shaped, Stages, BeforeSource
<1>3. Staged' /\ Handed' /\ Answered'
  BY <1>1 DEF Staged, Handed, Answered, BeforeSource, HandoverStages
<1>4. Authorized'
  BY <1>1 DEF Authorized, LoadedMode
<1>5. QED BY <1>2, <1>3, <1>4, RunnersKeep DEF Inv, AppInv

LEMMA DecideKeeps ==
  ASSUME Inv, Decide
  PROVE  Inv'
<1>0. UNCHANGED <<inputs, canceled, srcVars, procVars>>
  BY DEF Decide, CheckRuntime, Load, InspectAdoption, IdentifySource, BuildPlan, IdentifyProcessor
<1>1. CASE CheckRuntime
  <2>1. apply.stage = "runtime" /\ apply.stage \in BeforeSource
    BY <1>1 DEF CheckRuntime, At, BeforeSource
  <2>2. ASSUME NEW code \in PlanCodes, Refuse(code) PROVE Inv'
    BY <1>0, <2>1, <2>2, CodesAreKnown, FailEarlyKeeps DEF Refuse
  <2>3. CASE Goto("load")
    BY <1>0, <2>1, <2>3, GotoEarlyKeeps DEF BeforeSource
  <2>4. QED BY <1>1, <2>2, <2>3, CodesAreKnown DEF CheckRuntime, PlanCodes
<1>2. CASE Load
  <2>1. apply.stage = "load" /\ apply.stage \in BeforeSource
    BY <1>2 DEF Load, At, BeforeSource
  <2>2. ASSUME NEW code \in PlanCodes, NEW retry \in BOOLEAN, Fail("plan", code, retry) PROVE Inv'
    BY <1>0, <2>1, <2>2, CodesAreKnown, FailEarlyKeeps
  <2>3. CASE /\ bundleFile \in Bundles
             /\ apply.facade = "wrapper" => bundleFile = Expected
             /\ apply' = [apply EXCEPT !.stage = "adoption", !.bundle = bundleFile]
    <3>1. /\ UNCHANGED <<bundleFile, adopted, srcCall, procCall>>
          /\ apply'.stage = "adoption" /\ apply'.result = apply.result
          /\ apply'.facade = apply.facade /\ apply'.bundle = bundleFile
          /\ srcCall.stage = "idle" /\ procCall.stage = "idle" /\ apply.result = Open
      BY <1>0, <2>1, <2>3 DEF inputs, srcVars, procVars, Inv, AppInv, Shaped, Staged, BeforeSource
    <3>2. Shaped'
      BY <2>3, <3>1 DEF Inv, AppInv, Shaped, Stages
    <3>3. Staged' /\ Handed' /\ Answered' /\ Authorized'
      BY <2>3, <3>1 DEF Staged, Handed, Answered, Authorized, BeforeSource, HandoverStages
    <3>4. QED BY <1>0, <3>2, <3>3, RunnersKeep DEF Inv, AppInv
  <2>4. QED BY <1>2, <2>2, <2>3, CodesAreKnown DEF Load, Refuse, PlanCodes
<1>3. CASE InspectAdoption
  <2>1. apply.stage = "adoption" /\ apply.stage \in BeforeSource
    BY <1>3 DEF InspectAdoption, At, BeforeSource
  <2>2. ASSUME NEW code \in PlanCodes, Refuse(code) PROVE Inv'
    BY <1>0, <2>1, <2>2, CodesAreKnown, FailEarlyKeeps DEF Refuse
  <2>3. CASE apply.bundle \in adopted /\ Goto("identity")
    BY <1>0, <2>1, <2>3, GotoEarlyKeeps DEF BeforeSource, Inv, AppInv, Authorized
  <2>4. QED BY <1>3, <2>2, <2>3, CodesAreKnown DEF InspectAdoption, PlanCodes
<1>4. CASE IdentifySource
  <2>1. apply.stage = "identity" /\ apply.stage \in BeforeSource
    BY <1>4 DEF IdentifySource, At, BeforeSource
  <2>2. ASSUME NEW who \in {"plan", "source"}, NEW code \in Codes, NEW retry \in BOOLEAN, Fail(who, code, retry)
        PROVE  Inv'
    BY <1>0, <2>1, <2>2, FailEarlyKeeps
  <2>3. CASE Goto("plan")
    BY <1>0, <2>1, <2>3, GotoEarlyKeeps DEF BeforeSource, Inv, AppInv, Authorized
  <2>4. QED BY <1>4, <2>2, <2>3, CodesAreKnown DEF IdentifySource, Refuse, PlanCodes
<1>5. CASE BuildPlan
  <2>1. apply.stage = "plan" /\ apply.stage \in BeforeSource
    BY <1>5 DEF BuildPlan, At, BeforeSource
  <2>2. ASSUME NEW code \in PlanCodes, Refuse(code) PROVE Inv'
    BY <1>0, <2>1, <2>2, CodesAreKnown, FailEarlyKeeps DEF Refuse
  <2>3. CASE /\ apply.facade = "execute" => LoadedMode = "json"
             /\ \E stage \in {"processor_identity", "source"} : Goto(stage)
    BY <1>0, <2>1, <2>3, GotoEarlyKeeps DEF BeforeSource, Inv, AppInv, Authorized
  <2>4. QED BY <1>5, <2>2, <2>3, CodesAreKnown DEF BuildPlan, PlanCodes
<1>6. CASE IdentifyProcessor
  <2>1. apply.stage = "processor_identity" /\ apply.stage \in BeforeSource
    BY <1>6 DEF IdentifyProcessor, At, BeforeSource
  <2>2. ASSUME NEW who \in {"plan", "processor"}, NEW code \in Codes, NEW retry \in BOOLEAN, Fail(who, code, retry)
        PROVE  Inv'
    BY <1>0, <2>1, <2>2, FailEarlyKeeps
  <2>3. CASE Goto("source")
    BY <1>0, <2>1, <2>3, GotoEarlyKeeps DEF BeforeSource, Inv, AppInv, Authorized
  <2>4. QED BY <1>6, <2>2, <2>3, CodesAreKnown DEF IdentifyProcessor, Refuse, PlanCodes
<1>7. QED BY <1>1, <1>2, <1>3, <1>4, <1>5, <1>6 DEF Decide
----------------------------------------------------------------------------
(* Steps that drive the attempts.                                           *)

(* classifyProcess invites a retry only for an attempt that started nothing. *)
LEMMA SourceFaultIsAnswer ==
  ASSUME Inv, ~ProcessorStarted
  PROVE  SourceFault \in Results /\ Justified(SourceFault)
<1>1. CASE srcCall.ran = NotRun /\ srcCall.fault \in DOMAIN BeforeSourceStart
  <2>1. srcCall.fault \in Codes
    BY <1>1 DEF Codes
  <2>2. BeforeSourceStart[srcCall.fault] \in BOOLEAN
    <3>1. srcCall.fault \in {"identity_changed", "identity_unavailable", "unsafe_executable", "executable_not_found",
                            "process_start_failed"}
      BY <1>1 DEF BeforeSourceStart
    <3>2. /\ BeforeSourceStart["identity_changed"] = FALSE
          /\ BeforeSourceStart["identity_unavailable"] = TRUE
          /\ BeforeSourceStart["unsafe_executable"] = FALSE
          /\ BeforeSourceStart["executable_not_found"] = FALSE
          /\ BeforeSourceStart["process_start_failed"] = TRUE
      BY DEF BeforeSourceStart
    <3>3. QED BY <3>1, <3>2, Zenon
  <2>3. ~SourceStarted
    BY <1>1 DEF SourceStarted
  <2>4. SourceFault = Faulted("source", srcCall.fault, BeforeSourceStart[srcCall.fault])
    BY <1>1 DEF SourceFault
  <2>5. QED BY <2>1, <2>2, <2>3, <2>4, FaultIsAnswer
<1>2. CASE srcCall.ran # NotRun /\ srcCall.fault \in AfterSourceStart
  <2>1. srcCall.fault \in Codes
    BY <1>2 DEF Codes
  <2>2. SourceFault = Faulted("source", srcCall.fault, FALSE)
    BY <1>2 DEF SourceFault
  <2>3. QED BY <2>1, <2>2, FaultIsAnswer
<1>3. CASE /\ ~(srcCall.ran = NotRun /\ srcCall.fault \in DOMAIN BeforeSourceStart)
           /\ ~(srcCall.ran # NotRun /\ srcCall.fault \in AfterSourceStart)
  <2>1. SourceFault = Faulted("source", "unclassified_execution_outcome", FALSE)
    BY <1>3 DEF SourceFault, Unclassified
  <2>2. QED BY <2>1, FaultIsAnswer, CodesAreKnown DEF OutputCodes
<1>4. QED BY <1>1, <1>2, <1>3

(* safeProcessorFault never invites a retry. *)
LEMMA ProcessorFaultIsAnswer == ProcessorFault \in Results /\ Justified(ProcessorFault)
<1>1. CASE procCall.ran = NotRun /\ procCall.fault \in BeforeProcessorStart
  <2>1. AfterSource(procCall.fault) \in Codes
    BY <1>1, CodesAreKnown DEF AfterSource, AfterSourceCodes, Codes
  <2>2. ProcessorFault = Faulted("processor", AfterSource(procCall.fault), FALSE)
    BY <1>1 DEF ProcessorFault
  <2>3. QED BY <2>1, <2>2, FaultIsAnswer
<1>2. CASE procCall.ran # NotRun /\ procCall.fault \in AfterProcessorStart
  <2>1. procCall.fault \in Codes
    BY <1>2 DEF Codes
  <2>2. ProcessorFault = Faulted("processor", procCall.fault, FALSE)
    BY <1>2 DEF ProcessorFault
  <2>3. QED BY <2>1, <2>2, FaultIsAnswer
<1>3. CASE /\ ~(procCall.ran = NotRun /\ procCall.fault \in BeforeProcessorStart)
           /\ ~(procCall.ran # NotRun /\ procCall.fault \in AfterProcessorStart)
  <2>1. ProcessorFault = Faulted("processor", "unclassified_execution_outcome", FALSE)
    BY <1>3 DEF ProcessorFault, Unclassified
  <2>2. QED BY <2>1, FaultIsAnswer, CodesAreKnown DEF OutputCodes
<1>4. QED BY <1>1, <1>2, <1>3

LEMMA RunSourceKeeps ==
  ASSUME Inv, RunSource
  PROVE  Inv'
<1>1. apply.stage = "source" /\ UNCHANGED <<inputs, canceled, procVars>>
  BY DEF RunSource, At
<1>2. CASE canceled /\ Refuse("context") /\ UNCHANGED srcVars
  BY <1>1, <1>2, FailEarlyKeeps, CodesAreKnown DEF Refuse, BeforeSource, PlanCodes
<1>3. CASE ~canceled /\ Source!Call(SourceOf[apply.bundle]) /\ Goto("source_run")
  <2>1. /\ apply.bundle \in Bundles \cap adopted
        /\ apply.facade = "wrapper" => apply.bundle = Expected
        /\ apply.facade = "execute" => LoadedMode = "json"
        /\ procCall.stage = "idle" /\ apply.result = Open
        /\ SourceOf[apply.bundle] \in Images
    BY <1>1, BundleAssumption DEF Inv, AppInv, Authorized, Staged, BeforeSource
  <2>2. /\ UNCHANGED <<bundleFile, adopted, procCall>>
        /\ srcCall'.stage = "enter" /\ srcCall'.authority = SourceOf[apply.bundle]
        /\ apply' = [apply EXCEPT !.stage = "source_run"]
        /\ apply'.stage = "source_run" /\ apply'.result = apply.result
        /\ apply'.facade = apply.facade /\ apply'.bundle = apply.bundle
    BY <1>1, <1>3 DEF Source!Call, Source!NoCall, Goto, inputs, procVars, Inv, AppInv, Shaped
  <2>3. SP!RunnerInv'
    BY <1>3, <2>1, SourceIsRunner, ImageAssumption, SP!CallKeeps DEF Inv
  <2>4. PP!RunnerInv'
    BY <1>1, <1>3 DEF Source!Call, Inv, procVars, PP!RunnerInv, PP!TypeOK, PP!Phased, PP!Watched, PP!Rooted,
       PP!Unstopped, PP!Conventional
  <2>5. Shaped'
    BY <2>2 DEF Inv, AppInv, Shaped, Stages
  <2>6. Staged' /\ Authorized' /\ Handed' /\ Answered'
    BY <2>1, <2>2 DEF Staged, Authorized, Handed, Answered, LoadedMode, BeforeSource, HandoverStages
  <2>7. QED BY <2>3, <2>4, <2>5, <2>6 DEF Inv, AppInv
<1>4. QED BY <1>2, <1>3 DEF RunSource

(* What may be published, of attempts that ended well. *)
LEMMA OutputIsAnswer ==
  ASSUME NEW how \in Dispositions, NEW out \in SUBSET Outputs,
         srcCall.stage = "returned", Completed,
         procCall.stage # "idle" => procCall.fault = "none",
         how = "preserved_before" => ~Eligible,
         how # "optimized" => out = srcCall.out,
         how = "optimized" => out = {Summary[o] : o \in srcCall.out}
  PROVE  Published(how, out) \in Results /\ Justified(Published(how, out))
BY DEF Published, Results, Justified

(* An attempt without a fault ran the program to a clean exit. *)
LEMMA CleanIsCompleted ==
  ASSUME Inv, srcCall.stage = "returned", srcCall.fault = "none"
  PROVE  Completed
BY ImageAssumption DEF Inv, SP!RunnerInv, SP!Phased, SP!Conventional, SP!NoFault, SP!Files, Completed

LEMMA AwaitSourceKeeps ==
  ASSUME Inv, AwaitSource
  PROVE  Inv'
<1>1. /\ apply.stage = "source_run" /\ srcCall.stage = "returned" /\ procCall.stage = "idle"
      /\ ~ProcessorStarted /\ UNCHANGED <<inputs, canceled, srcVars, procVars>>
      /\ srcCall.out \in SUBSET Outputs
  BY RunnerFacts DEF AwaitSource, At, Inv, AppInv, Staged, ProcessorStarted, SP!RunnerInv, SP!TypeOK
<1>2. ASSUME NEW r \in Results, Justified(r), Return(r) PROVE Inv'
  BY <1>1, <1>2, ReturnKeeps
<1>3. SourceFault \in Results /\ Justified(SourceFault)
  BY <1>1, SourceFaultIsAnswer
<1>4. ASSUME NEW code \in OutputCodes
      PROVE  Faulted("source", code, FALSE) \in Results /\ Justified(Faulted("source", code, FALSE))
  BY <1>4, CodesAreKnown, FaultIsAnswer
<1>5. OutputCanceled \in Results /\ Justified(OutputCanceled)
  BY <1>4 DEF OutputCanceled, OutputCodes
<1>6. ASSUME NEW how \in Dispositions \ {"optimized"}, Completed, how = "preserved_before" => ~Eligible
      PROVE  Published(how, srcCall.out) \in Results /\ Justified(Published(how, srcCall.out))
  BY <1>1, <1>6, OutputIsAnswer
<1>7. CASE ReturnTransformed
  <2>1. CASE srcCall.fault # "none"
    BY <1>2, <1>3, <1>7, <2>1 DEF ReturnTransformed
  <2>2. CASE srcCall.fault = "none" /\ srcCall.complains
    BY <1>2, <1>4, <1>7, <2>2 DEF ReturnTransformed, OutputCodes
  <2>3. CASE srcCall.fault = "none" /\ ~srcCall.complains /\ canceled
    BY <1>2, <1>5, <1>7, <2>3 DEF ReturnTransformed
  <2>4. CASE srcCall.fault = "none" /\ ~srcCall.complains /\ ~canceled
    <3>1. Published("transformed", srcCall.out) \in Results /\ Justified(Published("transformed", srcCall.out))
      BY <1>1, <1>6, <2>4, CleanIsCompleted DEF Dispositions
    <3>2. /\ Faulted("source", "output_not_transformable", FALSE) \in Results
          /\ Justified(Faulted("source", "output_not_transformable", FALSE))
      BY <1>4 DEF OutputCodes
    <3>3. CASE srcCall.out \subseteq Parsable
      BY <1>2, <1>7, <2>4, <3>1, <3>3 DEF ReturnTransformed
    <3>4. CASE ~(srcCall.out \subseteq Parsable)
      BY <1>2, <1>7, <2>4, <3>2, <3>4 DEF ReturnTransformed
    <3>5. QED BY <3>3, <3>4
  <2>5. QED BY <2>1, <2>2, <2>3, <2>4
<1>8. CASE ReturnStream
  <2>1. CASE ~Completed
    BY <1>2, <1>3, <1>8, <2>1 DEF ReturnStream
  <2>2. CASE Completed /\ canceled
    BY <1>2, <1>5, <1>8, <2>2 DEF ReturnStream
  <2>3. CASE Completed /\ ~canceled
    <3>1. Published("stream", srcCall.out) \in Results /\ Justified(Published("stream", srcCall.out))
      BY <1>6, <2>3 DEF Dispositions
    <3>2. QED BY <1>2, <1>8, <2>3, <3>1 DEF ReturnStream
  <2>4. QED BY <2>1, <2>2, <2>3
<1>9. CASE ReturnUnprocessed
  <2>1. CASE ~Completed
    BY <1>2, <1>3, <1>9, <2>1 DEF ReturnUnprocessed
  <2>2. CASE Completed /\ canceled
    BY <1>2, <1>5, <1>9, <2>2 DEF ReturnUnprocessed
  <2>3. CASE Completed /\ ~canceled /\ ~Eligible
    <3>1. /\ Published("preserved_before", srcCall.out) \in Results
          /\ Justified(Published("preserved_before", srcCall.out))
      BY <1>6, <2>3 DEF Dispositions
    <3>2. QED BY <1>2, <1>9, <2>3, <3>1 DEF ReturnUnprocessed
  <2>4. CASE Completed /\ Eligible /\ Goto("reidentify") /\ LoadedMode = "optimizer"
    <3>1. Handover
      BY <1>1, <2>4 DEF Handover, Inv, AppInv, Authorized, Completed, Eligible, ExitedClean
    <3>2. /\ UNCHANGED <<bundleFile, adopted, srcCall, procCall>>
          /\ apply' = [apply EXCEPT !.stage = "reidentify"]
          /\ apply'.stage = "reidentify" /\ apply'.result = apply.result
          /\ apply'.facade = apply.facade /\ apply'.bundle = apply.bundle
      BY <1>1, <2>4 DEF Goto, inputs, srcVars, procVars, Inv, AppInv, Shaped
    <3>3. Shaped'
      BY <3>2 DEF Inv, AppInv, Shaped, Stages
    <3>4. Handover'
      BY <3>1, <3>2 DEF Handover, LoadedMode, Completed, Eligible, ExitedClean
    <3>5. Staged' /\ Authorized' /\ Handed' /\ Answered'
      BY <1>1, <3>2, <3>4 DEF Inv, AppInv, Staged, Authorized, Handed, Answered, LoadedMode, BeforeSource,
         HandoverStages
    <3>6. QED BY <1>1, <3>3, <3>5, RunnersKeep DEF Inv, AppInv
  <2>5. QED BY <1>9, <2>1, <2>2, <2>3, <2>4 DEF ReturnUnprocessed
<1>10. QED BY <1>7, <1>8, <1>9 DEF AwaitSource

(* Once the source's output is to be handed over, no fault invites a retry. *)
LEMMA FailLateKeeps ==
  ASSUME Inv, apply.stage \in {"reidentify", "processor"}, NEW code \in Codes,
         Fail("processor", code, FALSE), UNCHANGED <<inputs, canceled, srcVars, procVars>>
  PROVE  Inv'
<1>1. apply.stage # "done" /\ srcCall.stage = "returned" /\ procCall.stage = "idle"
  BY DEF Inv, AppInv, Staged, Handover, HandoverStages
<1>2. QED BY <1>1, FaultIsAnswer, ReturnKeeps DEF Fail

LEMMA ReidentifyKeeps ==
  ASSUME Inv, ReidentifyProcessor
  PROVE  Inv'
<1>1. apply.stage = "reidentify" /\ UNCHANGED <<inputs, canceled, srcVars, procVars>>
  BY DEF ReidentifyProcessor, At
<1>2. ASSUME NEW code \in Codes, Fail("processor", code, FALSE) PROVE Inv'
  BY <1>1, <1>2, FailLateKeeps
<1>3. CASE Goto("processor")
  <2>1. /\ UNCHANGED <<bundleFile, adopted, srcCall, procCall>>
        /\ apply' = [apply EXCEPT !.stage = "processor"]
        /\ apply'.stage = "processor" /\ apply'.result = apply.result
        /\ apply'.facade = apply.facade /\ apply'.bundle = apply.bundle
    BY <1>1, <1>3 DEF Goto, inputs, srcVars, procVars, Inv, AppInv, Shaped
  <2>2. Shaped'
    BY <2>1 DEF Inv, AppInv, Shaped, Stages
  <2>3. Handover'
    BY <1>1, <2>1 DEF Inv, AppInv, Staged, HandoverStages, Handover, LoadedMode, Completed, Eligible, ExitedClean
  <2>4. Staged' /\ Authorized' /\ Handed' /\ Answered'
    BY <1>1, <2>1, <2>3 DEF Inv, AppInv, Staged, Authorized, Handed, Answered, LoadedMode, BeforeSource,
       HandoverStages
  <2>5. QED BY <1>1, <2>2, <2>4, RunnersKeep DEF Inv, AppInv
<1>4. QED BY <1>2, <1>3, CodesAreKnown DEF ReidentifyProcessor, AfterSourceCodes

LEMMA RunProcessorKeeps ==
  ASSUME Inv, RunProcessor
  PROVE  Inv'
<1>1. apply.stage = "processor" /\ UNCHANGED <<inputs, canceled, srcVars>>
  BY DEF RunProcessor, At
<1>2. CASE canceled /\ Fail("processor", "execution_canceled", FALSE) /\ UNCHANGED procVars
  BY <1>1, <1>2, FailLateKeeps, CodesAreKnown
<1>3. CASE ~canceled /\ Processor!Call(ProcessorOf[apply.bundle]) /\ Goto("processor_run")
  <2>1. Handover /\ procCall.stage = "idle" /\ ProcessorOf[apply.bundle] \in Images /\ apply.result = Open
    BY <1>1, BundleAssumption DEF Inv, AppInv, Staged, HandoverStages, Handover
  <2>2. /\ UNCHANGED <<bundleFile, adopted, srcCall>>
        /\ procCall'.stage = "enter" /\ procCall'.authority = ProcessorOf[apply.bundle]
        /\ apply' = [apply EXCEPT !.stage = "processor_run"]
        /\ apply'.stage = "processor_run" /\ apply'.result = apply.result
        /\ apply'.facade = apply.facade /\ apply'.bundle = apply.bundle
    BY <1>1, <1>3 DEF Processor!Call, Processor!NoCall, Goto, inputs, srcVars, Inv, AppInv, Shaped
  <2>3. PP!RunnerInv'
    BY <1>3, <2>1, ProcessorIsRunner, ImageAssumption, PP!CallKeeps DEF Inv
  <2>4. SP!RunnerInv'
    BY <1>1, <1>3 DEF Processor!Call, Inv, srcVars, SP!RunnerInv, SP!TypeOK, SP!Phased, SP!Watched, SP!Rooted,
       SP!Unstopped, SP!Conventional
  <2>5. Shaped'
    BY <2>2 DEF Inv, AppInv, Shaped, Stages
  <2>6. Handover'
    BY <2>1, <2>2 DEF Handover, LoadedMode, Completed, Eligible, ExitedClean
  <2>7. Staged' /\ Authorized' /\ Handed' /\ Answered'
    BY <1>1, <2>1, <2>2, <2>6 DEF Inv, AppInv, Staged, Authorized, Handed, Answered, LoadedMode, BeforeSource,
       HandoverStages
  <2>8. QED BY <2>3, <2>4, <2>5, <2>7 DEF Inv, AppInv
<1>4. QED BY <1>2, <1>3 DEF RunProcessor

LEMMA AwaitProcessorKeeps ==
  ASSUME Inv, AwaitProcessor
  PROVE  Inv'
<1>1. /\ apply.stage = "processor_run" /\ procCall.stage = "returned"
      /\ srcCall.stage = "returned" /\ Completed
      /\ UNCHANGED <<inputs, canceled, srcVars, procVars>>
      /\ procCall.out \in SUBSET Outputs
  BY DEF AwaitProcessor, At, Inv, AppInv, Staged, HandoverStages, Handover, PP!RunnerInv, PP!TypeOK
<1>2. ASSUME NEW r \in Results, Justified(r), Return(r) PROVE Inv'
  BY <1>1, <1>2, ReturnKeeps
<1>3. ProcessorFault \in Results /\ Justified(ProcessorFault)
  BY ProcessorFaultIsAnswer
<1>4. ASSUME NEW code \in Codes
      PROVE  Faulted("processor", code, FALSE) \in Results /\ Justified(Faulted("processor", code, FALSE))
  BY <1>4, FaultIsAnswer
<1>5. CASE procCall.fault # "none"
  BY <1>2, <1>3, <1>5 DEF AwaitProcessor
<1>6. CASE procCall.fault = "none"
  <2>1. ASSUME procCall.out = srcCall.out
        PROVE  /\ Published("preserved_after", procCall.out) \in Results
               /\ Justified(Published("preserved_after", procCall.out))
    BY <1>1, <1>6, <2>1, OutputIsAnswer DEF Dispositions
  <2>2. ASSUME procCall.out = {Summary[o] : o \in srcCall.out}
        PROVE  /\ Published("optimized", procCall.out) \in Results
               /\ Justified(Published("optimized", procCall.out))
    BY <1>1, <1>6, <2>2, OutputIsAnswer DEF Dispositions
  <2>3. /\ Faulted("processor", "execution_canceled", FALSE) \in Results
        /\ Justified(Faulted("processor", "execution_canceled", FALSE))
        /\ Faulted("processor", "output_not_admitted", FALSE) \in Results
        /\ Justified(Faulted("processor", "output_not_admitted", FALSE))
    BY <1>4, CodesAreKnown DEF OutputCodes
  <2>4. \/ Return(Faulted("processor", "execution_canceled", FALSE))
        \/ Return(Faulted("processor", "output_not_admitted", FALSE))
        \/ procCall.out = srcCall.out /\ Return(Published("preserved_after", procCall.out))
        \/ /\ procCall.out = {Summary[o] : o \in srcCall.out}
           /\ Return(Published("optimized", procCall.out))
    BY <1>6 DEF AwaitProcessor
  <2>5. QED BY <1>2, <2>1, <2>2, <2>3, <2>4
<1>7. QED BY <1>5, <1>6
----------------------------------------------------------------------------
(* The world, and the specification.                                        *)

LEMMA WorldKeeps ==
  ASSUME Inv, World
  PROVE  Inv'
<1>1. CASE ReplaceBundle \/ Adopt
  <2>1. /\ UNCHANGED <<srcCall, procCall, apply>> /\ UNCHANGED <<canceled, srcVars, procVars>>
        /\ bundleFile' \in Bundles \cup {Gone}
        /\ adopted \subseteq adopted' /\ adopted' \subseteq Bundles
    BY <1>1 DEF ReplaceBundle, Adopt, srcVars, procVars, Inv, AppInv, Shaped
  <2>2. Handover' <=> Handover
    BY <2>1 DEF Handover, LoadedMode, Completed, Eligible, ExitedClean
  <2>3. Answered'
    BY <2>1 DEF Inv, AppInv, Answered, Justified, SourceStarted, ProcessorStarted, Completed, Eligible, ExitedClean
  <2>4. Shaped' /\ Staged' /\ Authorized' /\ Handed'
    BY <2>1, <2>2 DEF Inv, AppInv, Shaped, Staged, Authorized, Handed, LoadedMode, BeforeSource, HandoverStages
  <2>5. QED BY <2>1, <2>3, <2>4, RunnersKeep DEF Inv, AppInv
<1>2. CASE ReplaceSource \/ ReplaceProcessor \/ Cancel
  <2>1. UNCHANGED <<bundleFile, adopted, srcCall, procCall, apply>>
    BY <1>2 DEF ReplaceSource, ReplaceProcessor, Cancel, Source!Replace, Source!Cancel, Processor!Replace,
       inputs, srcVars, procVars
  <2>2. Handover' <=> Handover
    BY <2>1 DEF Handover, LoadedMode, Completed, Eligible, ExitedClean
  <2>3. Answered'
    BY <2>1 DEF Inv, AppInv, Answered, Justified, SourceStarted, ProcessorStarted, Completed, Eligible, ExitedClean
  <2>4. Shaped' /\ Staged' /\ Authorized' /\ Handed'
    BY <2>1, <2>2 DEF Inv, AppInv, Shaped, Staged, Authorized, Handed, LoadedMode, BeforeSource, HandoverStages
  <2>5. CASE ReplaceSource
    <3>1. SP!RunnerInv'
      BY <2>5, SourceIsRunner, ImageAssumption, SP!ReplaceKeeps DEF ReplaceSource, Inv
    <3>2. PP!RunnerInv'
      BY <2>5 DEF ReplaceSource, Source!Replace, Inv, procVars, PP!RunnerInv, PP!TypeOK, PP!Phased, PP!Watched,
         PP!Rooted, PP!Unstopped, PP!Conventional
    <3>3. QED BY <2>3, <2>4, <3>1, <3>2 DEF Inv, AppInv
  <2>6. CASE ReplaceProcessor
    <3>1. PP!RunnerInv'
      BY <2>6, ProcessorIsRunner, ImageAssumption, PP!ReplaceKeeps DEF ReplaceProcessor, Inv
    <3>2. SP!RunnerInv'
      BY <2>6 DEF ReplaceProcessor, Processor!Replace, Inv, srcVars, SP!RunnerInv, SP!TypeOK, SP!Phased, SP!Watched,
         SP!Rooted, SP!Unstopped, SP!Conventional
    <3>3. QED BY <2>3, <2>4, <3>1, <3>2 DEF Inv, AppInv
  <2>7. CASE Cancel
    <3>1. SP!RunnerInv'
      BY <2>7, SourceIsRunner, ImageAssumption, SP!CancelKeeps DEF Cancel, Inv
    <3>2. PP!RunnerInv'
      BY <2>7, ImageAssumption, PP!CancelKeeps DEF Cancel, Source!Cancel, PP!Cancel, Inv, procVars
    <3>3. QED BY <2>3, <2>4, <3>1, <3>2 DEF Inv, AppInv
  <2>8. QED BY <1>2, <2>5, <2>6, <2>7
<1>3. QED BY <1>1, <1>2 DEF World

LEMMA ApplyInit == Init => Inv
<1> SUFFICES ASSUME Init PROVE Inv
  OBVIOUS
<1>1. SP!RunnerInv
  BY SP!RunnerInit, SourceIsRunner, ImageAssumption DEF Init, SP!Init, SP!Files
<1>2. PP!RunnerInv
  BY PP!RunnerInit, ProcessorIsRunner, ImageAssumption DEF Init, PP!Init, PP!Files
<1>3. PICK f \in Facades :
        apply = [facade |-> f, stage |-> IF f = "wrapper" THEN "runtime" ELSE "load",
                 bundle |-> Gone, result |-> Open]
  BY DEF Init
<1>4. srcCall.stage = "idle" /\ procCall.stage = "idle"
  BY DEF Init, Source!NoCall, Processor!NoCall
<1>5. Shaped
  BY <1>3 DEF Init, Shaped, Stages, Results, Facades
<1>6. Staged /\ Authorized /\ Handed /\ Answered
  BY <1>3, <1>4 DEF Staged, Authorized, Handed, Answered, BeforeSource, HandoverStages
<1>7. QED BY <1>1, <1>2, <1>5, <1>6 DEF Inv, AppInv

LEMMA ApplyNext == Inv /\ [Next]_vars => Inv'
<1> SUFFICES ASSUME Inv, [Next]_vars PROVE Inv'
  OBVIOUS
<1>1. CASE Decide
  BY <1>1, DecideKeeps
<1>2. CASE Drive
  BY <1>2, RunSourceKeeps, AwaitSourceKeeps, ReidentifyKeeps, RunProcessorKeeps, AwaitProcessorKeeps DEF Drive
<1>3. CASE SourceStep
  BY <1>3, SourceStepKeeps
<1>4. CASE ProcessorStep
  BY <1>4, ProcessorStepKeeps
<1>5. CASE World
  BY <1>5, WorldKeeps
<1>6. CASE UNCHANGED vars
  <2>1. UNCHANGED <<bundleFile, adopted, srcCall, procCall, apply>> /\ UNCHANGED <<canceled, srcVars, procVars>>
    BY <1>6 DEF vars, srcVars, procVars
  <2>2. Handover' <=> Handover
    BY <2>1 DEF Handover, LoadedMode, Completed, Eligible, ExitedClean
  <2>3. Answered'
    BY <2>1 DEF Inv, AppInv, Answered, Justified, SourceStarted, ProcessorStarted, Completed, Eligible, ExitedClean
  <2>4. Shaped' /\ Staged' /\ Authorized' /\ Handed'
    BY <2>1, <2>2 DEF Inv, AppInv, Shaped, Staged, Authorized, Handed, LoadedMode, BeforeSource, HandoverStages
  <2>5. QED BY <2>1, <2>3, <2>4, RunnersKeep DEF Inv, AppInv
<1>7. QED BY <1>1, <1>2, <1>3, <1>4, <1>5, <1>6 DEF Next

(* Both attempts and the application keep their invariant. *)
THEOREM ApplySafe == Spec => []Inv
BY ApplyInit, ApplyNext, PTL DEF Spec

(* Every state of the application is well-formed, and a bundle is loaded in
   every stage that uses one. *)
THEOREM ApplyTypeCorrect == Spec => []TypeOK
<1>1. Inv => TypeOK
  <2> SUFFICES ASSUME Inv PROVE TypeOK
    OBVIOUS
  <2>1. SP!TypeOK /\ PP!TypeOK
    BY DEF Inv, SP!RunnerInv, PP!RunnerInv
  <2>2. Source!TypeOK
    BY <2>1 DEF SP!TypeOK, SP!Files, SP!Stages, SP!Endings, SP!NoCall, SP!NoFault, SP!Streams, SP!Faults,
       SP!EarlyFaults, SP!LateFaults, Source!TypeOK, Source!Files, Source!Stages, Source!Endings, Source!NoCall,
       Source!NoFault, Source!Streams, Source!Faults, Source!EarlyFaults, Source!LateFaults
  <2>3. Processor!TypeOK
    BY <2>1 DEF PP!TypeOK, PP!Files, PP!Stages, PP!Endings, PP!NoCall, PP!NoFault, PP!Streams, PP!Faults,
       PP!EarlyFaults, PP!LateFaults, Processor!TypeOK, Processor!Files, Processor!Stages, Processor!Endings,
       Processor!NoCall, Processor!NoFault, Processor!Streams, Processor!Faults, Processor!EarlyFaults,
       Processor!LateFaults
  <2>4. QED BY <2>2, <2>3 DEF TypeOK, Inv, AppInv, Shaped, Authorized
<1>2. QED BY <1>1, ApplySafe, PTL

LEMMA WhatStarted ==
  ASSUME Inv
  PROVE  /\ SourceStarted => srcCall.stage # "idle"
         /\ ProcessorStarted => procCall.stage # "idle" /\ Handover
         /\ IsFault \/ IsOutput => apply.stage = "done"
BY RunnerFacts DEF SourceStarted, ProcessorStarted, IsFault, IsOutput, Open, Inv, AppInv, Handed, Staged

(* The source starts only for an adopted bundle the façade admits, and the
   processor only on the eligible output of a clean source. *)
THEOREM AuthorizedSafe == Spec => []StartsAreAuthorized
<1>1. Inv => StartsAreAuthorized
  BY WhatStarted DEF StartsAreAuthorized, Inv, AppInv, Authorized, Handed, Handover
<1>2. QED BY <1>1, ApplySafe, PTL

(* A fault that invites a retry is returned only when nothing was started. *)
THEOREM ApplyRetrySafe == Spec => []RetryMeansNothingStarted
<1>1. Inv => RetryMeansNothingStarted
  BY WhatStarted DEF RetryMeansNothingStarted, IsFault, Inv, AppInv, Answered, Justified
<1>2. QED BY <1>1, ApplySafe, PTL

(* What a processor that ended without a fault leaves behind. *)
LEMMA ProcessorEnded ==
  ASSUME Inv, procCall.stage = "returned", procCall.fault = "none"
  PROVE  ProcessorStarted /\ procCall.root = "none"
BY ImageAssumption DEF Inv, PP!RunnerInv, PP!TypeOK, PP!Phased, PP!Rooted, PP!Conventional, PP!NoFault, PP!Files,
   ProcessorStarted

(* Bytes are published only from attempts that ended conventionally; a failed
   processor never falls back to the source's output. *)
THEOREM NoFallbackSafe == Spec => []NoFallback
<1>1. Inv => NoFallback
  <2> SUFFICES ASSUME Inv, IsOutput PROVE NoFallback
    BY DEF NoFallback
  <2>1. apply.stage = "done" /\ Justified(apply.result) /\ apply.result.kind = "output"
    BY WhatStarted DEF IsOutput, Inv, AppInv, Answered
  <2>2. procCall.stage \in {"idle", "returned"}
    BY <2>1 DEF Inv, AppInv, Staged
  <2>3. procCall.stage # "idle" => procCall.fault = "none" /\ ProcessorStarted
    BY <2>1, <2>2, ProcessorEnded DEF Justified
  <2>4. QED BY <2>1, <2>3 DEF NoFallback, Justified
<1>2. QED BY <1>1, ApplySafe, PTL

(* What is published is the source's output or the summary computed from it. *)
THEOREM OwedSafe == Spec => []PublishedOutputIsOwed
<1>1. Inv => PublishedOutputIsOwed
  BY WhatStarted DEF PublishedOutputIsOwed, IsOutput, Inv, AppInv, Answered, Justified
<1>2. QED BY <1>1, ApplySafe, PTL

(* However often the executables may be replaced, one replacement alone never
   gets the other program's output published. *)
THEOREM ApplySwapSafe == Spec => []OneSwapNeverPublished
<1>1. Inv => OneSwapNeverPublished
  <2> SUFFICES ASSUME Inv, IsOutput PROVE OneSwapNeverPublished
    BY DEF OneSwapNeverPublished
  <2>1. apply.stage = "done" /\ Justified(apply.result) /\ apply.result.kind = "output"
    BY WhatStarted DEF IsOutput, Inv, AppInv, Answered
  <2>2. srcCall.ran # srcCall.authority => srcSwaps >= 2
    BY <2>1 DEF Justified, Completed, Inv, SP!RunnerInv, SP!Watched, SP!Conventional, SP!NoFault
  <2>3. ProcessorStarted => procCall.stage = "returned" /\ procCall.fault = "none"
    BY <2>1, WhatStarted DEF Justified, Inv, AppInv, Staged
  <2>4. ProcessorStarted /\ procCall.ran # procCall.authority => procSwaps >= 2
    BY <2>3 DEF Inv, PP!RunnerInv, PP!Watched, PP!Conventional, PP!NoFault
  <2>5. QED BY <2>2, <2>4 DEF OneSwapNeverPublished
<1>2. QED BY <1>1, ApplySafe, PTL

(* Published output never coexists with an isolated root left behind. *)
THEOREM CleanSafe == Spec => []PublishedIsClean
<1>1. Inv => PublishedIsClean
  <2> SUFFICES ASSUME Inv, IsOutput PROVE PublishedIsClean
    BY DEF PublishedIsClean
  <2>1. apply.stage = "done" /\ Justified(apply.result) /\ apply.result.kind = "output"
    BY WhatStarted DEF IsOutput, Inv, AppInv, Answered
  <2>2. CASE procCall.stage = "idle"
    BY <2>2 DEF PublishedIsClean, Inv, PP!RunnerInv, PP!Rooted
  <2>3. CASE procCall.stage # "idle"
    BY <2>1, <2>3, ProcessorEnded DEF PublishedIsClean, Justified, Inv, AppInv, Staged
  <2>4. QED BY <2>2, <2>3
<1>2. QED BY <1>1, ApplySafe, PTL

----------------------------------------------------------------------------
(* The refinement.                                                          *)

(* The answer is given once, after the last attempt. *)
LEMMA AnswerImplements ==
  ASSUME Inv, Inv', apply.stage # "done", apply'.stage = "done", UNCHANGED <<srcCall, procCall>>
  PROVE  Contract!Next
<1>1. /\ Answer = "none" /\ StartedPrograms' = StartedPrograms
      /\ SourceStarted' = SourceStarted /\ ProcessorStarted' = ProcessorStarted
  BY DEF Answer, At, StartedPrograms, SourceStarted, ProcessorStarted
<1>2. Justified(apply.result)'
  BY DEF Inv, AppInv, Answered
<1>3. ProcessorStarted => SourceStarted
  BY WhatStarted DEF Handover, Completed, SourceStarted
<1>4. SourceStarted <=> StartedPrograms # {}
  BY <1>3 DEF StartedPrograms
<1>5. CASE IsOutput'
  <2>1. Answer' = "published" /\ SourceStarted
    BY <1>1, <1>2, <1>5 DEF Answer, At, Justified, IsOutput, Completed, SourceStarted
  <2>2. QED BY <1>1, <1>4, <2>1 DEF Contract!Next, Contract!Publish
<1>6. CASE ~IsOutput' /\ apply'.result.retry
  <2>1. Answer' = "retryable" /\ ~SourceStarted
    BY <1>1, <1>2, <1>6 DEF Answer, At, Justified, IsOutput
  <2>2. QED BY <1>1, <1>4, <2>1 DEF Contract!Next, Contract!Refuse
<1>7. CASE ~IsOutput' /\ ~apply'.result.retry /\ SourceStarted
  <2>1. Answer' = "uncertain"
    BY <1>1, <1>7 DEF Answer, At
  <2>2. QED BY <1>1, <1>4, <1>7, <2>1 DEF Contract!Next, Contract!GiveUp
<1>8. CASE ~IsOutput' /\ ~apply'.result.retry /\ ~SourceStarted
  <2>1. Answer' = "refused"
    BY <1>1, <1>8 DEF Answer, At
  <2>2. QED BY <1>1, <1>4, <1>8, <2>1 DEF Contract!Next, Contract!Refuse
<1>9. QED BY <1>5, <1>6, <1>7, <1>8

(* A step that starts nothing and answers nothing is a stutter. *)
LEMMA SilentImplements ==
  ASSUME apply.stage # "done", apply'.stage # "done",
         (srcCall.ran # NotRun) <=> (srcCall'.ran # NotRun),
         (procCall.ran # NotRun) <=> (procCall'.ran # NotRun)
  PROVE  UNCHANGED Contract!vars
BY DEF Contract!vars, Answer, At, StartedPrograms, SourceStarted, ProcessorStarted

LEMMA RunnerImplements ==
  ASSUME Inv, SourceStep \/ ProcessorStep
  PROVE  [Contract!Next]_(Contract!vars)
<1>1. CASE SourceStep
  <2>1. /\ apply.stage = "source_run" /\ UNCHANGED <<apply, procCall>> /\ ~ProcessorStarted
        /\ srcCall.ran # NotRun => srcCall'.ran = srcCall.ran
    BY <1>1, SourceStepMoves, RunnerFacts DEF procVars, ProcessorStarted
  <2>2. CASE srcCall.ran = NotRun /\ srcCall'.ran # NotRun
    BY <2>1, <2>2 DEF Contract!Next, Contract!StartSource, Answer, At, StartedPrograms, SourceStarted,
       ProcessorStarted
  <2>3. CASE (srcCall.ran # NotRun) <=> (srcCall'.ran # NotRun)
    BY <2>1, <2>3, SilentImplements
  <2>4. QED BY <2>1, <2>2, <2>3
<1>2. CASE ProcessorStep
  <2>1. /\ apply.stage = "processor_run" /\ UNCHANGED <<apply, srcCall>> /\ SourceStarted
        /\ procCall.ran # NotRun => procCall'.ran = procCall.ran
    BY <1>2, ProcessorStepMoves DEF srcVars, SourceStarted, Inv, AppInv, Staged, HandoverStages, Handover, Completed
  <2>2. CASE procCall.ran = NotRun /\ procCall'.ran # NotRun
    BY <2>1, <2>2 DEF Contract!Next, Contract!StartProcessor, Answer, At, StartedPrograms, SourceStarted,
       ProcessorStarted
  <2>3. CASE (procCall.ran # NotRun) <=> (procCall'.ran # NotRun)
    BY <2>1, <2>3, SilentImplements
  <2>4. QED BY <2>1, <2>2, <2>3
<1>3. QED BY <1>1, <1>2

LEMMA DriveImplements ==
  ASSUME Inv, Inv', Decide \/ Drive
  PROVE  [Contract!Next]_(Contract!vars)
<1>1. /\ apply.stage # "done"
      /\ UNCHANGED <<srcCall, procCall>> \/ RunSource \/ RunProcessor
  BY DEF Decide, CheckRuntime, Load, InspectAdoption, IdentifySource, BuildPlan, IdentifyProcessor, Drive,
     AwaitSource, ReidentifyProcessor, AwaitProcessor, RunSource, RunProcessor, At, srcVars, procVars
<1>2. CASE UNCHANGED <<srcCall, procCall>>
  BY <1>1, <1>2, AnswerImplements, SilentImplements
<1>3. CASE RunSource /\ ~UNCHANGED <<srcCall, procCall>>
  <2>1. /\ apply'.stage = "source_run" /\ UNCHANGED procCall
        /\ srcCall.ran = NotRun /\ srcCall'.ran = NotRun
    BY <1>3, RunnerFacts DEF RunSource, Goto, Source!Call, Source!At, Source!NoCall, srcVars, procVars, Inv, AppInv,
       Shaped
  <2>2. QED BY <1>1, <2>1, SilentImplements
<1>4. CASE RunProcessor /\ ~UNCHANGED <<srcCall, procCall>>
  <2>1. /\ apply'.stage = "processor_run" /\ UNCHANGED srcCall
        /\ procCall.ran = NotRun /\ procCall'.ran = NotRun
    BY <1>4, RunnerFacts DEF RunProcessor, Goto, Processor!Call, Processor!At, Processor!NoCall, srcVars, procVars,
       Inv, AppInv, Shaped
  <2>2. QED BY <1>1, <2>1, SilentImplements
<1>5. QED BY <1>1, <1>2, <1>3, <1>4

LEMMA WorldImplements ==
  ASSUME UNCHANGED <<srcCall, procCall, apply>>
  PROVE  UNCHANGED Contract!vars
BY DEF Contract!vars, Answer, At, IsOutput, StartedPrograms, SourceStarted, ProcessorStarted

(* Every application of a bundle keeps the contract: one answer, the source
   before the processor, nothing started after the answer. *)
THEOREM ApplyImplementsContract == Spec => ImplementsContract
<1>1. Init => Contract!Init
  BY DEF Init, Contract!Init, StartedPrograms, Answer, At, SourceStarted, ProcessorStarted, Source!NoCall,
     Processor!NoCall
<1>2. Inv /\ Inv' /\ [Next]_vars => [Contract!Next]_(Contract!vars)
  <2> SUFFICES ASSUME Inv, Inv', [Next]_vars PROVE [Contract!Next]_(Contract!vars)
    OBVIOUS
  <2>1. CASE Decide \/ Drive
    BY <2>1, DriveImplements
  <2>2. CASE SourceStep \/ ProcessorStep
    BY <2>2, RunnerImplements
  <2>3. CASE World \/ UNCHANGED vars
    BY <2>3, WorldImplements DEF World, ReplaceBundle, Adopt, ReplaceSource, ReplaceProcessor, Cancel,
       Source!Replace, Source!Cancel, Processor!Replace, vars, srcVars, procVars
  <2>4. QED BY <2>1, <2>2, <2>3 DEF Next
<1>3. QED BY <1>1, <1>2, ApplySafe, PTL DEF Spec, ImplementsContract, Contract!Spec
=============================================================================
