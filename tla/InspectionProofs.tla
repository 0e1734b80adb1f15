--------------------------- MODULE InspectionProofs ---------------------------
(***************************************************************************)
(* Theorems about the inspection of an executable (Inspection) and about    *)
(* the optimizer next to it (Optimizer), for any executables, outputs,      *)
(* tests and packages.                                                      *)
(*                                                                         *)
(* Every probe is an attempt of the runner, so that the invariant of        *)
(* ProcessRunnerProofs holds of it; an answered attempt is forgotten, and   *)
(* Gathered says what the inspection keeps of those it has read.  The       *)
(* theorems about the summary need what the analyzer computes of a document *)
(* of any length: the last part proves it by induction over its records.    *)
(***************************************************************************)
EXTENDS Optimizer, ProcessRunnerProofs, NaturalSets

Codes == Faults \cup {"operation_canceled", "internal_error", "inspection_failed", "unsupported_version",
                      "invalid_evidence", "unsupported_artifact"}

InspectionType ==
  inspection \in [adapter : {"none", "github-cli", "go-cli", "rtk"},
                  step : {"idle", "identify", "probe", "conclude", "done"}, probe : Nat,
                  identity : Images \cup {Unbound}, ran : SUBSET Files,
                  answer : [kind : {"open", "fault", "evidence"}, code : Codes, retry : BOOLEAN]]

(* The evidence so far is of the identity it names, but for an image that   *)
(* two replacements brought in and took away.                              *)
Gathered ==
  /\ inspection.step \in {"idle", "identify"} => inspection.ran = {}
  /\ inspection.step = "conclude" \/ inspection.answer.kind = "evidence" => inspection.ran # {}
  /\ inspection.ran # {} => inspection.identity \in Images
  /\ \A file \in inspection.ran : file # inspection.identity => swaps >= 2

InspectionInv == RunnerInv /\ InspectionType /\ Gathered

----------------------------------------------------------------------------
LEMMA InspectionStarts == InspectionInit => InspectionInv
<1> SUFFICES ASSUME InspectionInit PROVE InspectionInv
  OBVIOUS
<1>1. RunnerInv
  BY RunnerInit DEF InspectionInit
<1>2. InspectionType /\ Gathered
  BY DEF InspectionInit, NoInspection, Open, InspectionType, Gathered, Codes, Faults, NoFault
<1> QED
  BY <1>1, <1>2 DEF InspectionInv

(* The runner, the user or the caller takes a step of its own. *)
LEMMA RunnerStepKeeps ==
  ASSUME InspectionInv, [Next]_vars, swaps' >= swaps, UNCHANGED inspection
  PROVE  InspectionInv'
<1>1. RunnerInv'
  BY RunnerNext DEF InspectionInv
<1>2. swaps \in Nat /\ swaps' \in Nat
  BY <1>1, SwapsAssumption DEF InspectionInv, RunnerInv, TypeOK
<1>3. InspectionType' /\ Gathered'
  BY <1>2 DEF InspectionInv, InspectionType, Gathered
<1> QED
  BY <1>1, <1>3 DEF InspectionInv

(* A step of the adapter that keeps what it has gathered. *)
LEMMA AdapterStepKeeps ==
  ASSUME InspectionInv, RunnerInv', InspectionType', UNCHANGED swaps,
         inspection'.ran = inspection.ran, inspection'.identity = inspection.identity,
         inspection'.step \in {"idle", "identify"} => inspection.step \in {"idle", "identify"},
         inspection'.step = "conclude" \/ inspection'.answer.kind = "evidence" =>
           inspection.step = "conclude" \/ inspection.answer.kind = "evidence"
  PROVE  InspectionInv'
BY DEF InspectionInv, Gathered

LEMMA BeginKeeps ==
  ASSUME InspectionInv, NEW adapter \in Adapters, Begin(adapter)
  PROVE  InspectionInv'
<1>1. RunnerInv'
  BY RunnerNext DEF Begin, InspectionInv, vars
<1>2. adapter \in {"github-cli", "go-cli", "rtk"}
  BY DEF Adapters
<1>3. InspectionType' /\ inspection'.ran = {} /\ inspection'.step \in {"done", "probe", "identify"}
      /\ inspection'.answer.kind # "evidence"
  <2>1. NoInspection = [adapter |-> "none", step |-> "idle", probe |-> 0, identity |-> Unbound, ran |-> {},
                        answer |-> [kind |-> "open", code |-> NoFault, retry |-> FALSE]]
    BY DEF NoInspection, Open
  <2>2. NoFault \in Codes /\ "operation_canceled" \in Codes
    BY DEF Codes, Faults
  <2>3. CASE inspection' = [NoInspection EXCEPT !.step = "done",
                              !.answer = [kind |-> "fault", code |-> "operation_canceled", retry |-> TRUE]]
    BY <2>1, <2>2, <2>3 DEF InspectionType
  <2>4. CASE inspection' = [NoInspection EXCEPT !.adapter = adapter, !.probe = 1,
                              !.step = IF Role = "source" THEN "probe" ELSE "identify"]
    BY <1>2, <2>1, <2>2, <2>4 DEF InspectionType
  <2> QED
    BY <2>3, <2>4 DEF Begin
<1>4. Gathered'
  BY <1>3 DEF Gathered
<1> QED
  BY <1>1, <1>3, <1>4 DEF InspectionInv

LEMMA FaultIs ==
  ASSUME InspectionType, NEW code \in Codes, NEW retry \in BOOLEAN, Answer(code, retry)
  PROVE  /\ InspectionType' /\ inspection'.ran = inspection.ran /\ inspection'.identity = inspection.identity
         /\ inspection'.step = "done" /\ inspection'.answer.kind = "fault"
<1>1. [kind |-> "fault", code |-> code, retry |-> retry] \in
        [kind : {"open", "fault", "evidence"}, code : Codes, retry : BOOLEAN]
  BY Zenon
<1> QED
  BY <1>1 DEF Answer, InspectionType

LEMMA FaultKeeps ==
  ASSUME InspectionInv, RunnerInv', UNCHANGED swaps,
         NEW code \in Codes, NEW retry \in BOOLEAN, Answer(code, retry)
  PROVE  InspectionInv'
BY FaultIs, AdapterStepKeeps DEF InspectionInv

(* The attempt that was read is forgotten. *)
LEMMA ForgetKeeps ==
  ASSUME RunnerInv, call' = NoCall, UNCHANGED <<image, swaps, canceled>>
  PROVE  RunnerInv'
<1>1. TypeOK'
  <2>1. NoCall \in [stage : Stages, authority : Images \cup {Unbound}, ran : Files \cup {NotRun},
                    ending : Endings \cup {NoCall.ending}, out : SUBSET Outputs, complains : BOOLEAN,
                    over : SUBSET Streams, expired : BOOLEAN, interrupted : BOOLEAN,
                    root : {"none", "made", "left"},
                    fault : Faults, retry : BOOLEAN]
    BY DEF NoCall, Stages, Faults, NoFault
  <2> QED
    BY <2>1 DEF RunnerInv, TypeOK
<1>2. Phased' /\ Watched' /\ Rooted' /\ Unstopped'
  BY DEF Phased, Watched, Rooted, Unstopped, NoCall, BeforeStart
<1> QED
  BY <1>1, <1>2 DEF RunnerInv

LEMMA ReadProbeKeeps ==
  ASSUME InspectionInv, ReadProbe
  PROVE  InspectionInv'
<1>1. call' = NoCall /\ UNCHANGED <<image, swaps, canceled>> /\ call.stage = "returned" /\ inspection.step = "probe"
  BY DEF ReadProbe, Evidence, At, During
<1>2. RunnerInv'
  BY <1>1, ForgetKeeps DEF InspectionInv
<1>3. call.fault \in Codes /\ call.retry \in BOOLEAN
  BY DEF InspectionInv, RunnerInv, TypeOK, Codes
<1>4. {ContextFault, NotTheContract, "inspection_failed", "unsupported_version"} \subseteq Codes
  BY DEF ContextFault, NotTheContract, Codes, Faults, LateFaults
<1>5. CASE \E code \in Codes, retry \in BOOLEAN : Answer(code, retry)
  BY <1>1, <1>2, <1>5, FaultKeeps
<1>6. CASE /\ call.fault = NoFault /\ inspection.identity \in {Unbound, call.authority}
           /\ inspection' = [inspection EXCEPT
                !.identity = IF @ = Unbound THEN call.authority ELSE @,
                !.ran = @ \cup {call.ran},
                !.probe = IF @ = ProbeCount[inspection.adapter] THEN @ ELSE @ + 1,
                !.step = IF inspection.probe = ProbeCount[inspection.adapter] THEN "conclude" ELSE "probe"]
  <2>1. call.ran \in Files /\ call.authority \in Images /\ (call.ran # call.authority => swaps >= 2)
    BY <1>1, <1>6 DEF InspectionInv, RunnerInv, Phased, Watched, Conventional
  <2>2. InspectionType'
    <3> DEFINE last == inspection.probe = ProbeCount[inspection.adapter]
               probe == IF last THEN inspection.probe ELSE inspection.probe + 1
               step == IF last THEN "conclude" ELSE "probe"
    <3>1. inspection.probe \in Nat /\ inspection.ran \cup {call.ran} \in SUBSET Files
      BY <2>1 DEF InspectionInv, InspectionType
    <3>2. probe \in Nat /\ step \in {"idle", "identify", "probe", "conclude", "done"}
      BY <3>1
    <3>3. inspection' = [inspection EXCEPT !.identity = call.authority, !.ran = inspection.ran \cup {call.ran},
                           !.probe = probe, !.step = step]
      BY <1>6 DEF InspectionInv, InspectionType
    <3> HIDE DEF last, probe, step
    <3> QED
      BY <2>1, <3>1, <3>2, <3>3 DEF InspectionInv, InspectionType
  <2>3. /\ inspection'.identity = call.authority /\ inspection'.ran = inspection.ran \cup {call.ran}
        /\ inspection'.step \in {"conclude", "probe"}
    BY <1>6 DEF InspectionInv, InspectionType
  <2>4. \A file \in inspection.ran : file # call.authority => swaps >= 2
    BY <1>6, FileAssumption DEF InspectionInv, Gathered
  <2>5. Gathered'
    BY <1>1, <2>1, <2>3, <2>4 DEF Gathered
  <2> QED
    BY <1>2, <2>2, <2>5 DEF InspectionInv
<1>7. \/ \E code \in Codes, retry \in BOOLEAN : Answer(code, retry)
      \/ /\ call.fault = NoFault /\ inspection.identity \in {Unbound, call.authority}
         /\ inspection' = [inspection EXCEPT
              !.identity = IF @ = Unbound THEN call.authority ELSE @,
              !.ran = @ \cup {call.ran},
              !.probe = IF @ = ProbeCount[inspection.adapter] THEN @ ELSE @ + 1,
              !.step = IF inspection.probe = ProbeCount[inspection.adapter] THEN "conclude" ELSE "probe"]
  BY <1>3, <1>4, Zenon DEF ReadProbe, Evidence
<1> QED
  BY <1>5, <1>6, <1>7

LEMMA ProbeKeeps ==
  ASSUME InspectionInv, Probe
  PROVE  InspectionInv'
<1>1. RunnerInv'
  BY CallKeeps, OfficialAssumption DEF Probe, InspectionInv
<1>2. UNCHANGED <<inspection, swaps>>
  BY DEF Probe, Call
<1>3. InspectionType'
  BY <1>2 DEF InspectionInv, InspectionType
<1> QED
  BY <1>1, <1>2, <1>3, AdapterStepKeeps

LEMMA ConcludeKeeps ==
  ASSUME InspectionInv, Conclude
  PROVE  InspectionInv'
<1>1. RunnerInv' /\ UNCHANGED swaps /\ inspection.step = "conclude"
  BY RunnerNext DEF Conclude, During, InspectionInv, vars
<1>2. CASE \E code \in Codes : Answer(code, FALSE)
  BY <1>1, <1>2, FaultKeeps
<1>3. CASE Publish
  <2>1. /\ InspectionType' /\ inspection'.ran = inspection.ran /\ inspection'.identity = inspection.identity
        /\ inspection'.step = "done"
    BY <1>3 DEF Publish, InspectionInv, InspectionType
  <2> QED
    BY <1>1, <2>1, AdapterStepKeeps
<1>4. {"invalid_evidence", "execution_canceled"} \subseteq Codes
  BY DEF Codes, Faults, LateFaults
<1> QED
  BY <1>2, <1>3, <1>4 DEF Conclude

(* What the user, the caller and the running process do leaves the count of *)
(* replacements where it was, or one higher.                               *)
LEMMA SwapsOnlyGrow ==
  ASSUME RunnerInv, Step \/ Replace \/ Cancel
  PROVE  [Next]_vars /\ swaps' >= swaps
<1>1. swaps \in Nat
  BY SwapsAssumption DEF RunnerInv, TypeOK
<1>2. CASE Step
  <2>1. UNCHANGED swaps
    BY <1>2, Zenon DEF Step, Advance, Child, Enter, Identify, Setup, Revalidate, Start, Classify, Cleanup,
       Overflow, Expire, Exit, Kill
  <2> QED
    BY <1>1, <1>2, <2>1 DEF Next
<1>3. CASE Replace \/ Cancel
  BY <1>1, <1>3 DEF Next, Replace, Cancel
<1> QED
  BY <1>2, <1>3

LEMMA InspectKeeps ==
  ASSUME InspectionInv, Inspect
  PROVE  InspectionInv'
BY ProbeKeeps, ReadProbeKeeps, ConcludeKeeps DEF Inspect

LEMMA AroundInspectionKeeps ==
  ASSUME InspectionInv, Step \/ Replace \/ Cancel, UNCHANGED inspection
  PROVE  InspectionInv'
BY SwapsOnlyGrow, RunnerStepKeeps DEF InspectionInv

LEMMA InspectionNextKeeps == InspectionInv /\ [InspectionNext]_inspectionVars => InspectionInv'
<1> SUFFICES ASSUME InspectionInv, [InspectionNext]_inspectionVars PROVE InspectionInv'
  OBVIOUS
<1>1. swaps \in Nat
  BY SwapsAssumption DEF InspectionInv, RunnerInv, TypeOK
<1>2. CASE RunBound
  <2>1. [Next]_vars /\ swaps' >= swaps /\ UNCHANGED inspection
    <3>1. PICK identity \in Images : Call(identity)
      BY <1>2 DEF RunBound
    <3> QED
      <4>1. identity \in Requests
        BY DEF Requests
      <4>2. UNCHANGED <<swaps, inspection>>
        BY <1>2, <3>1 DEF RunBound, Call
      <4> QED
        BY <1>1, <3>1, <4>1, <4>2 DEF Next
  <2> QED
    BY <2>1, RunnerStepKeeps
<1>3. CASE UNCHANGED inspectionVars
  BY <1>1, <1>3, RunnerStepKeeps DEF inspectionVars, vars
<1> QED
  BY <1>2, <1>3, BeginKeeps, InspectKeeps, AroundInspectionKeeps DEF InspectionNext

(* The invariant of every inspection, which contains that of its attempts. *)
THEOREM InspectionSafe == InspectionSpec => []InspectionInv
BY InspectionStarts, InspectionNextKeeps, PTL DEF InspectionSpec

LEMMA OneImage == InspectionInv => EvidenceIsOneImage
BY DEF InspectionInv, Gathered, EvidenceIsOneImage

(* What an inspection publishes is evidence of one program, the one it      *)
(* names, however often the file is replaced and whatever the probes print: *)
(* only two replacements around one start can mix in another.              *)
THEOREM EvidenceHasOneImage == InspectionSpec => []EvidenceIsOneImage
BY InspectionSafe, OneImage, PTL

(* The safety of an attempt, where an inspection makes a chain of them.      *)
THEOREM InspectionAttemptsSafe ==
  InspectionSpec => [](RetryOnlyUnstarted /\ OneSwapNeverTrusted /\ StoppedIsNotAnOutcome)
<1>1. InspectionInv => RetryOnlyUnstarted /\ OneSwapNeverTrusted /\ StoppedIsNotAnOutcome
  BY FileAssumption DEF InspectionInv, RunnerInv, Phased, Watched, Unstopped, RetryOnlyUnstarted, OneSwapNeverTrusted,
     StoppedIsNotAnOutcome, Returned, At, Started, Files
<1> QED
  BY <1>1, InspectionSafe, PTL

----------------------------------------------------------------------------
(* What the analyzer learns from a document, by induction over its records.  *)

TestStates == {"unseen", "running", "paused", "passed"}
Analyses == [ok : BOOLEAN, package : Packages \cup {Undecodable}, state : [Tests -> TestStates],
             passes : Nat, passed : BOOLEAN]

PassedTests(s) == {t \in Tests : s.state[t] = "passed"}

(* An analysis that nothing refused so far tells the truth about the first   *)
(* k records.                                                              *)
OnePackage(document, k, s) ==
  /\ \A j \in 1..k : document[j] # Undecodable /\ document[j].package = s.package
  /\ k >= 1 => document[1].action = "start"
LastWords(document, k, s) ==
  /\ \A t \in Tests : s.state[t] # "unseen" <=> \E j \in 1..k : document[j].test = t
  /\ \A t \in PassedTests(s) : \E j \in 1..k :
       /\ document[j].test = t /\ document[j].action = "pass"
       /\ \A i \in 1..k : document[i].test = t => i <= j
Counted(s) == IsFiniteSet(PassedTests(s)) /\ s.passes = Cardinality(PassedTests(s))
Finished(document, k, s) ==
  s.passed = TRUE => /\ k >= 1 /\ document[k].action = "pass" /\ document[k].test = NoTest
                     /\ AllTestsPassed(s) /\ s.passes > 0

Truthful(document, k, s) ==
  OnePackage(document, k, s) /\ LastWords(document, k, s) /\ Counted(s) /\ Finished(document, k, s)

LEMMA UnreadType == Unread \in Analyses
BY DEF Unread, Analyses, TestStates

LEMMA ReadRecordType ==
  ASSUME NEW s \in Analyses, NEW record \in Records, NEW first \in BOOLEAN, NEW last \in BOOLEAN
  PROVE  ReadRecord(s, record, first, last) \in Analyses
<1>1. CASE record = Undecodable
  BY <1>1 DEF ReadRecord, Analyses
<1>2. CASE record # Undecodable
  <2>1. /\ record.package \in Packages /\ record.test \in Tests \cup {NoTest}
        /\ record.action \in {"start", "run", "pause", "cont", "output", "pass"}
    BY <1>2 DEF Records, TestActions
  <2> DEFINE state == [t \in Tests |-> IF t = record.test THEN Leaves(record.action, s.state[t]) ELSE s.state[t]]
             passes == IF record.action = "pass" /\ record.test # NoTest THEN s.passes + 1 ELSE s.passes
             passed == record.action = "pass" /\ record.test = NoTest
  <2>2. passes \in Nat /\ passed \in BOOLEAN
    BY DEF Analyses
  <2>3. ASSUME NEW t \in Tests, t = record.test PROVE Leaves(record.action, s.state[t]) \in TestStates
    <3>1. record.action # "start"
      BY <1>2, <2>3, EventsAssumption DEF Records, TestActions
    <3>2. s.state[t] \in TestStates
      BY DEF Analyses
    <3> QED
      BY <2>1, <3>1, <3>2 DEF Leaves, TestStates
  <2>4. state \in [Tests -> TestStates]
    BY <2>3 DEF Analyses
  <2>5. \/ ReadRecord(s, record, first, last) = [s EXCEPT !.ok = FALSE]
        \/ ReadRecord(s, record, first, last) =
             [s EXCEPT !.package = record.package, !.state = state, !.passes = passes, !.passed = passed]
    BY DEF ReadRecord, Analyses
  <2> HIDE DEF state, passes, passed
  <2> QED
    BY <2>1, <2>2, <2>4, <2>5 DEF Analyses
<1> QED
  BY <1>1, <1>2

(* A record that is not refused, and the analysis it leaves. *)
Accepted(s, record, j, s2) ==
  /\ s.ok = TRUE /\ record # Undecodable
  /\ j = 1 => record.action = "start"
  /\ j # 1 => record.package = s.package
  /\ record.test # NoTest => s.state[record.test] \in Needs[record.action]
  /\ record.action = "pass" /\ record.test = NoTest => s.passes > 0 /\ AllTestsPassed(s)
  /\ s2.package = record.package
  /\ s2.state = [t \in Tests |-> IF t = record.test THEN Leaves(record.action, s.state[t]) ELSE s.state[t]]
  /\ s2.passes = IF record.action = "pass" /\ record.test # NoTest THEN s.passes + 1 ELSE s.passes
  /\ s2.passed = TRUE <=> record.action = "pass" /\ record.test = NoTest

LEMMA Reads ==
  ASSUME NEW s \in Analyses, NEW record \in Records, NEW j \in Nat, NEW last \in BOOLEAN,
         NEW s2 \in Analyses, s2 = ReadRecord(s, record, j = 1, last), s2.ok = TRUE
  PROVE  Accepted(s, record, j, s2)
<1>1. s.ok \in BOOLEAN /\ [s EXCEPT !.ok = FALSE].ok = FALSE
  BY DEF Analyses
<1>2. /\ s.ok /\ record # Undecodable
      /\ IF j = 1 THEN record.action = "start" ELSE record.action # "start" /\ record.package = s.package
      /\ record.test # NoTest => s.state[record.test] \in Needs[record.action]
      /\ record.action = "pass" /\ record.test = NoTest => last /\ s.passes > 0 /\ AllTestsPassed(s)
  BY <1>1, Zenon DEF ReadRecord
<1>3. s2 =
        [s EXCEPT !.package = record.package,
                  !.state = [t \in Tests |-> IF t = record.test THEN Leaves(record.action, s.state[t]) ELSE s.state[t]],
                  !.passes = IF record.action = "pass" /\ record.test # NoTest THEN s.passes + 1 ELSE s.passes,
                  !.passed = record.action = "pass" /\ record.test = NoTest]
  BY <1>1 DEF ReadRecord, Analyses
<1>4. (s.ok = TRUE) /\ (j = 1 => record.action = "start") /\ (j # 1 => record.package = s.package)
  BY <1>1, <1>2
<1>5. (record.action = "pass" /\ record.test = NoTest) \in BOOLEAN
  OBVIOUS
<1> QED
  BY <1>2, <1>3, <1>4, <1>5 DEF Analyses, Accepted

(* One more record, not refused: what is told of the document stays true. *)
LEMMA ReadKeepsTruth ==
  ASSUME NEW document \in Seq(Records), NEW k \in Nat, k < Len(document),
         NEW s \in Analyses, Truthful(document, k, s), NEW last \in BOOLEAN,
         ReadRecord(s, document[k + 1], k + 1 = 1, last).ok = TRUE
  PROVE  Truthful(document, k + 1, ReadRecord(s, document[k + 1], k + 1 = 1, last))
<1> DEFINE record == document[k + 1]
           s2 == ReadRecord(s, record, k + 1 = 1, last)
<1> SUFFICES Truthful(document, k + 1, s2)
  OBVIOUS
<1>0. k + 1 \in 1..Len(document) /\ (k + 1 = 1) \in BOOLEAN
  OBVIOUS
<1>1. /\ record \in Records /\ s2 \in Analyses /\ s2.ok = TRUE
      /\ \A i \in 1..(k + 1) : i \in 1..k \/ i = k + 1
      /\ \A i \in 1..k : i \in 1..(k + 1) /\ i <= k + 1
      /\ k + 1 \in 1..(k + 1)
  <2>1. record \in Records
    BY <1>0
  <2>2. s2 \in Analyses
    <3> HIDE DEF record
    <3> QED
      BY <1>0, <2>1, ReadRecordType
  <2> QED
    BY <2>1, <2>2
<1>2. Accepted(s, record, k + 1, s2)
  <2>1. k + 1 \in Nat /\ s2 = ReadRecord(s, record, k + 1 = 1, last)
    OBVIOUS
  <2> HIDE DEF record, s2
  <2> QED
    BY <1>1, <2>1, Reads, Zenon
<1>3. /\ record.test \in Tests \cup {NoTest}
      /\ record.action \in {"start", "run", "pause", "cont", "output", "pass"}
      /\ record.action = "start" => record.test = NoTest
  BY <1>1, <1>2 DEF Accepted, Records, TestActions
<1> HIDE DEF record, s2
<1>4. OnePackage(document, k + 1, s2)
  BY <1>1, <1>2 DEF Accepted, Truthful, OnePackage, record
<1>5. CASE record.test = NoTest
  <2>1. \A t \in Tests : t # record.test
    BY <1>5, EventsAssumption
  <2>2. s2.state = s.state /\ s2.passes = s.passes
    BY <1>2, <1>5, <2>1 DEF Accepted, Analyses
  <2>3. LastWords(document, k + 1, s2)
    BY <1>1, <2>1, <2>2 DEF Truthful, LastWords, PassedTests, record
  <2>4. Counted(s2)
    BY <2>2 DEF Truthful, Counted, PassedTests
  <2>5. Finished(document, k + 1, s2)
    BY <1>2, <1>5, <2>2 DEF Accepted, Finished, AllTestsPassed, record
  <2> QED
    BY <1>4, <2>3, <2>4, <2>5 DEF Truthful
<1>6. CASE record.test \in Tests
  <2>1. record.test # NoTest /\ s.state[record.test] \in Needs[record.action]
    BY <1>2, <1>6, EventsAssumption DEF Accepted
  <2>2. /\ \A t \in Tests : t # record.test => s2.state[t] = s.state[t]
        /\ s2.state[record.test] = Leaves(record.action, s.state[record.test])
    BY <1>2, <1>6 DEF Accepted
  <2>3. /\ record.action # "start" /\ s.state[record.test] \in Needs[record.action]
        /\ s.state[record.test] # "passed" /\ s2.state[record.test] # "unseen"
        /\ s2.state[record.test] = "passed" <=> record.action = "pass"
    BY <1>3, <2>1, <2>2 DEF Needs, Leaves
  <2>4. PassedTests(s2) = IF record.action = "pass" THEN PassedTests(s) \cup {record.test} ELSE PassedTests(s)
    BY <1>6, <2>2, <2>3 DEF PassedTests
  <2>5. record.test \notin PassedTests(s)
    BY <2>3 DEF PassedTests
  <2>6. LastWords(document, k + 1, s2)
    <3>1. \A t \in Tests : s2.state[t] # "unseen" <=> \E j \in 1..(k + 1) : document[j].test = t
      BY <1>1, <1>6, <2>2, <2>3 DEF Truthful, LastWords, record
    <3>2. ASSUME NEW t \in PassedTests(s2)
          PROVE  \E j \in 1..(k + 1) : /\ document[j].test = t /\ document[j].action = "pass"
                                       /\ \A i \in 1..(k + 1) : document[i].test = t => i <= j
      <4>1. CASE t = record.test
        <5>1. document[k + 1].test = t /\ document[k + 1].action = "pass"
          BY <2>3, <3>2, <4>1 DEF PassedTests, record
        <5> QED
          BY <1>1, <5>1
      <4>2. CASE t # record.test
        <5>1. t \in PassedTests(s)
          BY <2>4, <3>2, <4>2
        <5>2. PICK j \in 1..k : /\ document[j].test = t /\ document[j].action = "pass"
                                /\ \A i \in 1..k : document[i].test = t => i <= j
          BY <5>1 DEF Truthful, LastWords
        <5> QED
          BY <1>1, <4>2, <5>2 DEF record
      <4> QED
        BY <4>1, <4>2
    <3> QED
      BY <3>1, <3>2 DEF LastWords
  <2>7. Counted(s2)
    <3>1. IsFiniteSet(PassedTests(s)) /\ s.passes = Cardinality(PassedTests(s)) /\ s.passes \in Nat
      BY DEF Truthful, Counted, Analyses
    <3>2. /\ IsFiniteSet(PassedTests(s) \cup {record.test})
          /\ Cardinality(PassedTests(s) \cup {record.test}) = Cardinality(PassedTests(s)) + 1
      BY <2>5, <3>1, FS_AddElement
    <3> QED
      BY <1>2, <2>1, <2>4, <3>1, <3>2 DEF Accepted, Counted
  <2>8. Finished(document, k + 1, s2)
    BY <1>2, <2>1 DEF Accepted, Finished
  <2> QED
    BY <1>4, <2>6, <2>7, <2>8 DEF Truthful
<1> QED
  BY <1>3, <1>5, <1>6

LEMMA UnreadTruthful ==
  ASSUME NEW document
  PROVE  Truthful(document, 0, Unread)
<1>1. PassedTests(Unread) = {}
  BY DEF PassedTests, Unread
<1>2. Counted(Unread)
  BY <1>1, FS_EmptySet DEF Counted, Unread
<1>3. Unread.passed = FALSE /\ \A t \in Tests : Unread.state[t] = "unseen"
  BY DEF Unread
<1>4. 1..0 = {}
  OBVIOUS
<1> QED
  BY <1>1, <1>2, <1>3, <1>4 DEF Truthful, OnePackage, LastWords, Finished

(* What Reading reports of a whole document, if nothing refused it. *)
LEMMA ReadingIsTrue ==
  ASSUME NEW document \in Seq(Records), Reading(document, Len(document)).ok = TRUE
  PROVE  /\ Reading(document, Len(document)) \in Analyses
         /\ Truthful(document, Len(document), Reading(document, Len(document)))
<1> DEFINE n == Len(document)
           step == [k \in 1..n |-> [s \in Analyses |-> ReadRecord(s, document[k], k = 1, k = n)]]
<1>1. n \in Nat /\ \A k \in 1..n : document[k] \in Records
  OBVIOUS
<1>2. step \in [1..n -> [Analyses -> Analyses]]
  BY <1>1, ReadRecordType
<1>3. PICK f : Computes(f, n, Analyses, Unread, step)
  <2> HIDE DEF step, n
  <2> QED
    BY <1>1, <1>2, UnreadType, RecursionUpTo, Zenon
<1> DEFINE Solves(g) == g = [k \in 0..n |-> IF k = 0 THEN Unread
                                           ELSE ReadRecord(g[k - 1], document[k], k = 1, k = n)]
<1>4. Solves(f)
  <2>1. ASSUME NEW k \in 1..n PROVE step[k][f[k - 1]] = ReadRecord(f[k - 1], document[k], k = 1, k = n)
    <3>1. k - 1 \in 0..n
      BY <1>1
    <3>2. f[k - 1] \in Analyses
      BY <1>3, <3>1 DEF Computes
    <3> QED
      BY <3>2
  <2>2. \A k \in 0..n : f[k] = IF k = 0 THEN Unread ELSE ReadRecord(f[k - 1], document[k], k = 1, k = n)
    <3> HIDE DEF step, n
    <3> QED
      BY <1>1, <1>3, <2>1 DEF Computes
  <2>3. f = [k \in 0..n |-> f[k]]
    BY <1>3 DEF Computes
  <2> QED
    BY <2>2, <2>3
<1>5. PICK g : Solves(g) /\ Reading(document, n) = g[n]
  BY <1>4 DEF Reading
<1> DEFINE S == {k \in 0..n : g[k] \in Analyses /\ (g[k].ok = TRUE => Truthful(document, k, g[k]))}
<1>6. 0 \in S
  BY <1>1, <1>5, UnreadType, UnreadTruthful
<1>7. ASSUME NEW k \in 0..n, k \in S, k < n PROVE k + 1 \in S
  <2>1. k + 1 \in 0..n /\ k + 1 \in 1..n /\ k \in Nat /\ k + 1 \in Nat /\ k < Len(document) /\ (k + 1) - 1 = k /\ k + 1 # 0
    BY <1>1, <1>7
  <2>2. g[k + 1] = ReadRecord(g[k], document[k + 1], k + 1 = 1, k + 1 = n)
    BY <1>5, <2>1
  <2>3. g[k] \in Analyses /\ document[k + 1] \in Records /\ (k + 1 = n) \in BOOLEAN /\ (k + 1 = 1) \in BOOLEAN
    BY <1>1, <1>7, <2>1
  <2>4. g[k + 1] \in Analyses
    BY <2>2, <2>3, ReadRecordType
  <2>5. ASSUME g[k + 1].ok = TRUE PROVE Truthful(document, k + 1, g[k + 1])
    <3>1. g[k].ok = TRUE
      <4>1. Accepted(g[k], document[k + 1], k + 1, g[k + 1])
        BY <2>1, <2>2, <2>3, <2>4, <2>5, Reads, Zenon
      <4> QED
        BY <4>1 DEF Accepted
    <3>2. Truthful(document, k, g[k])
      BY <1>7, <3>1
    <3> QED
      BY <2>1, <2>2, <2>3, <2>5, <3>2, ReadKeepsTruth
  <2> QED
    BY <2>1, <2>4, <2>5
<1>8. n \in S
  <2> HIDE DEF S
  <2>1. 0..n \subseteq S
    BY <1>1, <1>6, <1>7, UpTo
  <2> QED
    BY <1>1, <2>1
<1> QED
  BY <1>5, <1>8

----------------------------------------------------------------------------
(* The optimizer.                                                           *)

(* Only an admitted document is handed to the processor, and a summary is   *)
(* published of the document that was handed over.                         *)
Handed == inspection.step = "idle" /\ call.stage # "idle" => Admitted(events)
Shown == published.kind = "optimized" => Admitted(events) /\ published.passes = SummaryOf(events)

OptimizerInv == InspectionInv /\ events \in Seq(Records) /\ Handed /\ Shown

LEMMA OptimizerStarts == OptimizerInit => OptimizerInv
<1> SUFFICES ASSUME OptimizerInit PROVE OptimizerInv
  OBVIOUS
<1>1. InspectionInv
  BY InspectionStarts DEF OptimizerInit
<1>2. call.stage = "idle" /\ published.kind = "nothing" /\ events = <<>>
  BY DEF OptimizerInit, InspectionInit, Init, NoCall, Owed
<1> QED
  BY <1>1, <1>2 DEF OptimizerInv, Handed, Shown

LEMMA WriteKeeps ==
  ASSUME OptimizerInv, NEW record \in Records, Write(record)
  PROVE  OptimizerInv'
<1>1. InspectionInv'
  BY InspectionNextKeeps DEF Write, OptimizerInv
<1>2. events' \in Seq(Records)
  BY DEF Write, OptimizerInv
<1>3. call'.stage = "idle" /\ published'.kind = "nothing"
  BY DEF Write, At, inspectionVars, Owed
<1> QED
  BY <1>1, <1>2, <1>3 DEF OptimizerInv, Handed, Shown

LEMMA PreserveBeforeKeeps ==
  ASSUME OptimizerInv, PreserveBefore
  PROVE  OptimizerInv'
<1>1. InspectionInv'
  BY InspectionNextKeeps DEF PreserveBefore, OptimizerInv
<1>2. UNCHANGED <<events, inspection, call>> /\ published'.kind \in {"fault", "preserved"}
  BY DEF PreserveBefore, Result, inspectionVars
<1> QED
  BY <1>1, <1>2 DEF OptimizerInv, Handed, Shown

LEMMA OptimizeKeeps ==
  ASSUME OptimizerInv, Optimize
  PROVE  OptimizerInv'
<1>1. RunnerInv' /\ UNCHANGED <<inspection, swaps, events, published>>
  BY OfficialAssumption, CallKeeps DEF Optimize, OptimizerInv, InspectionInv, Call
<1>2. InspectionInv'
  BY <1>1 DEF OptimizerInv, InspectionInv, InspectionType, Gathered
<1>3. Admitted(events)
  BY DEF Optimize
<1> QED
  BY <1>1, <1>2, <1>3 DEF OptimizerInv, Handed, Shown

LEMMA ReadOptimizedKeeps ==
  ASSUME OptimizerInv, ReadOptimized
  PROVE  OptimizerInv'
<1>1. InspectionInv'
  BY InspectionNextKeeps DEF ReadOptimized, OptimizerInv
<1>2. UNCHANGED <<events, inspection, call>> /\ Admitted(events)
  BY DEF ReadOptimized, inspectionVars, During, At, OptimizerInv, Handed
<1>3. published'.kind = "optimized" => published'.passes = SummaryOf(events)
  BY DEF ReadOptimized, Result
<1> QED
  BY <1>1, <1>2, <1>3 DEF OptimizerInv, Handed, Shown

LEMMA IdentifyOfficialKeeps ==
  ASSUME OptimizerInv, IdentifyOfficial
  PROVE  OptimizerInv'
<1>1. RunnerInv' /\ UNCHANGED <<swaps, call, events, published>> /\ inspection.step = "identify"
  BY RunnerNext DEF IdentifyOfficial, During, OptimizerInv, InspectionInv, vars
<1>2. inspection'.step # "idle" /\ InspectionInv'
  <2>1. CASE \E code \in Codes, retry \in BOOLEAN : Answer(code, retry)
    BY <1>1, <2>1, FaultIs, FaultKeeps DEF OptimizerInv, InspectionInv
  <2>2. CASE inspection' = [inspection EXCEPT !.step = "probe", !.identity = Official]
    <3>1. InspectionType' /\ inspection'.ran = {} /\ inspection'.step = "probe"
          /\ inspection'.answer.kind # "evidence"
      BY <1>1, <2>2, OfficialAssumption DEF OptimizerInv, InspectionInv, InspectionType, Gathered
    <3>2. Gathered'
      BY <3>1 DEF Gathered
    <3> QED
      BY <1>1, <3>1, <3>2 DEF InspectionInv
  <2>3. {ContextFault, "identity_unavailable", "unsafe_executable", "identity_changed",
        "unsupported_artifact"} \subseteq Codes
    BY DEF ContextFault, Codes, Faults, EarlyFaults, LateFaults
  <2> QED
    BY <2>1, <2>2, <2>3, Zenon DEF IdentifyOfficial
<1> QED
  BY <1>1, <1>2 DEF OptimizerInv, Handed, Shown

LEMMA AroundKeeps ==
  ASSUME OptimizerInv, Around
  PROVE  OptimizerInv'
<1>1. UNCHANGED <<events, published>> /\ (events = <<>> \/ call.stage # "idle")
  BY DEF Around, At
<1>2. InspectionInv'
  BY BeginKeeps, InspectKeeps, AroundInspectionKeeps DEF Around, OptimizerInv
<1>3. inspection'.step = "idle" => inspection.step = "idle" /\ (call'.stage # "idle" => call.stage # "idle")
  <2>1. CASE \E adapter \in Adapters : Begin(adapter)
    BY <2>1 DEF Begin, NoInspection
  <2>2. CASE Inspect
    <3>1. inspection.step \in {"probe", "conclude"}
      BY <2>2 DEF Inspect, Probe, ReadProbe, Conclude, During
    <3>2. inspection'.step # "idle"
      BY <2>2, <3>1 DEF Inspect, Probe, ReadProbe, Evidence, Conclude, Answer, Publish, OptimizerInv, InspectionInv,
         InspectionType
    <3> QED
      BY <3>2
  <2>3. CASE (Step \/ Replace \/ Cancel) /\ UNCHANGED inspection
    <3>1. Step => call.stage # "idle"
      BY DEF Step, Advance, Child, Enter, Identify, Setup, Revalidate, Start, Classify, Cleanup, Overflow, Expire,
         Exit, Kill, At
    <3>2. Replace \/ Cancel => UNCHANGED call
      BY DEF Replace, Cancel
    <3> QED
      BY <2>3, <3>1, <3>2
  <2> QED
    BY <2>1, <2>2, <2>3 DEF Around
<1> QED
  BY <1>1, <1>2, <1>3 DEF OptimizerInv, Handed, Shown

LEMMA OptimizerNextKeeps == OptimizerInv /\ [OptimizerNext]_optimizerVars => OptimizerInv'
<1> SUFFICES ASSUME OptimizerInv, [OptimizerNext]_optimizerVars PROVE OptimizerInv'
  OBVIOUS
<1>1. CASE UNCHANGED optimizerVars
  <2>1. InspectionInv'
    BY <1>1, InspectionNextKeeps DEF OptimizerInv, optimizerVars
  <2>2. UNCHANGED <<call, inspection, events, published>>
    BY <1>1 DEF optimizerVars, inspectionVars
  <2> QED
    BY <2>1, <2>2 DEF OptimizerInv, Handed, Shown
<1> QED
  BY <1>1, WriteKeeps, PreserveBeforeKeeps, OptimizeKeeps, ReadOptimizedKeeps, IdentifyOfficialKeeps, AroundKeeps
     DEF OptimizerNext

(* The invariant of the optimizer, which contains that of the inspection    *)
(* and of the runner.                                                      *)
THEOREM OptimizerSafe == OptimizerSpec => []OptimizerInv
BY OptimizerStarts, OptimizerNextKeeps, PTL DEF OptimizerSpec

(* The claim of the summary, of any document the analyzer admits. *)
LEMMA AdmittedIsPassed ==
  ASSUME events \in Seq(Records), Admitted(events), published.passes = SummaryOf(events)
  PROVE  /\ Undecodable \notin {events[k] : k \in DOMAIN events}
         /\ Cardinality({events[k].package : k \in DOMAIN events}) = 1
         /\ events[1].action = "start"
         /\ events[Len(events)].action = "pass" /\ events[Len(events)].test = NoTest
         /\ published.passes = Cardinality(NamedTests) /\ published.passes > 0
         /\ \A t \in NamedTests : LastEventOf(t) = "pass"
<1> DEFINE n == Len(events)
           s == Reading(events, n)
<1>1. n \in Nat /\ n >= 1 /\ DOMAIN events = 1..n /\ \A k \in 1..n : events[k] \in Records
  BY DEF Admitted
<1>2. s.ok = TRUE /\ s.passed = TRUE /\ s \in Analyses /\ Truthful(events, n, s) /\ published.passes = s.passes
  <2>1. s.ok /\ s.passed
    BY DEF Admitted
  <2>2. CASE s.ok = TRUE
    <3>1. s \in Analyses /\ Truthful(events, n, s)
      BY <2>2, ReadingIsTrue
    <3>2. s.passed = TRUE
      BY <2>1, <3>1 DEF Analyses
    <3> QED
      BY <2>2, <3>1, <3>2 DEF SummaryOf
  <2> QED
    BY <2>1, <2>2, Zenon
<1> HIDE DEF n, s
<1>3. /\ \A k \in 1..n : events[k] # Undecodable /\ events[k].package = s.package
      /\ events[1].action = "start" /\ events[n].action = "pass" /\ events[n].test = NoTest
      /\ AllTestsPassed(s) /\ s.passes > 0
  BY <1>1, <1>2 DEF Truthful, OnePackage, Finished
<1>4. {events[k].package : k \in DOMAIN events} = {s.package}
  BY <1>1, <1>3
<1>5. Cardinality({s.package}) = 1
  BY FS_Singleton
<1>6. NamedTests = PassedTests(s)
  <2>1. ASSUME NEW t \in NamedTests PROVE t \in PassedTests(s)
    <3>1. PICK k \in 1..n : events[k].test = t
      BY <1>1 DEF NamedTests
    <3>2. t \in Tests
      BY <1>1, <1>3, <3>1 DEF NamedTests, Records
    <3>3. s.state[t] # "unseen"
      BY <1>2, <3>1, <3>2 DEF Truthful, LastWords
    <3> QED
      BY <1>3, <3>2, <3>3 DEF AllTestsPassed, PassedTests
  <2>2. ASSUME NEW t \in PassedTests(s) PROVE t \in NamedTests
    <3>1. t \in Tests /\ t # NoTest
      BY EventsAssumption DEF PassedTests
    <3>2. PICK k \in 1..n : events[k].test = t
      BY <1>2 DEF Truthful, LastWords
    <3> QED
      BY <1>1, <3>1, <3>2 DEF NamedTests
  <2> QED
    BY <2>1, <2>2
<1>7. ASSUME NEW t \in NamedTests PROVE LastEventOf(t) = "pass"
  <2> DEFINE mine == {k \in DOMAIN events : events[k].test = t}
  <2>1. PICK j \in 1..n : /\ events[j].test = t /\ events[j].action = "pass"
                          /\ \A i \in 1..n : events[i].test = t => i <= j
    BY <1>2, <1>6 DEF Truthful, LastWords
  <2>2. j \in mine /\ \A other \in mine : other <= j
    BY <1>1, <2>1
  <2>3. ASSUME NEW k \in mine, \A other \in mine : other <= k PROVE k = j
    BY <1>1, <2>2, <2>3
  <2>4. (CHOOSE k \in mine : \A other \in mine : other <= k) = j
    <3> HIDE DEF mine
    <3> QED
      BY <2>2, <2>3
  <2> QED
    BY <2>1, <2>4 DEF LastEventOf
<1>8. published.passes = Cardinality(NamedTests)
  BY <1>2, <1>6 DEF Truthful, Counted
<1> QED
  BY <1>1, <1>2, <1>3, <1>4, <1>5, <1>7, <1>8 DEF n

(* Output is replaced by "n passed" only when the source's own events say    *)
(* that the package and all n tests they name passed: for documents of any   *)
(* length, any tests and packages, and whatever the processor prints.       *)
THEOREM SummariesMeanPassed == OptimizerSpec => []SummaryMeansPassed
<1>1. OptimizerInv => SummaryMeansPassed
  <2> SUFFICES ASSUME OptimizerInv, published.kind = "optimized" PROVE SummaryMeansPassed
    BY DEF SummaryMeansPassed
  <2>1. events \in Seq(Records) /\ Admitted(events) /\ published.passes = SummaryOf(events)
    BY DEF OptimizerInv, Shown
  <2> QED
    BY <2>1, AdmittedIsPassed, Zenon DEF SummaryMeansPassed
<1> QED
  BY <1>1, OptimizerSafe, PTL

(* The safety of an attempt and of an inspection, where an optimizer uses    *)
(* them.                                                                   *)
THEOREM OptimizerAttemptsSafe ==
  OptimizerSpec => [](NoSilentResidue /\ StoppedIsNotAnOutcome /\ EvidenceIsOneImage)
<1>1. OptimizerInv => NoSilentResidue /\ StoppedIsNotAnOutcome /\ EvidenceIsOneImage
  BY OneImage DEF OptimizerInv, InspectionInv, RunnerInv, Rooted, Unstopped, NoSilentResidue, StoppedIsNotAnOutcome,
     Returned, At
<1> QED
  BY <1>1, OptimizerSafe, PTL
=============================================================================
