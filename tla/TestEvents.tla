----------------------------- MODULE TestEvents -----------------------------
(***************************************************************************)
(* The go test events an optimizer may replace by one line: Analyze of     *)
(* internal/infra/gotestjson.  A document is the sequence of its records.  *)
(*                                                                         *)
(* A record is [action, package, test], with test = NoTest for an event of *)
(* the package.  Undecodable stands for every record decodeEvent refuses:  *)
(* broken JSON or text, a missing or forbidden field, another action such  *)
(* as fail, skip or bench.  The summary of a document is the number of     *)
(* passed tests; its text is shorter than any document that has one.       *)
(***************************************************************************)
EXTENDS Naturals, Sequences, FiniteSets

CONSTANTS Tests, NoTest, Packages, Undecodable,
          MaxRecords   \* more records than this are not read

ASSUME EventsAssumption == NoTest \notin Tests

TestActions == {"run", "pause", "cont"}
Records ==
  {Undecodable}
  \cup [action : {"start"}, package : Packages, test : {NoTest}]
  \cup [action : TestActions, package : Packages, test : Tests]
  \cup [action : {"output", "pass"}, package : Packages, test : Tests \cup {NoTest}]

\* What the analyzer has learned; state is "unseen" for a test no event named.
Unread == [ok |-> TRUE, package |-> Undecodable, state |-> [t \in Tests |-> "unseen"], passes |-> 0, passed |-> FALSE]

\* What one event needs of the state of its test, and the state it leaves.
Needs == [run |-> {"unseen"}, pause |-> {"running"}, cont |-> {"paused"}, pass |-> {"running"},
          output |-> {"running", "paused"}]
Leaves(action, state) ==
  CASE action \in {"run", "cont"} -> "running"
    [] action = "pause" -> "paused"
    [] action = "pass" -> "passed"
    [] action = "output" -> state

AllTestsPassed(s) ==
  /\ \E t \in Tests : s.state[t] # "unseen"
  /\ \A t \in Tests : s.state[t] \in {"unseen", "passed"}

\* Mutant: the package may pass while one of its tests still runs.
ReadRecordTrusting(s, record, first, last) ==
  IF /\ s.ok /\ ~s.passed /\ record # Undecodable
     /\ IF first THEN record.action = "start" ELSE record.action # "start" /\ record.package = s.package
     /\ record.test # NoTest => s.state[record.test] \in Needs[record.action]
     /\ record.action = "pass" /\ record.test = NoTest => last /\ s.passes > 0
  THEN [s EXCEPT !.package = record.package,
                 !.state   = [t \in Tests |-> IF t = record.test THEN Leaves(record.action, @[t]) ELSE @[t]],
                 !.passes  = IF record.action = "pass" /\ record.test # NoTest THEN @ + 1 ELSE @,
                 !.passed  = record.action = "pass" /\ record.test = NoTest]
  ELSE [s EXCEPT !.ok = FALSE]

ReadRecord(s, record, first, last) ==
  IF /\ s.ok /\ ~s.passed /\ record # Undecodable
     /\ IF first THEN record.action = "start" ELSE record.action # "start" /\ record.package = s.package
     /\ record.test # NoTest => s.state[record.test] \in Needs[record.action]
     /\ record.action = "pass" /\ record.test = NoTest => last /\ s.passes > 0 /\ AllTestsPassed(s)
  THEN [s EXCEPT !.package = record.package,
                 !.state   = [t \in Tests |-> IF t = record.test THEN Leaves(record.action, @[t]) ELSE @[t]],
                 !.passes  = IF record.action = "pass" /\ record.test # NoTest THEN @ + 1 ELSE @,
                 !.passed  = record.action = "pass" /\ record.test = NoTest]
  ELSE [s EXCEPT !.ok = FALSE]

\* The analyzer knows from the count of lines which record is the last.
Reading(document, count) ==
  LET read[k \in 0..count] ==
        IF k = 0 THEN Unread
        ELSE LET before == read[k - 1] IN ReadRecord(before, document[k], k = 1, k = Len(document))
  IN  read[count]

Admitted(document) ==
  LET s == Reading(document, Len(document))
  IN  document # <<>> /\ Len(document) <= MaxRecords /\ s.ok /\ s.passed

\* ExpectedSummary of an admitted document.
SummaryOf(document) == Reading(document, Len(document)).passes
=============================================================================
