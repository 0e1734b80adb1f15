--------------------------- MODULE ApplyContract ---------------------------
(***************************************************************************)
(* What one application of a bundle promises its caller, whatever the       *)
(* bundle: the source is started at most once and the processor at most     *)
(* once after it; exactly one answer is given; a refusal or an invitation   *)
(* to retry is given only while nothing was started, and everything else    *)
(* after a start is either a published result or an uncertain outcome that  *)
(* is not to be repeated.                                                   *)
(***************************************************************************)
VARIABLES
  started,  \* the programs started so far
  answer    \* "none", "refused", "retryable", "uncertain" or "published"

vars == <<started, answer>>

Progress == {{}, {"source"}, {"source", "processor"}}

TypeOK ==
  /\ started \in Progress
  /\ answer \in {"none", "refused", "retryable", "uncertain", "published"}

Init ==
  /\ started = {}
  /\ answer = "none"

StartSource ==
  /\ answer = "none" /\ started = {}
  /\ started' = {"source"}
  /\ UNCHANGED answer

StartProcessor ==
  /\ answer = "none" /\ started = {"source"}
  /\ started' = {"source", "processor"}
  /\ UNCHANGED answer

Refuse ==
  /\ answer = "none" /\ started = {}
  /\ answer' \in {"refused", "retryable"}
  /\ UNCHANGED started

GiveUp ==
  /\ answer = "none" /\ started # {}
  /\ answer' = "uncertain"
  /\ UNCHANGED started

Publish ==
  /\ answer = "none" /\ started # {}
  /\ answer' = "published"
  /\ UNCHANGED started

Next == StartSource \/ StartProcessor \/ Refuse \/ GiveUp \/ Publish
Spec == Init /\ [][Next]_vars
=============================================================================
