-------------------------- MODULE ApplyRefinement --------------------------
(* PlanApply implements ApplyContract. *)
EXTENDS PlanApply

StartedPrograms ==
  (IF SourceStarted THEN {"source"} ELSE {}) \cup (IF ProcessorStarted THEN {"processor"} ELSE {})

(* A fault that is not offered for retry means "uncertain" once a program ran. *)
Answer ==
  IF ~At("done") THEN "none"
  ELSE IF IsOutput THEN "published"
  ELSE IF apply.result.retry THEN "retryable"
  ELSE IF SourceStarted THEN "uncertain"
  ELSE "refused"

Contract == INSTANCE ApplyContract WITH started <- StartedPrograms, answer <- Answer

(* Every step of planapply.Apply and of its two runners is one step of the
   contract or none: one answer, no start after it, no retry after a start. *)
ImplementsContract == Contract!Spec
=============================================================================
