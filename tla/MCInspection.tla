---------------------------- MODULE MCInspection ----------------------------
(* Small instances of Inspection, and of the runner below it, for TLC. *)
EXTENDS Inspection, TLC

CONSTANTS right, wrong, supported, other, malformed

MCImages == {right, wrong}
MCOutputs == {supported, other, malformed}
=============================================================================
