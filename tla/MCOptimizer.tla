---------------------------- MODULE MCOptimizer ----------------------------
(* A small instance of Optimizer for TLC: two images, two tests, two packages. *)
EXTENDS Optimizer, TLC

CONSTANTS right, wrong, summary, same, malformed, t1, t2, p1, p2

MCImages == {right, wrong}
MCOutputs == {summary, same, malformed}
MCTests == {t1, t2}
MCPackages == {p1, p2}
MCSymmetry == Permutations(MCTests)
=============================================================================
