---------------------------- MODULE MCTrustStore ----------------------------
(* Small stores for TLC: two processes and two digests, which are interchangeable. *)
EXTENDS TrustStore, TLC

Symmetry == Permutations(Proc) \cup Permutations(Digests)
=============================================================================
