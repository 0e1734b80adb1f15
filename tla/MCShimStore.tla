----------------------------- MODULE MCShimStore -----------------------------
(* Small instances of ShimStore for TLC. *)
EXTENDS WrapperCommand, TLC

CONSTANTS p1, p2, a1, a2, c1, d1, d2, d3

MCProc     == {p1, p2}
MCOneProc  == {p1}
MCArtifact == {a1, a2}
MCDir      == {d1, d2, d3}
Symmetric  == Permutations(MCDir) \cup Permutations(MCProc)

NoDrift   == {}
EditDrift == {"edited"}
AllDrift  == {"alien", "edited", "linked"}

(* Two artifacts compete for one command. *)
OneCommand    == {c1}
SharedCommand == (a1 :> c1) @@ (a2 :> c1)
=============================================================================
