----------------------------- MODULE MCServices -----------------------------
(* A small instance of Services for TLC: two programs on one settings file, one gate, one traversal. *)
EXTENDS Services, TLC

CONSTANTS alice, bob, x, y, d1, d2, oauth2, pat, read, i1, i2, i3, c1, c2

MCCallers == {alice, bob}
MCSettings == {x, y}
MCDirectories == {d1, d2}
MCMethods == {oauth2, pat}
MCCapabilities == {read}
MCAccounts == {alice, bob}
MCItems == {i1, i2, i3}
MCTokens == {c1, c2}
\* Nothing tells the items, the cursors or the settings apart.
MCSymmetry == Permutations(MCItems) \cup Permutations(MCTokens) \cup Permutations(MCSettings)

\* The pieces are independent: only one of them starts anywhere but in a fixed state.
MCInit ==
  /\ ServicesInit
  /\ useCase # "configure" => files[Home] = NoFile
  /\ useCase # "authenticate" => declared = [methods |-> MCMethods, account |-> AnyAccount, capabilities |-> {}]
  /\ useCase # "list" => ~stopped
MCSpec == MCInit /\ [][ServicesNext]_servicesVars
=============================================================================
