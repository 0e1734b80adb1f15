---------------------------- MODULE ShimRefinement ----------------------------
(* The store of ShimStore implements the lifecycle of ShimLifecycle.        *)
EXTENDS ShimStore

(* An artifact is recorded when records has its directory, and active when  *)
(* bin links its command to the shim in that directory.                     *)
Life(a) ==
  IF records[a] = NoDir THEN "absent"
  ELSE IF bin[CommandOf[a]] = records[a] THEN "active" ELSE "inactive"

Lifecycle == INSTANCE ShimLifecycle
               WITH life  <- [a \in Artifact |-> Life(a)],
                    taken <- {c \in Command : bin[c] \in ForeignKind}

(* Every system call of the code is one lifecycle step or none: whatever    *)
(* crashes, an artifact is seen only in the states the user is told about.  *)
ImplementsLifecycle == Lifecycle!Spec
=============================================================================
