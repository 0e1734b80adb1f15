---------------------------- MODULE WrapperCommand ----------------------------
(***************************************************************************)
(* What wrapper install, status and remove tell their caller about the     *)
(* store (internal/app/wrappershimcmd/service.go, domain/wrappershim): the *)
(* inventory and the records must pass their own validation, and every     *)
(* outcome has one public code.  The steps before the store is called read *)
(* files and are in Tailoring (Materialized) and ServiceFaults.            *)
(***************************************************************************)
EXTENDS ShimRefinement

(* Record.Validate and Inventory.Validate, of what can vary: how many, and  *)
(* that no command is active twice or both active and collided.            *)
ActiveIn(inventory) == {a \in Artifact : inventory.records[a] = "active"}
ValidInventory(inventory) ==
  /\ Cardinality({a \in Artifact : inventory.records[a] # "absent"}) <= MaxArtifacts
  /\ Cardinality(inventory.collisions) <= MaxArtifacts
  /\ \A a, b \in ActiveIn(inventory) : CommandOf[a] = CommandOf[b] => a = b
  /\ \A a \in ActiveIn(inventory) : CommandOf[a] \notin inventory.collisions

(* classifyMutationStoreError and classifyStatusStoreError. *)
Refusal ==
  [Conflict |-> "wrapper_artifact_collision", Tampered |-> "wrapper_artifact_tampered",
   NotFound |-> "wrapper_artifact_not_found", Capacity |-> "wrapper_artifact_capacity_exceeded",
   Unsafe |-> "wrapper_artifact_store_unsafe", Uncertain |-> "wrapper_artifact_mutation_uncertain"]

(* Status: an inventory the store itself found invalid has no code of its   *)
(* own; one collision or one tampered record leaves nothing to remove.     *)
StatusAnswer(code, inventory) ==
  IF code = "Uncertain" THEN "wrapper_artifact_status_unavailable"
  ELSE IF code # "Listed" THEN Refusal[code]
  ELSE IF ~ValidInventory(inventory) THEN "internal_error"
  ELSE IF inventory.collisions # {} THEN "wrapper_artifact_collision"
  ELSE IF "tampered" \in {inventory.records[a] : a \in Artifact} THEN "wrapper_artifact_tampered"
  ELSE "artifacts"

(* validateInstalledRecord and validateRemovedRecord: the state of the      *)
(* record the store hands back with its success.                           *)
InstallAnswer(code, state) ==
  IF code \notin {"Installed", "Already"} THEN Refusal[code]
  ELSE IF state # "active" THEN "wrapper_artifact_store_contract" ELSE "installed"
RemoveAnswer(code, state) ==
  IF code # "Removed" THEN Refusal[code]
  ELSE IF state \notin {"active", "inactive"} THEN "wrapper_artifact_store_contract" ELSE "removed"

-----------------------------------------------------------------------------
(* Properties.                                                             *)

Unowned(c) == bin[c] # "absent" /\ ~\E a \in Artifact : CommandOf[a] = c /\ RecordState(a) = "active"

(* What the store reports holds (ResultTruth), and what a status command   *)
(* says is so when it says it: the artifacts listed are all there are, each *)
(* in its state, and nothing else is in bin; a collision is an entry no     *)
(* intact artifact stands behind, and tampering a record that was edited.   *)
(* And no command meets a store it calls broken: the checks that run after *)
(* the mutation never refuse what was done.                                *)
AnswersAreTrue == ResultTruth /\
  [][\A p \in Proc :
       /\ Returns(p, {"Listed"}) =>
            LET answer == StatusAnswer("Listed", listing'[p]) IN
            /\ answer \in {"artifacts", "wrapper_artifact_collision", "wrapper_artifact_tampered"}
            /\ answer = "artifacts" => /\ \A a \in Artifact : listing'[p].records[a] = RecordState(a)'
                                       /\ \A c \in Command : ~Unowned(c)'
            /\ answer = "wrapper_artifact_collision" => \E c \in Command : Unowned(c)'
            /\ answer = "wrapper_artifact_tampered" =>
                 \E a \in Artifact : RecordState(a)' = "tampered" /\ drift[records[a]] # {}
       /\ \A a \in Artifact : art[p] = a =>
            /\ Returns(p, {"Installed", "Already"}) => InstallAnswer("Installed", RecordState(a)') = "installed"
            /\ Returns(p, {"Removed"}) => RemoveAnswer("Removed", was[p]) = "removed"]_vars
=============================================================================
