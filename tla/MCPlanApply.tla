----------------------------- MODULE MCPlanApply -----------------------------
(* Small instances of PlanApply for TLC. *)
EXTENDS ApplyRefinement, TLC

CONSTANTS projected, streamed, optimized, tool, stranger, json, pass, brief

MCBundles == {projected, streamed, optimized}
MCMode == (projected :> "json") @@ (streamed :> "stream") @@ (optimized :> "optimizer")
OneBundle == {optimized}
OneMode == optimized :> "optimizer"
MCImages == {tool, stranger}

(* Every bundle binds the same source and, where it has one, the same processor. *)
MCSourceOf == [b \in Bundles |-> tool]
MCProcessorOf == [b \in Bundles |-> tool]

(* Either a JSON document or the output of a passing test, with its summary. *)
MCOutputs == {json, pass, brief}
MCParsable == {json}
MCSummary == pass :> brief
=============================================================================
