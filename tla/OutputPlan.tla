----------------------------- MODULE OutputPlan -----------------------------
(***************************************************************************)
(* The typed output projection of internal/domain/tailoring: which fields  *)
(* of a source record are selected, in which order and under which names.  *)
(***************************************************************************)
EXTENDS SourceCatalog
LOCAL INSTANCE SequencesExt

Distinct(s) == \A i, j \in DOMAIN s : s[i] = s[j] => i = j

\* The names of the result after the first n renames, applied in order.
NamesAfter(plan) ==
    LET names[n \in 0..Len(plan.rename)] ==
            IF n = 0 THEN ToSet(plan.select)
            ELSE (names[n - 1] \ {plan.rename[n].from}) \cup {plan.rename[n].to}
    IN names

\* OutputPlan.validate: each source is selected and renamed once, and a target
\* meets none of the names that are left when its rename is applied.
ValidOutputPlan(plan) ==
    /\ plan.input = "json"
    /\ Len(plan.select) \in 1..Limit.fields
    /\ \A i \in DOMAIN plan.select : StableName(plan.select[i])
    /\ Distinct(plan.select)
    /\ Bounded(plan.rename, Limit.fields)
    /\ Distinct([i \in DOMAIN plan.rename |-> plan.rename[i].from])
    /\ \A i \in DOMAIN plan.rename :
          LET r == plan.rename[i] IN
             /\ StableName(r.to)
             /\ r.from \in ToSet(plan.select)
             /\ r.to \notin NamesAfter(plan)[i - 1] \ {r.from}
    /\ plan.render = "compact_json"

\* finalFieldNames: the last rename of a field gives its name.
FinalNames(plan) ==
    [i \in DOMAIN plan.select |->
        LET of == {k \in DOMAIN plan.rename : plan.rename[k].from = plan.select[i]}
        IN IF of = {} THEN plan.select[i]
           ELSE plan.rename[CHOOSE k \in of : \A l \in of : l <= k].to]
=============================================================================
