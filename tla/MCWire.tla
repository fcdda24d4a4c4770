--------------------------------- MODULE MCWire ---------------------------------
(***************************************************************************)
(* Every kind of document, in four forms: nothing but zeros; fields that   *)
(* differ and full lists; negative numbers and full strings; and the top   *)
(* of every range with lists and strings one too long.                     *)
(***************************************************************************)
EXTENDS Wire

SmallLimits ==
    [max_candidates_per_set |-> 2, max_assessments_reported |-> 2,
     max_indeterminate_reported |-> 2, max_explanation_steps |-> 2, max_lineage |-> 2,
     max_reason_bytes |-> 3, max_name_bytes |-> 3, max_record_payload |-> 420,
     max_attempts |-> 1000, max_search_limit |-> 1000, max_weight |-> 500,
     health_scale |-> 1000, cost_scale |-> 2000, rank_scale |-> 300]

Forms == {"zero", "tagged", "minus", "top"}

Number1(type, form, tag) ==
    CASE form = "zero" -> 0
      [] form \in {"tagged", "minus"} -> tag % (type.most + 1)
      [] form = "top" -> type.most

Signed1(form, tag) ==
    CASE form = "zero" -> 0
      [] form = "tagged" -> tag
      [] form = "minus" -> -tag
      [] form = "top" -> -Half

Length1(most, form) ==
    CASE form = "zero" -> 0
      [] form = "tagged" -> SmallLimits[most]
      [] form = "minus" -> 1
      [] form = "top" -> SmallLimits[most] + 1

\* The total is the sum; a candidate's evidence is about the candidate.
Consistent(name, v) ==
    CASE name = "assessment" /\ v[<<"terms", "total">>] > -1000 ->
           [v EXCEPT ![<<"terms", "total">>] =
              v[<<"terms", "health">>] + v[<<"terms", "cost">>] + v[<<"terms", "rank">>]
                + v[<<"terms", "capability">>]]
      [] name = "candidate" -> [v EXCEPT ![<<"evidence", "path">>] = v[<<"path">>]]
      [] name = "lineage_body" -> [v EXCEPT ![<<"limit">>] = Least(v[<<"limit">>], 2)]
      [] OTHER -> v

RECURSIVE Sample(_, _, _), SampleDoc(_, _, _)
Sample(type, form, tag) ==
    CASE type.as = "number" -> Number1(type, form, tag)
      [] type.as = "signed" -> Signed1(form, tag)
      [] type.as = "bool" -> form = "top" \/ (form # "zero" /\ tag % 2 = 1)
      [] type.as = "string" -> [i \in 1 .. Length1(type.most, form) |-> i]
      [] type.as = "list" ->
           [i \in 1 .. Length1(type.most, form) |-> SampleDoc(type.of, form, tag + 20 * i)]

SampleDoc(name, form, tag) ==
    Consistent(name,
      Named(Get[name],
        [i \in DOMAIN Get[name] |-> Sample(Get[name][i][2], form, tag + i)]))

MCDocuments ==
    {[kind |-> k, parts |-> [i \in DOMAIN k |-> SampleDoc(k[i], form, 20 * (i - 1))]] :
       k \in Kinds, form \in Forms}
==============================================================================
