------------------------------ MODULE MCSelector ------------------------------
(***************************************************************************)
(* Bounded requests for the selector.  Some begin empty and are given any  *)
(* two candidates that differ from a good one in one respect (the gates);  *)
(* others begin full, with three or four candidates in every order, that   *)
(* differ only in what orders them (the sort).                             *)
(***************************************************************************)
EXTENDS Selector

CONSTANTS capability

CapabilityBits == {capability}

Vector(n) ==
    [topology |-> n, path_authority |-> 2, policy |-> 2, obligations |-> 2,
     epoch |-> 2, boot |-> 2]

Now == Vector(2)

GoodEvidence ==
    [eligibility |-> "yes", freshness |-> "yes", reachability |-> "yes",
     capacity |-> "yes", capabilities |-> {capability}, health |-> 2, cost |-> 1]

Good == [path |-> 1, upstream_rank |-> 1, withdrawn |-> FALSE,
         authority |-> Now, evidence |-> GoodEvidence]

\* One candidate per gate and outcome of the gate, and two that only order.
Templates ==
    {[Good EXCEPT !.evidence = e] :
        e \in {GoodEvidence,
               [GoodEvidence EXCEPT !.eligibility = "no"],
               [GoodEvidence EXCEPT !.eligibility = "unknown", !.health = 1],
               [GoodEvidence EXCEPT !.freshness = "no"],
               [GoodEvidence EXCEPT !.freshness = "unknown"],
               [GoodEvidence EXCEPT !.reachability = "unknown", !.capacity = "no"],
               [GoodEvidence EXCEPT !.capacity = "unknown"],
               [GoodEvidence EXCEPT !.capabilities = {}],
               [GoodEvidence EXCEPT !.health = 0],
               [GoodEvidence EXCEPT !.health = 1],
               [GoodEvidence EXCEPT !.cost = 2]}}
      \cup {[Good EXCEPT !.authority = v] : v \in {Vector(0), Vector(1), Vector(3)}}
      \cup {[Good EXCEPT !.withdrawn = TRUE], [Good EXCEPT !.upstream_rank = 0]}

AnyGate == {[t EXCEPT !.path = p] : t \in Templates, p \in 1 .. 3}

\* Ties in the score, ties in score and rank, and a doubt.
Orders ==
    {[Good EXCEPT !.path = p, !.upstream_rank = p % 2] : p \in 1 .. 5}
      \cup {[Good EXCEPT !.path = p, !.evidence.eligibility = "unknown"] : p \in {1, 2}}

Request ==
    [incumbent |-> 9, current |-> Now, fenced |-> {},
     policy |-> [generation |-> 2, w_health |-> 1, w_cost |-> 1, w_rank |-> 1,
                 w_capability |-> 1, min_score |-> 0, search_limit |-> 4,
                 allow_unknown_skip |-> FALSE],
     obligations |-> [generation |-> 2, required |-> {capability}, min_health |-> 1,
                      max_cost |-> 1, require_reachable |-> TRUE,
                      require_capacity |-> TRUE, require_fresh |-> TRUE],
     completeness |-> "complete", generation |-> 1, expected |-> 1,
     candidates |-> <<>>]

Policies ==
    {[Request.policy EXCEPT !.search_limit = limit, !.allow_unknown_skip = skip] :
        limit \in {1, 4}, skip \in BOOLEAN}

\* Requests that are refused before a candidate is looked at.
Refused ==
    {[Request EXCEPT !.policy.generation = g] : g \in 0 .. 3}
      \cup {[Request EXCEPT !.obligations.generation = g] : g \in {1, 3}}
      \cup {[Request EXCEPT !.expected = g] : g \in {0, 2}}

GateRequests ==
    {[Request EXCEPT !.policy = p, !.completeness = c, !.incumbent = i, !.fenced = f] :
        p \in Policies, c \in {"complete", "partial"}, i \in {1, 9}, f \in {{}, {2}}}
      \cup {[Request EXCEPT !.obligations.require_fresh = FALSE,
                            !.obligations.require_capacity = FALSE],
            [Request EXCEPT !.policy.min_score = 5],
            [Request EXCEPT !.policy.w_health = -1],
            [Request EXCEPT !.policy.w_health = -7]}

OrderRequests ==
    {[Request EXCEPT !.policy = p, !.candidates = s] :
        p \in Policies, s \in UNION {[1 .. n -> Orders] : n \in 3 .. 4}}

AllRequests == GateRequests \cup Refused \cup OrderRequests
==============================================================================
