------------------------------- MODULE Selector -------------------------------
(***************************************************************************)
(* The selector, src/src/selector.cpp, with the objective and the          *)
(* validation of src/src/model.cpp: a pure function from a request (a set  *)
(* of alternates, a policy, obligations, fences and the current authority) *)
(* to a decision.  The only state is the request, to which the upstream    *)
(* adds one candidate after the other.                                     *)
(*                                                                         *)
(* Statistics, explanations and reasons are left out, the reason for a     *)
(* stale exclusion apart: the outcome depends on it.  A path identity is a *)
(* natural number, 0 when absent; a capability mask is a set.              *)
(***************************************************************************)
EXTENDS Authority, Integers, SequencesExt

CONSTANTS
    Surface,        \* the candidates an upstream may supply
    Requests,       \* the requests to begin with
    MaxCandidates,  \* bound on how far a request grows
    Capabilities,   \* the bits of a capability mask
    MaxWeight,      \* limits::max_weight
    HealthScale, CostScale, RankScale,
    MaxSearch,      \* limits::max_search_limit
    MaxInt          \* INT64_MAX

\* The weights and scales of limits.hpp leave room in 64 bits: four terms of at
\* most 10^6 * 10^9 each.
ASSUME ScalesAssumption ==
    /\ MaxWeight \in Nat /\ HealthScale \in Nat /\ CostScale \in Nat
    /\ RankScale \in Nat /\ MaxInt \in Nat /\ MaxSearch \in Nat
    /\ IsFiniteSet(Capabilities)
    /\ MaxCandidates \in Nat
    /\ MaxWeight * HealthScale + MaxWeight * CostScale + MaxWeight * RankScale
         + MaxWeight * Cardinality(Capabilities) <= MaxInt

VARIABLE request

-----------------------------------------------------------------------------
(* Data. *)

\* eligible/ineligible/unknown and the like.
Tri == {"yes", "no", "unknown"}

PathEvidence ==
    [eligibility : Tri, freshness : Tri, reachability : Tri, capacity : Tri,
     capabilities : SUBSET Capabilities, health : Int, cost : Int]

AlternateCandidate ==
    [path : Nat, upstream_rank : Nat, withdrawn : BOOLEAN,
     authority : AuthorityVector, evidence : PathEvidence]

FailoverPolicy ==
    [generation : Nat, w_health : Int, w_cost : Int, w_rank : Int,
     w_capability : Int, min_score : Int, search_limit : Nat,
     allow_unknown_skip : BOOLEAN]

ServiceObligations ==
    [generation : Nat, required : SUBSET Capabilities, min_health : Int,
     max_cost : Int, require_reachable : BOOLEAN, require_capacity : BOOLEAN,
     require_fresh : BOOLEAN]

SelectionInput ==
    [incumbent : Nat, current : AuthorityVector, fenced : SUBSET Nat,
     policy : FailoverPolicy, obligations : ServiceObligations,
     completeness : {"complete", "partial", "unknown"},
     generation : Nat, expected : Nat, candidates : Seq(AlternateCandidate)]

ASSUME SurfaceAssumption ==
    /\ Surface \subseteq AlternateCandidate
    /\ Requests \subseteq SelectionInput

-----------------------------------------------------------------------------
(* Validation. *)

Weights(p) == {p.w_health, p.w_cost, p.w_rank, p.w_capability}

\* Mutant of ValidPolicy: only positive weights are bounded.
ValidPolicyOneSided(p) ==
    /\ p.generation # 0
    /\ \A w \in Weights(p) : w <= MaxWeight
    /\ p.search_limit \in 1 .. MaxSearch

\* Without the ranges of min_score and of the fields the selector does not use,
\* which are in Wire: more policies pass here than in the code.
ValidPolicy(p) ==
    /\ p.generation # 0
    /\ \A w \in Weights(p) : w \in -MaxWeight .. MaxWeight
    /\ p.search_limit \in 1 .. MaxSearch

ValidObligations(o) ==
    /\ o.generation # 0
    /\ o.min_health \in 0 .. HealthScale
    /\ o.max_cost \in 0 .. CostScale

ValidEvidence(e) ==
    /\ e.health \in 0 .. HealthScale
    /\ e.cost \in 0 .. CostScale

\* Of two entries for one path neither is authoritative: the set is refused.  The
\* set's identity, its size and whose evidence a member has are checked in Wire: more
\* sets pass here than in the code.
ValidSet(in) ==
    /\ in.generation # 0
    /\ \A i \in DOMAIN in.candidates :
         /\ in.candidates[i].path # 0
         /\ in.candidates[i].upstream_rank <= RankScale
         /\ ValidEvidence(in.candidates[i].evidence)
    /\ \A i, j \in DOMAIN in.candidates :
         in.candidates[i].path = in.candidates[j].path => i = j

-----------------------------------------------------------------------------
(* The objective. *)

\* The four terms; smaller cost and rank are better.
ScoreTerms(p, o, c) ==
    [health     |-> p.w_health * c.evidence.health,
     cost       |-> p.w_cost * (CostScale - c.evidence.cost),
     rank       |-> p.w_rank * (RankScale - c.upstream_rank),
     capability |-> p.w_capability * Cardinality(c.evidence.capabilities \cap o.required)]

Fits(n) == -MaxInt - 1 <= n /\ n <= MaxInt

\* checked_mul and checked_add, in the order compute_score applies them.
ScoreOk(t) ==
    /\ Fits(t.health) /\ Fits(t.cost) /\ Fits(t.rank) /\ Fits(t.capability)
    /\ Fits(t.health + t.cost)
    /\ Fits(t.health + t.cost + t.rank)
    /\ Fits(t.health + t.cost + t.rank + t.capability)

\* A candidate whose objective overflowed keeps the total it was born with.
Score(p, o, c) ==
    LET t == ScoreTerms(p, o, c)
    IN  IF ScoreOk(t) THEN t.health + t.cost + t.rank + t.capability ELSE 0

-----------------------------------------------------------------------------
(* The canonical order. *)

\* Mutant of CanonicalLess: the path does not break a tie.
CanonicalLessTied(in, a, b) ==
    LET sa == Score(in.policy, in.obligations, a)
        sb == Score(in.policy, in.obligations, b)
    IN  IF sa # sb THEN sa > sb ELSE a.upstream_rank < b.upstream_rank

\* Best score first, then upstream rank, then path identity.
CanonicalLess(in, a, b) ==
    LET sa == Score(in.policy, in.obligations, a)
        sb == Score(in.policy, in.obligations, b)
    IN  IF sa # sb THEN sa > sb
        ELSE IF a.upstream_rank # b.upstream_rank
        THEN a.upstream_rank < b.upstream_rank
        ELSE a.path < b.path

\* One step of a merge: the smaller head; a tie goes to the left run.
Take(in, left, right, m) ==
    IF /\ m.i < Len(left)
       /\ m.j < Len(right) => ~CanonicalLess(in, right[m.j + 1], left[m.i + 1])
    THEN [i |-> m.i + 1, j |-> m.j, scratch |-> Append(m.scratch, left[m.i + 1])]
    ELSE [i |-> m.i, j |-> m.j + 1, scratch |-> Append(m.scratch, right[m.j + 1])]

Nothing == [i |-> 0, j |-> 0, scratch |-> <<>>]

\* Two sorted runs into one.
MergeRuns(in, left, right) ==
    LET merge[k \in 0 .. Len(left) + Len(right)] ==
          IF k = 0 THEN Nothing ELSE Take(in, left, right, merge[k - 1])
    IN  merge[Len(left) + Len(right)].scratch

\* The ends of the runs: the last run may be short.
Cut(s, n) == IF n < Len(s) THEN n ELSE Len(s)

\* The b-th pair of runs, merged.
PairMerged(in, s, w, b) ==
    MergeRuns(in, SubSeq(s, (b - 1) * (2 * w) + 1, Cut(s, (b - 1) * (2 * w) + w)),
                  SubSeq(s, Cut(s, (b - 1) * (2 * w) + w) + 1,
                            Cut(s, (b - 1) * (2 * w) + 2 * w)))

\* Mutant of Pairs: a run that has no right neighbour is dropped.
PairsOnly(s, w) == Len(s) \div (2 * w)

Pairs(s, w) == (Len(s) + 2 * w - 1) \div (2 * w)

\* One pass merges the runs of `width` elements pairwise.
MergePass(in, s, width) ==
    LET merged[b \in 0 .. Pairs(s, width)] ==
          IF b = 0 THEN <<>> ELSE merged[b - 1] \o PairMerged(in, s, width, b)
    IN  merged[Pairs(s, width)]

\* One more pass, if a run is not the whole yet.
Pass(in, p) ==
    IF p.width < Len(in.candidates)
    THEN [width |-> 2 * p.width, data |-> MergePass(in, p.data, p.width)]
    ELSE p

\* deterministic_sort: passes of width 1, 2, 4, ... which is fewer passes than
\* there are elements.
Sorted(in) ==
    LET pass[k \in 0 .. Len(in.candidates)] ==
          IF k = 0 THEN [width |-> 1, data |-> in.candidates] ELSE Pass(in, pass[k - 1])
    IN  pass[Len(in.candidates)].data

-----------------------------------------------------------------------------
(* The gates. *)

\* The tri-state gates, in order; a gate the obligations waive is open.
Observations(c, o) ==
    << c.evidence.eligibility,
       IF o.require_fresh THEN c.evidence.freshness ELSE "yes",
       IF o.require_reachable THEN c.evidence.reachability ELSE "yes",
       IF o.require_capacity THEN c.evidence.capacity ELSE "yes" >>

\* The gates after them, all of them definite.
MeetsObligations(c, p, o) ==
    /\ o.required \subseteq c.evidence.capabilities
    /\ c.evidence.health >= o.min_health
    /\ c.evidence.cost <= o.max_cost
    /\ Score(p, o, c) >= p.min_score

\* Mutant of Verdict: what is unknown counts as a definite no.
VerdictClosedWorld(c, in) ==
    LET authority == Classify(c.authority, in.current)
        observed  == Observations(c, in.obligations)
    IN  IF \/ c.path = in.incumbent \/ c.withdrawn \/ c.path \in in.fenced
        THEN "excluded"
        ELSE IF authority = "stale" THEN "stale"
        ELSE IF authority = "unknown" THEN "indeterminate"
        ELSE IF \E i \in DOMAIN observed : observed[i] # "yes" THEN "excluded"
        ELSE IF MeetsObligations(c, in.policy, in.obligations) THEN "promotable"
        ELSE "excluded"

\* Mutant of Verdict: a fenced path is offered.
VerdictUnfenced(c, in) ==
    LET observed == Observations(c, in.obligations)
        doubt    == SelectInSeq(observed, LAMBDA v : v # "yes")
    IN  IF c.path = in.incumbent \/ c.withdrawn THEN "excluded"
        ELSE IF Classify(c.authority, in.current) # "current" THEN "stale"
        ELSE IF doubt # 0
        THEN IF observed[doubt] = "no" THEN "excluded" ELSE "indeterminate"
        ELSE IF MeetsObligations(c, in.policy, in.obligations) THEN "promotable"
        ELSE "excluded"

\* apply_gates: the first gate that does not let a candidate pass decides.
\* "stale" is an exclusion for the reason authority_stale.  A candidate whose
\* vector conflicts goes on: it makes the whole decision a refusal.
Verdict(c, in) ==
    LET authority == Classify(c.authority, in.current)
        observed  == Observations(c, in.obligations)
        doubt     == SelectInSeq(observed, LAMBDA v : v # "yes")
    IN  IF c.path = in.incumbent \/ c.withdrawn \/ c.path \in in.fenced
        THEN "excluded"
        ELSE IF authority = "stale" THEN "stale"
        ELSE IF authority = "unknown" THEN "indeterminate"
        ELSE IF ~ScoreOk(ScoreTerms(in.policy, in.obligations, c)) THEN "excluded"
        ELSE IF doubt # 0
        THEN IF observed[doubt] = "no" THEN "excluded" ELSE "indeterminate"
        ELSE IF MeetsObligations(c, in.policy, in.obligations) THEN "promotable"
        ELSE "excluded"

-----------------------------------------------------------------------------
(* The decision. *)

Refuse(outcome) == [outcome |-> outcome, selected |-> 0]

\* A generation the caller does not hold: ahead is a conflict, behind or absent
\* is stale.
Mismatch(class) ==
    Refuse(IF class = "conflict" THEN "refused_conflict" ELSE "refused_stale_authority")

\* Nothing was promotable among the members that were examined.
NothingFound(in, ranked, verdicts) ==
    Refuse(IF "indeterminate" \in Range(verdicts) THEN "indeterminate_unknown_member"
           ELSE IF Len(ranked) < Len(in.candidates) THEN "indeterminate_search_limit"
           ELSE IF in.completeness # "complete" THEN "indeterminate_incomplete_set"
           ELSE IF "stale" \in Range(verdicts) THEN "refused_stale_authority"
           ELSE "refused_proven_no_alternate")

\* The members the search limit leaves.
Foremost(in, sorted) == SubSeq(sorted, 1, Cut(sorted, in.policy.search_limit))

\* Mutant of Search: unknown members are always skipped.
SearchSkipping(in, ranked) ==
    LET verdicts == [i \in DOMAIN ranked |-> Verdict(ranked[i], in)]
        first    == SelectInSeq(verdicts, LAMBDA v : v = "promotable")
    IN  IF \E i \in DOMAIN ranked : Classify(ranked[i].authority, in.current) = "conflict"
        THEN Refuse("refused_conflict")
        ELSE IF first = 0 THEN NothingFound(in, ranked, verdicts)
        ELSE [outcome |-> "authorized", selected |-> ranked[first].path]

\* The first promotable member, unless a doubt comes before it.
Search(in, ranked) ==
    LET verdicts == [i \in DOMAIN ranked |-> Verdict(ranked[i], in)]
        first    == SelectInSeq(verdicts, LAMBDA v : v = "promotable")
        blocked  == SelectInSeq(verdicts, LAMBDA v : v = "indeterminate")
    IN  IF \E i \in DOMAIN ranked : Classify(ranked[i].authority, in.current) = "conflict"
        THEN Refuse("refused_conflict")
        ELSE IF first = 0 THEN NothingFound(in, ranked, verdicts)
        ELSE IF blocked \in 1 .. first /\ ~in.policy.allow_unknown_skip
        THEN Refuse("indeterminate_unknown_member")
        ELSE [outcome |-> "authorized", selected |-> ranked[first].path]

\* The bounded scan over the canonical order.
Decide(in) == Search(in, Foremost(in, Sorted(in)))

\* Selector::evaluate.
Evaluate(in) ==
    LET policy_class == ClassifyGeneration(in.policy.generation, in.current.policy)
        obligations_class ==
            ClassifyGeneration(in.obligations.generation, in.current.obligations)
    IN  IF ~ValidPolicy(in.policy) THEN Refuse("refused_policy_invalid")
        ELSE IF ~ValidObligations(in.obligations) THEN Refuse("refused_obligations_invalid")
        ELSE IF ~ValidSet(in) \/ in.incumbent = 0 THEN Refuse("refused_invalid_input")
        ELSE IF policy_class # "current" THEN Mismatch(policy_class)
        ELSE IF obligations_class # "current" THEN Mismatch(obligations_class)
        ELSE IF in.expected # 0 /\ in.expected # in.generation
        THEN Mismatch(ClassifyGeneration(in.expected, in.generation))
        ELSE Decide(in)

-----------------------------------------------------------------------------
(* The request grows. *)

Init == request \in Requests

\* The upstream names one more member.
Supply(c) ==
    /\ Len(request.candidates) < MaxCandidates
    /\ request' = [request EXCEPT !.candidates = Append(@, c)]

Next == \E c \in Surface : Supply(c)

Spec == Init /\ [][Next]_request

-----------------------------------------------------------------------------
(* Properties. *)

\* A request built from well-formed parts is well formed.
TypeOK == request \in SelectionInput

Decision == Evaluate(request)

Rearranged(in, order) ==
    [in EXCEPT !.candidates = [i \in DOMAIN @ |-> @[order[i]]]]

\* The decision does not depend on the order in which members were supplied:
\* canonical_less is total on a valid set, and deterministic_sort sorts.
OrderIndependent ==
    \A order \in Bijection(DOMAIN request.candidates, DOMAIN request.candidates) :
        Evaluate(Rearranged(request, order)) = Decision

\* deterministic_sort, with runs of every width and a last run that may have no
\* neighbour, returns the members of the set, none lost and none twice, each
\* before every member it precedes in the canonical order.
SortIsCanonical ==
    ValidSet(request) =>
        LET s == Sorted(request)
        IN  /\ Len(s) = Len(request.candidates)
            /\ Range(s) = Range(request.candidates)
            /\ \A i, j \in DOMAIN s : i < j => CanonicalLess(request, s[i], s[j])

\* The ways a doubt may be resolved.
Settled(t) == IF t = "unknown" THEN {"yes", "no"} ELSE {t}

Observed(c, eligible, fresh, reachable, capacity) ==
    [c EXCEPT !.evidence = [@ EXCEPT !.eligibility = eligible, !.freshness = fresh,
                                     !.reachability = reachable, !.capacity = capacity]]

Resolved(c) ==
    {Observed(c, a, b, d, e) :
        a \in Settled(c.evidence.eligibility), b \in Settled(c.evidence.freshness),
        d \in Settled(c.evidence.reachability), e \in Settled(c.evidence.capacity)}

\* The candidate lists without a doubt that agree with the one supplied.
Resolutions(in) ==
    {w \in [DOMAIN in.candidates -> UNION {Resolved(c) : c \in Range(in.candidates)}] :
        \A i \in DOMAIN w : w[i] \in Resolved(in.candidates[i])}

\* Fail closed: unless the policy allows skipping unknown members, the path
\* that is authorized is the one that would have been selected whatever the
\* unknown observations turn out to be.
FailClosed ==
    Decision.outcome = "authorized" /\ ~request.policy.allow_unknown_skip =>
        \A w \in Resolutions(request) :
            Evaluate([request EXCEPT !.candidates = w]) = Decision

\* Proof of absence: after REFUSED_PROVEN_NO_ALTERNATE nothing can be selected,
\* however the unknowns are resolved, with every member declared again under
\* the current authority, without the search limit, and, unless the upstream
\* declared its set complete, with one more member.
ProofOfAbsence ==
    Decision.outcome = "refused_proven_no_alternate" =>
        \A w \in Resolutions(request) :
            LET declared == [i \in DOMAIN w |-> [w[i] EXCEPT !.authority = request.current]]
                worlds   == IF request.completeness = "complete" THEN {declared}
                            ELSE {Append(declared, c) : c \in Surface}
            IN  \A world \in worlds :
                    Evaluate([request EXCEPT !.candidates = world,
                                             !.policy.search_limit = MaxSearch]).selected = 0

\* What the coordinator relies on when it grants a promotion: the path is a
\* member of the set, is not the incumbent, is not fenced, and was declared
\* under the vector the grant is bound to, and no better member is promotable.
SelectionIsBest ==
    Decision.outcome = "authorized" =>
        \E c \in Range(request.candidates) :
            /\ c.path = Decision.selected
            /\ c.path # request.incumbent
            /\ c.path \notin request.fenced
            /\ Classify(c.authority, request.current) = "current"
            /\ \A d \in Range(request.candidates) :
                 CanonicalLess(request, d, c) => Verdict(d, request) # "promotable"

\* compute_score never overflows: a policy that passed validation cannot make
\* a term or a partial sum leave 64 bits, so the score_overflow gate is dead.
NoOverflow ==
    ValidPolicy(request.policy) /\ ValidSet(request) =>
        \A c \in Range(request.candidates) :
            ScoreOk(ScoreTerms(request.policy, request.obligations, c))
==============================================================================
