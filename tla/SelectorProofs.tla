---------------------------- MODULE SelectorProofs ----------------------------
(***************************************************************************)
(* What the selector promises, for requests with any number of candidates  *)
(* and every value of the scales and weights that satisfies                *)
(* ScalesAssumption: the objective cannot overflow; deterministic_sort     *)
(* sorts; the decision is the best one, does not depend on the order of    *)
(* the candidates, stands when doubts are resolved, and is a proof when it *)
(* says that there is no alternate.                                        *)
(***************************************************************************)
EXTENDS Selector, FiniteSetTheorems, SequenceTheorems, NaturalsInduction, WellFoundedInduction,
        TLAPS

\* A product of a bounded weight and a bounded natural number is bounded.
LEMMA ProductBound ==
    ASSUME NEW W \in Nat, NEW w \in -W .. W, NEW H \in Nat, NEW h \in 0 .. H
    PROVE  /\ w * h \in Int
           /\ W * H \in Nat
           /\ -(W * H) <= w * h
           /\ w * h <= W * H
<1>1. w * h \in Int /\ W * H \in Nat /\ W * h \in Int
  OBVIOUS
<1>2. W * h <= W * H
  OBVIOUS
<1>3. w * h <= W * h /\ -(W * h) <= w * h
  OBVIOUS
<1> QED
  BY <1>1, <1>2, <1>3

\* The number of required capabilities a candidate has is at most all of them.
LEMMA CapabilityBound ==
    ASSUME NEW S \in SUBSET Capabilities, NEW T \in SUBSET Capabilities
    PROVE  Cardinality(S \cap T) \in 0 .. Cardinality(Capabilities)
<1>1. IsFiniteSet(Capabilities)
  BY ScalesAssumption
<1>2. S \cap T \subseteq Capabilities
  OBVIOUS
<1>3. IsFiniteSet(S \cap T)
  BY <1>1, <1>2, FS_Subset
<1> QED
  BY <1>1, <1>2, <1>3, FS_Subset, FS_CardinalityType

\* No term and no partial sum of compute_score leaves 64 bits when the policy,
\* the candidate's rank and its evidence passed validation.
LEMMA ScoreFits ==
    ASSUME NEW p \in FailoverPolicy, NEW o \in ServiceObligations,
           NEW c \in AlternateCandidate,
           ValidPolicy(p), ValidEvidence(c.evidence), c.upstream_rank <= RankScale
    PROVE  ScoreOk(ScoreTerms(p, o, c))
<1> DEFINE N == Cardinality(Capabilities)
           n == Cardinality(c.evidence.capabilities \cap o.required)
           t == ScoreTerms(p, o, c)
<1>1. /\ MaxWeight \in Nat /\ HealthScale \in Nat /\ CostScale \in Nat
      /\ RankScale \in Nat /\ MaxInt \in Nat /\ N \in Nat
  BY ScalesAssumption, FS_CardinalityType
<1>2. /\ p.w_health \in -MaxWeight .. MaxWeight
      /\ p.w_cost \in -MaxWeight .. MaxWeight
      /\ p.w_rank \in -MaxWeight .. MaxWeight
      /\ p.w_capability \in -MaxWeight .. MaxWeight
  BY DEF ValidPolicy, Weights
<1>3. /\ c.evidence.health \in 0 .. HealthScale
      /\ CostScale - c.evidence.cost \in 0 .. CostScale
      /\ RankScale - c.upstream_rank \in 0 .. RankScale
  BY <1>1 DEF ValidEvidence, AlternateCandidate
<1>4. n \in 0 .. N
  BY CapabilityBound DEF AlternateCandidate, PathEvidence, ServiceObligations
<1>5. /\ t.health = p.w_health * c.evidence.health
      /\ t.cost = p.w_cost * (CostScale - c.evidence.cost)
      /\ t.rank = p.w_rank * (RankScale - c.upstream_rank)
      /\ t.capability = p.w_capability * n
  BY DEF ScoreTerms
<1> HIDE DEF n, t, N
<1> DEFINE a == MaxWeight * HealthScale
           b == MaxWeight * CostScale
           d == MaxWeight * RankScale
           e == MaxWeight * N
<1>6. t.health \in Int /\ a \in Nat /\ -a <= t.health /\ t.health <= a
  BY <1>1, <1>2, <1>3, <1>5, ProductBound
<1>7. t.cost \in Int /\ b \in Nat /\ -b <= t.cost /\ t.cost <= b
  BY <1>1, <1>2, <1>3, <1>5, ProductBound
<1>8. t.rank \in Int /\ d \in Nat /\ -d <= t.rank /\ t.rank <= d
  BY <1>1, <1>2, <1>3, <1>5, ProductBound
<1>9. t.capability \in Int /\ e \in Nat /\ -e <= t.capability /\ t.capability <= e
  BY <1>1, <1>2, <1>4, <1>5, ProductBound
<1>10. a + b + d + e <= MaxInt
  BY ScalesAssumption DEF N
<1> HIDE DEF a, b, d, e
<1>11. ScoreOk(t)
  BY <1>1, <1>6, <1>7, <1>8, <1>9, <1>10 DEF ScoreOk, Fits
<1> QED
  BY <1>11 DEF t

\* Requests stay well formed, whatever candidates are supplied.
LEMMA RequestsTyped == Spec => []TypeOK
<1>1. Init => TypeOK
  BY SurfaceAssumption DEF Init, TypeOK
<1>2. TypeOK /\ [Next]_request => TypeOK'
  <2>1. SUFFICES ASSUME TypeOK, NEW c \in Surface, Supply(c) PROVE TypeOK'
    BY DEF Next, TypeOK
  <2>2. c \in AlternateCandidate
    BY SurfaceAssumption
  <2>3. Append(request.candidates, c) \in Seq(AlternateCandidate)
    BY <2>1, <2>2 DEF TypeOK, SelectionInput
  <2> QED
    BY <2>1, <2>3 DEF TypeOK, Supply, SelectionInput
<1> QED
  BY <1>1, <1>2, PTL DEF Spec

\* The score_overflow gate never fires: for every scale, weight bound and
\* integer width that ScalesAssumption admits, compute_score of a validated
\* policy and set stays in range.
THEOREM ScoreNeverOverflows == Spec => []NoOverflow
<1>1. TypeOK => NoOverflow
  <2>1. SUFFICES ASSUME TypeOK, ValidPolicy(request.policy), ValidSet(request),
                        NEW i \in DOMAIN request.candidates
                 PROVE  ScoreOk(ScoreTerms(request.policy, request.obligations,
                                           request.candidates[i]))
    BY DEF NoOverflow, Range
  <2>2. /\ request.policy \in FailoverPolicy
        /\ request.obligations \in ServiceObligations
        /\ request.candidates[i] \in AlternateCandidate
    BY <2>1 DEF TypeOK, SelectionInput
  <2>3. /\ ValidEvidence(request.candidates[i].evidence)
        /\ request.candidates[i].upstream_rank <= RankScale
    BY <2>1 DEF ValidSet
  <2> QED
    BY <2>1, <2>2, <2>3, ScoreFits
<1> QED
  BY <1>1, RequestsTyped, PTL

-----------------------------------------------------------------------------
(* Recursive functions over 0 .. N.  An induction is an argument about the *)
(* least number at which its statement would fail.                         *)

\* What holds at 0 and passes from each number to the next holds up to N.
LEMMA Climb ==
    ASSUME NEW N \in Nat, NEW I, 0 \in I,
           \A n \in 1 .. N : n - 1 \in I => n \in I
    PROVE  0 .. N \subseteq I
<1> DEFINE Bad == {n \in 0 .. N : n \notin I}
           R == {ss \in Nat \X Nat : ss[1] < ss[2]}
<1>1. SUFFICES ASSUME Bad # {}
               PROVE  FALSE
    OBVIOUS
<1>2. IsWellFoundedOn(R, Nat)
    BY NatLessThanWellFounded DEF OpToRel
<1>3. PICK n \in Bad : \A m \in Bad : ~(<<m, n>> \in R)
    <2>1. Bad \subseteq Nat
        OBVIOUS
    <2> HIDE DEF R, Bad
    <2> QED BY <1>1, <1>2, <2>1, WFMin
<1>4. n \in 1 .. N /\ n - 1 \in 0 .. N /\ n - 1 < n /\ n - 1 \in Nat /\ n \in Nat
    BY <1>3
<1>5. n - 1 \notin Bad
    BY <1>3, <1>4
<1> QED BY <1>3, <1>4, <1>5

\* f starts with a, goes on with g, and has its values in the sets W[n].
Runs(f, N, W, a, g) ==
    /\ f = [n \in 0 .. N |-> IF n = 0 THEN a ELSE g[<<n, f[n - 1]>>]]
    /\ \A n \in 0 .. N : f[n] \in W[n]

\* Such a function exists, if g leads from each of the sets to the next.
LEMMA Recursion ==
    ASSUME NEW N \in Nat, NEW W, NEW a, NEW g, a \in W[0],
           \A n \in 1 .. N : \A v \in W[n - 1] : g[<<n, v>>] \in W[n]
    PROVE  \E f : Runs(f, N, W, a, g)
<1> DEFINE I == {m \in 0 .. N : \E f : Runs(f, m, W, a, g)}
<1>1. 0 \in I
    <2> DEFINE f == [n \in 0 .. 0 |-> a]
    <2>1. \A n \in 0 .. 0 : n = 0
        OBVIOUS
    <2>2. f = [n \in 0 .. 0 |-> IF n = 0 THEN a ELSE g[<<n, f[n - 1]>>]]
        BY <2>1
    <2>3. \A n \in 0 .. 0 : f[n] \in W[n]
        BY <2>1
    <2>4. Runs(f, 0, W, a, g)
        BY <2>2, <2>3 DEF Runs
    <2> HIDE DEF f
    <2> QED BY <2>4
<1>2. ASSUME NEW m \in 1 .. N, m - 1 \in I
      PROVE  m \in I
    <2>0. PICK f : Runs(f, m - 1, W, a, g)
        BY <1>2
    <2>1. /\ f = [n \in 0 .. m - 1 |-> IF n = 0 THEN a ELSE g[<<n, f[n - 1]>>]]
          /\ \A n \in 0 .. m - 1 : f[n] \in W[n]
        BY <2>0 DEF Runs
    <2> DEFINE h == [n \in 0 .. m |-> IF n = m THEN g[<<m, f[m - 1]>>] ELSE f[n]]
    <2>2. m - 1 \in 0 .. m - 1 /\ m \in 0 .. m /\ m # 0
        OBVIOUS
    <2>3. \A n \in 0 .. m : n # m => n \in 0 .. m - 1
        OBVIOUS
    <2>4. \A n \in 0 .. m - 1 : h[n] = f[n] /\ n \in 0 .. m
        OBVIOUS
    <2>5. \A n \in 0 .. m - 1 : f[n] = IF n = 0 THEN a ELSE g[<<n, f[n - 1]>>]
        BY <2>1
    <2>6. h[m] = g[<<m, f[m - 1]>>]
        BY <2>2
    <2>7. ASSUME NEW n \in 0 .. m
          PROVE  h[n] = IF n = 0 THEN a ELSE g[<<n, h[n - 1]>>]
        <3>1. n # 0 => n - 1 \in 0 .. m - 1
            OBVIOUS
        <3>2. n # 0 => h[n - 1] = f[n - 1]
            BY <2>4, <3>1
        <3>3. CASE n = m
            BY <2>2, <2>6, <3>2, <3>3
        <3>4. CASE n # m
            BY <2>3, <2>4, <2>5, <3>2, <3>4
        <3> QED BY <3>3, <3>4
    <2>8. ASSUME NEW n \in 0 .. m
          PROVE  h[n] \in W[n]
        <3>1. CASE n = m
            BY <1>2, <2>1, <2>2, <2>6, <3>1
        <3>2. CASE n # m
            BY <2>1, <2>3, <2>4, <3>2
        <3> QED BY <3>1, <3>2
    <2>9. h = [n \in 0 .. m |-> h[n]]
        OBVIOUS
    <2> HIDE DEF h
    <2>10. h = [n \in 0 .. m |-> IF n = 0 THEN a ELSE g[<<n, h[n - 1]>>]]
        BY <2>7, <2>9
    <2>11. Runs(h, m, W, a, g)
        BY <2>8, <2>10 DEF Runs
    <2>12. m \in 0 .. N
        OBVIOUS
    <2> QED BY <2>11, <2>12
<1>3. 0 .. N \subseteq I
    <2> HIDE DEF I
    <2> QED BY <1>1, <1>2, Climb
<1>4. N \in I
    <2> HIDE DEF I
    <2> QED BY <1>3
<1> QED BY <1>4

-----------------------------------------------------------------------------
(* The canonical order. *)

\* The parts of a request that order candidates.
Ranks(in) == in.policy \in FailoverPolicy /\ in.obligations \in ServiceObligations

LEMMA ScoreType ==
    ASSUME NEW in, Ranks(in), NEW c \in AlternateCandidate
    PROVE  Score(in.policy, in.obligations, c) \in Int
<1> DEFINE n == Cardinality(c.evidence.capabilities \cap in.obligations.required)
           t == ScoreTerms(in.policy, in.obligations, c)
<1>1. n \in Nat
    <2>1. n \in 0 .. Cardinality(Capabilities) /\ Cardinality(Capabilities) \in Nat
        BY CapabilityBound, ScalesAssumption, FS_CardinalityType
           DEF Ranks, AlternateCandidate, PathEvidence, ServiceObligations
    <2> QED BY <2>1
<1>2. /\ in.policy.w_health \in Int /\ in.policy.w_cost \in Int
      /\ in.policy.w_rank \in Int /\ in.policy.w_capability \in Int
      /\ c.evidence.health \in Int /\ c.evidence.cost \in Int /\ c.upstream_rank \in Int
      /\ CostScale \in Int /\ RankScale \in Int
    BY ScalesAssumption DEF Ranks, FailoverPolicy, AlternateCandidate, PathEvidence
<1>3. /\ t.health = in.policy.w_health * c.evidence.health
      /\ t.cost = in.policy.w_cost * (CostScale - c.evidence.cost)
      /\ t.rank = in.policy.w_rank * (RankScale - c.upstream_rank)
      /\ t.capability = in.policy.w_capability * n
    BY DEF ScoreTerms
<1> HIDE DEF n, t
<1>4. t.health \in Int /\ t.cost \in Int /\ t.rank \in Int /\ t.capability \in Int
    BY <1>1, <1>2, <1>3
<1>5. Score(in.policy, in.obligations, c) =
          IF ScoreOk(t) THEN t.health + t.cost + t.rank + t.capability ELSE 0
    BY DEF Score, t
<1> QED BY <1>4, <1>5

\* It is a total order up to the path: it has no cycles, what is not less in
\* either direction has the same path, and not being less is transitive.
LEMMA CanonicalOrder ==
    ASSUME NEW in, Ranks(in), NEW a \in AlternateCandidate,
           NEW b \in AlternateCandidate, NEW c \in AlternateCandidate
    PROVE  /\ CanonicalLess(in, a, b) => ~CanonicalLess(in, b, a)
           /\ ~CanonicalLess(in, a, a)
           /\ a.path # b.path /\ ~CanonicalLess(in, b, a) => CanonicalLess(in, a, b)
           /\ ~CanonicalLess(in, b, a) /\ ~CanonicalLess(in, c, b)
                => ~CanonicalLess(in, c, a)
<1> DEFINE sc(x) == Score(in.policy, in.obligations, x)
<1>1. sc(a) \in Int /\ sc(b) \in Int /\ sc(c) \in Int
    BY ScoreType
<1>2. /\ a.upstream_rank \in Nat /\ b.upstream_rank \in Nat /\ c.upstream_rank \in Nat
      /\ a.path \in Nat /\ b.path \in Nat /\ c.path \in Nat
    BY DEF AlternateCandidate
<1>3. \A x, y : CanonicalLess(in, x, y) <=>
          IF sc(x) # sc(y) THEN sc(x) > sc(y)
          ELSE IF x.upstream_rank # y.upstream_rank
          THEN x.upstream_rank < y.upstream_rank
          ELSE x.path < y.path
    BY DEF CanonicalLess
<1> HIDE DEF sc
<1> QED BY <1>1, <1>2, <1>3

-----------------------------------------------------------------------------
(* Merging two runs. *)

\* No element is less than an earlier one.
InOrder(in, s) == \A i, j \in 1 .. Len(s) : i < j => ~CanonicalLess(in, s[j], s[i])

\* The first n elements.
First(s, n) == {s[x] : x \in 1 .. n}

\* None of the elements of u from the n-th on is less than one of s.
NoneBefore(in, s, u, n) ==
    \A x \in 1 .. Len(s) : \A y \in n .. Len(u) : ~CanonicalLess(in, u[y], s[x])

\* After k steps.
Merging(in, left, right, k, m) ==
    /\ m.i \in 0 .. Len(left) /\ m.j \in 0 .. Len(right) /\ m.i + m.j = k
    /\ m.scratch \in Seq(AlternateCandidate) /\ Len(m.scratch) = k
    /\ First(m.scratch, k) = First(left, m.i) \cup First(right, m.j)
    /\ InOrder(in, m.scratch)
    /\ NoneBefore(in, m.scratch, left, m.i + 1)
    /\ NoneBefore(in, m.scratch, right, m.j + 1)

\* Element i + 1 of u comes after those of s and before the rest of u and v.
Follows(in, s, u, i, v, j) ==
    /\ s \in Seq(AlternateCandidate) /\ u \in Seq(AlternateCandidate)
    /\ v \in Seq(AlternateCandidate)
    /\ InOrder(in, s) /\ InOrder(in, u)
    /\ i \in 0 .. Len(u) - 1 /\ j \in 0 .. Len(v)
    /\ NoneBefore(in, s, u, i + 1) /\ NoneBefore(in, s, v, j + 1)
    /\ \A y \in j + 1 .. Len(v) : ~CanonicalLess(in, v[y], u[i + 1])

LEMMA AppendOrdered ==
    ASSUME NEW in, NEW s, NEW u, NEW i, NEW v, NEW j, Follows(in, s, u, i, v, j)
    PROVE  /\ Append(s, u[i + 1]) \in Seq(AlternateCandidate)
           /\ Len(Append(s, u[i + 1])) = Len(s) + 1
           /\ First(Append(s, u[i + 1]), Len(s) + 1) = First(s, Len(s)) \cup {u[i + 1]}
           /\ First(u, i + 1) = First(u, i) \cup {u[i + 1]}
           /\ InOrder(in, Append(s, u[i + 1]))
           /\ NoneBefore(in, Append(s, u[i + 1]), u, i + 2)
           /\ NoneBefore(in, Append(s, u[i + 1]), v, j + 1)
<1> DEFINE c == u[i + 1]
           t == Append(s, c)
           n == Len(s)
<1>0. /\ s \in Seq(AlternateCandidate) /\ u \in Seq(AlternateCandidate)
      /\ v \in Seq(AlternateCandidate)
      /\ InOrder(in, s) /\ InOrder(in, u)
      /\ i \in 0 .. Len(u) - 1 /\ j \in 0 .. Len(v)
      /\ NoneBefore(in, s, u, i + 1) /\ NoneBefore(in, s, v, j + 1)
      /\ \A y \in j + 1 .. Len(v) : ~CanonicalLess(in, v[y], u[i + 1])
    BY DEF Follows
<1>1. /\ i + 1 \in 1 .. Len(u) /\ Len(u) \in Nat /\ Len(v) \in Nat /\ n \in Nat
      /\ i \in Nat /\ j \in Nat
    BY <1>0
<1>2. c \in AlternateCandidate
    BY <1>0, <1>1
<1> HIDE DEF c
<1>3. /\ t \in Seq(AlternateCandidate) /\ Len(t) = n + 1 /\ t[n + 1] = c
      /\ \A x \in 1 .. n : t[x] = s[x]
    BY <1>0, <1>2
<1> HIDE DEF t
<1>4. \A x \in 1 .. n + 1 : x \in 1 .. n \/ x = n + 1
    BY <1>1
<1>5. First(t, n + 1) = First(s, n) \cup {c}
    <2>1. \A x \in 1 .. n : x \in 1 .. n + 1
        BY <1>1
    <2>2. n + 1 \in 1 .. n + 1
        BY <1>1
    <2> QED BY <1>3, <1>4, <2>1, <2>2 DEF First
<1>6. First(u, i + 1) = First(u, i) \cup {c}
    <2>1. \A x \in 1 .. i + 1 : x \in 1 .. i \/ x = i + 1
        BY <1>1
    <2>2. \A x \in 1 .. i : x \in 1 .. i + 1
        BY <1>1
    <2>3. i + 1 \in 1 .. i + 1
        BY <1>1
    <2> QED BY <2>1, <2>2, <2>3 DEF First, c
<1>7. \A x \in 1 .. n : ~CanonicalLess(in, c, s[x])
    <2>1. i + 1 \in i + 1 .. Len(u)
        BY <1>1
    <2> QED BY <1>0, <2>1 DEF NoneBefore, c
<1>8. InOrder(in, t)
    <2> SUFFICES ASSUME NEW x \in 1 .. n + 1, NEW y \in 1 .. n + 1, x < y
                 PROVE  ~CanonicalLess(in, t[y], t[x])
        BY <1>3 DEF InOrder
    <2>1. x \in 1 .. n
        BY <1>1
    <2>2. CASE y \in 1 .. n
        BY <1>0, <1>3, <2>1, <2>2 DEF InOrder
    <2>3. CASE y = n + 1
        BY <1>3, <1>7, <2>1, <2>3
    <2> QED BY <1>4, <2>2, <2>3
<1>9. NoneBefore(in, t, u, i + 2)
    <2> SUFFICES ASSUME NEW x \in 1 .. n + 1, NEW y \in i + 2 .. Len(u)
                 PROVE  ~CanonicalLess(in, u[y], t[x])
        BY <1>3 DEF NoneBefore
    <2>1. y \in i + 1 .. Len(u) /\ y \in 1 .. Len(u) /\ i + 1 < y
        BY <1>1
    <2>2. CASE x \in 1 .. n
        BY <1>0, <1>3, <2>1, <2>2 DEF NoneBefore
    <2>3. CASE x = n + 1
        BY <1>0, <1>1, <1>3, <2>1, <2>3 DEF InOrder, c
    <2> QED BY <1>4, <2>2, <2>3
<1>10. NoneBefore(in, t, v, j + 1)
    <2> SUFFICES ASSUME NEW x \in 1 .. n + 1, NEW y \in j + 1 .. Len(v)
                 PROVE  ~CanonicalLess(in, v[y], t[x])
        BY <1>3 DEF NoneBefore
    <2>2. CASE x \in 1 .. n
        BY <1>0, <1>3, <2>2 DEF NoneBefore
    <2>3. CASE x = n + 1
        BY <1>0, <1>3, <2>3 DEF c
    <2> QED BY <1>4, <2>2, <2>3
<1> QED BY <1>3, <1>5, <1>6, <1>8, <1>9, <1>10 DEF c, t

LEMMA TakeMerges ==
    ASSUME NEW in, Ranks(in),
           NEW left \in Seq(AlternateCandidate), InOrder(in, left),
           NEW right \in Seq(AlternateCandidate), InOrder(in, right),
           NEW k \in 1 .. Len(left) + Len(right), NEW m,
           Merging(in, left, right, k - 1, m)
    PROVE  Merging(in, left, right, k, Take(in, left, right, m))
<1> DEFINE i == m.i
           j == m.j
           s == m.scratch
           L == Len(left)
           R == Len(right)
           t == Take(in, left, right, m)
<1>1. /\ i \in 0 .. L /\ j \in 0 .. R /\ i + j = k - 1
      /\ s \in Seq(AlternateCandidate) /\ Len(s) = k - 1
      /\ First(s, k - 1) = First(left, i) \cup First(right, j)
      /\ InOrder(in, s) /\ NoneBefore(in, s, left, i + 1) /\ NoneBefore(in, s, right, j + 1)
    BY DEF Merging
<1>2. L \in Nat /\ R \in Nat
    OBVIOUS
<1>3. \A y \in 1 .. R : right[y] \in AlternateCandidate
    OBVIOUS
<1>4. \A y \in 1 .. L : left[y] \in AlternateCandidate
    OBVIOUS
<1>5. t = IF /\ i < L
             /\ j < R => ~CanonicalLess(in, right[j + 1], left[i + 1])
          THEN [i |-> i + 1, j |-> j, scratch |-> Append(s, left[i + 1])]
          ELSE [i |-> i, j |-> j + 1, scratch |-> Append(s, right[j + 1])]
    BY DEF Take
<1> HIDE DEF i, j, s, t
<1>6. CASE i < L /\ (j < R => ~CanonicalLess(in, right[j + 1], left[i + 1]))
    <2>1. i \in 0 .. L - 1 /\ i + 1 \in 1 .. L
        BY <1>1, <1>2, <1>6
    <2>2. ASSUME NEW y \in j + 1 .. R
          PROVE  ~CanonicalLess(in, right[y], left[i + 1])
        <3>1. j < R /\ j + 1 \in 1 .. R /\ y \in 1 .. R
            BY <1>1, <1>2
        <3>2. y = j + 1 \/ ~CanonicalLess(in, right[y], right[j + 1])
            BY <1>1, <1>2, <3>1 DEF InOrder
        <3> QED BY <1>3, <1>4, <1>6, <2>1, <3>1, <3>2, CanonicalOrder
    <2> DEFINE a == Append(s, left[i + 1])
    <2> HIDE DEF L, R
    <2>3. /\ a \in Seq(AlternateCandidate) /\ Len(a) = Len(s) + 1
          /\ First(a, Len(s) + 1) = First(s, Len(s)) \cup {left[i + 1]}
          /\ First(left, i + 1) = First(left, i) \cup {left[i + 1]}
          /\ InOrder(in, a) /\ NoneBefore(in, a, left, i + 2) /\ NoneBefore(in, a, right, j + 1)
        <3>1. Follows(in, s, left, i, right, j)
            BY <1>1, <2>1, <2>2 DEF L, R, Follows
        <3> QED BY <3>1, AppendOrdered
    <2>4. t = [i |-> i + 1, j |-> j, scratch |-> a]
        BY <1>5, <1>6
    <2> HIDE DEF a
    <2>5. t.i = i + 1 /\ t.j = j /\ t.scratch = a
        BY <2>4
    <2>6. /\ i + 1 \in 0 .. L /\ (i + 1) + j = k /\ Len(s) + 1 = k
          /\ (i + 1) + 1 = i + 2 /\ Len(s) = k - 1
        BY <1>1, <1>2, <2>1
    <2>7. First(a, k) = First(left, i + 1) \cup First(right, j)
        BY <1>1, <2>3, <2>6
    <2>8. Merging(in, left, right, k, t)
        BY <1>1, <2>3, <2>5, <2>6, <2>7 DEF Merging, L, R
    <2> QED BY <2>8 DEF t
<1>7. CASE ~(i < L /\ (j < R => ~CanonicalLess(in, right[j + 1], left[i + 1])))
    <2>1. j \in 0 .. R - 1 /\ j + 1 \in 1 .. R /\ j < R
        BY <1>1, <1>2, <1>7
    <2>2. ASSUME NEW y \in i + 1 .. L
          PROVE  ~CanonicalLess(in, left[y], right[j + 1])
        <3>1. i < L /\ i + 1 \in 1 .. L /\ y \in 1 .. L
            BY <1>1, <1>2
        <3>2. y = i + 1 \/ ~CanonicalLess(in, left[y], left[i + 1])
            BY <1>1, <1>2, <3>1 DEF InOrder
        <3>3. ~CanonicalLess(in, left[i + 1], right[j + 1])
            BY <1>3, <1>4, <1>7, <2>1, <3>1, CanonicalOrder
        <3> QED BY <1>3, <1>4, <2>1, <3>1, <3>2, <3>3, CanonicalOrder
    <2> DEFINE a == Append(s, right[j + 1])
    <2> HIDE DEF L, R
    <2>3. /\ a \in Seq(AlternateCandidate) /\ Len(a) = Len(s) + 1
          /\ First(a, Len(s) + 1) = First(s, Len(s)) \cup {right[j + 1]}
          /\ First(right, j + 1) = First(right, j) \cup {right[j + 1]}
          /\ InOrder(in, a) /\ NoneBefore(in, a, right, j + 2) /\ NoneBefore(in, a, left, i + 1)
        <3>1. Follows(in, s, right, j, left, i)
            BY <1>1, <2>1, <2>2 DEF L, R, Follows
        <3> QED BY <3>1, AppendOrdered
    <2>4. t = [i |-> i, j |-> j + 1, scratch |-> a]
        BY <1>5, <1>7
    <2> HIDE DEF a
    <2>5. t.i = i /\ t.j = j + 1 /\ t.scratch = a
        BY <2>4
    <2>6. /\ j + 1 \in 0 .. R /\ i + (j + 1) = k /\ Len(s) + 1 = k
          /\ (j + 1) + 1 = j + 2 /\ Len(s) = k - 1
        BY <1>1, <1>2, <2>1
    <2>7. First(a, k) = First(left, i) \cup First(right, j + 1)
        BY <1>1, <2>3, <2>6
    <2>8. Merging(in, left, right, k, t)
        BY <1>1, <2>3, <2>5, <2>6, <2>7 DEF Merging, L, R
    <2> QED BY <2>8 DEF t
<1> QED BY <1>6, <1>7

LEMMA NothingMerged ==
    ASSUME NEW in, NEW left \in Seq(AlternateCandidate), NEW right \in Seq(AlternateCandidate)
    PROVE  Merging(in, left, right, 0, Nothing)
<1>1. /\ Nothing.i = 0 /\ Nothing.j = 0 /\ Nothing.scratch = <<>>
      /\ <<>> \in Seq(AlternateCandidate) /\ Len(<<>>) = 0
      /\ 0 \in 0 .. Len(left) /\ 0 \in 0 .. Len(right)
    BY DEF Nothing
<1>2. \A s : First(s, 0) = {}
    BY DEF First
<1>3. InOrder(in, <<>>) /\ \A u, n : NoneBefore(in, <<>>, u, n)
    BY DEF InOrder, NoneBefore
<1> QED BY <1>1, <1>2, <1>3 DEF Merging

\* MergeRuns loses nothing, adds nothing and keeps the order.
LEMMA RunsMerged ==
    ASSUME NEW in, Ranks(in),
           NEW left \in Seq(AlternateCandidate), InOrder(in, left),
           NEW right \in Seq(AlternateCandidate), InOrder(in, right)
    PROVE  LET s == MergeRuns(in, left, right)
           IN  /\ s \in Seq(AlternateCandidate)
               /\ Len(s) = Len(left) + Len(right)
               /\ First(s, Len(s)) = First(left, Len(left)) \cup First(right, Len(right))
               /\ InOrder(in, s)
<1> DEFINE N == Len(left) + Len(right)
           F(h) == [k \in 0 .. N |-> IF k = 0 THEN Nothing ELSE Take(in, left, right, h[k - 1])]
           h == CHOOSE h : h = F(h)
           V == [i : Nat, j : Nat, scratch : Seq(AlternateCandidate)]
           W == [k \in 0 .. N |-> {m \in V : Merging(in, left, right, k, m)}]
           g == [p \in (1 .. N) \X V |-> Take(in, left, right, p[2])]
<1>1. N \in Nat /\ \A k \in 1 .. N : k - 1 \in 0 .. N /\ k \in 0 .. N
    OBVIOUS
<1>2. Nothing \in W[0]
    <2>1. Nothing \in V
        BY DEF Nothing
    <2> QED BY <1>1, <2>1, NothingMerged
<1>3. ASSUME NEW k \in 1 .. N, NEW m \in W[k - 1]
      PROVE  /\ Take(in, left, right, m) \in W[k]
             /\ g[<<k, m>>] = Take(in, left, right, m)
    <2>1. m \in V /\ Merging(in, left, right, k - 1, m)
        BY <1>1
    <2>2. Merging(in, left, right, k, Take(in, left, right, m))
        BY <2>1, TakeMerges
    <2> DEFINE t == Take(in, left, right, m)
    <2>3. /\ t.i \in Nat /\ t.j \in Nat /\ t.scratch \in Seq(AlternateCandidate)
        BY <2>2 DEF Merging
    <2>4. t = [i |-> t.i, j |-> t.j, scratch |-> t.scratch]
        BY DEF Take
    <2>5. t \in V
        <3> HIDE DEF t
        <3> QED BY <2>3, <2>4
    <2> QED BY <1>1, <2>1, <2>2, <2>5
<1>4. \E f : f = F(f)
    <2>0. PICK f : Runs(f, N, W, Nothing, g)
        <3>1. \A n \in 1 .. N : \A v \in W[n - 1] : g[<<n, v>>] \in W[n]
            BY <1>3
        <3> HIDE DEF N, W, g
        <3> QED BY <1>1, <1>2, <3>1, Recursion
    <2>1. /\ f = [n \in 0 .. N |-> IF n = 0 THEN Nothing ELSE g[<<n, f[n - 1]>>]]
          /\ \A n \in 0 .. N : f[n] \in W[n]
        <3> HIDE DEF N, W, g
        <3> QED BY <2>0 DEF Runs
    <2>2. \A n \in 0 .. N : n # 0 => g[<<n, f[n - 1]>>] = Take(in, left, right, f[n - 1])
        <3> SUFFICES ASSUME NEW n \in 0 .. N, n # 0
                     PROVE  g[<<n, f[n - 1]>>] = Take(in, left, right, f[n - 1])
            OBVIOUS
        <3>1. n \in 1 .. N /\ n - 1 \in 0 .. N
            BY <1>1
        <3>2. f[n - 1] \in W[n - 1]
            BY <2>1, <3>1
        <3> HIDE DEF N, W, g
        <3> QED BY <1>3, <3>1, <3>2
    <2>3. f = F(f)
        <3> HIDE DEF N, W, g
        <3> QED BY <2>1, <2>2
    <2> QED BY <2>3
<1>5. h = F(h)
    <2> HIDE DEF F
    <2> QED BY <1>4
<1>6. h[0] = Nothing /\ \A k \in 1 .. N : h[k] = Take(in, left, right, h[k - 1])
    <2>1. \A k \in 0 .. N : h[k] = IF k = 0 THEN Nothing ELSE Take(in, left, right, h[k - 1])
        <3> HIDE DEF h, N
        <3> QED BY <1>5
    <2> HIDE DEF h
    <2> QED BY <1>1, <2>1
<1>7. MergeRuns(in, left, right) = h[N].scratch
    BY DEF MergeRuns
<1>8. h[N] \in W[N]
    <2> DEFINE I == {k \in 0 .. N : h[k] \in W[k]}
    <2> HIDE DEF h, W, N
    <2>1. 0 \in I
        BY <1>1, <1>2, <1>6
    <2>2. \A k \in 1 .. N : k - 1 \in I => k \in I
        BY <1>1, <1>3, <1>6
    <2>3. 0 .. N \subseteq I
        <3> HIDE DEF I
        <3> QED BY <1>1, <2>1, <2>2, Climb
    <2> QED BY <1>1, <2>3
<1>9. Merging(in, left, right, N, h[N])
    <2> HIDE DEF h
    <2> QED BY <1>1, <1>8
<1> DEFINE s == h[N].scratch
           i == h[N].i
           j == h[N].j
<1>10. /\ i \in 0 .. Len(left) /\ j \in 0 .. Len(right) /\ i + j = N
       /\ s \in Seq(AlternateCandidate) /\ Len(s) = N /\ InOrder(in, s)
       /\ First(s, N) = First(left, i) \cup First(right, j)
    <2> HIDE DEF h
    <2> QED BY <1>9 DEF Merging
<1> HIDE DEF i, j, s, h
<1>11. i = Len(left) /\ j = Len(right)
    BY <1>10
<1> QED BY <1>7, <1>10, <1>11 DEF s

-----------------------------------------------------------------------------
(* One pass. *)

\* Every run of w elements, the last one perhaps shorter, is in order.
RunsOrdered(in, s, w) ==
    \A b \in Nat : \A i, j \in 1 .. Len(s) :
        b * w < i /\ i < j /\ j <= b * w + w => ~CanonicalLess(in, s[j], s[i])

\* After b pairs.
Passing(in, s, w, b, r) ==
    /\ r \in Seq(AlternateCandidate)
    /\ Len(r) = Cut(s, b * (2 * w))
    /\ First(r, Len(r)) = First(s, Len(r))
    /\ RunsOrdered(in, r, 2 * w)

LEMMA NextMultiple ==
    ASSUME NEW c \in Nat, NEW d \in Nat, NEW m \in Nat, c * m < d * m
    PROVE  c * m + m <= d * m
<1>1. c < d
    <2>1. SUFFICES ASSUME d <= c
                   PROVE  d * m <= c * m
        BY <2>1
    <2>2. c - d \in Nat /\ (c - d) * m \in Nat
        BY <2>1
    <2>3. c * m = d * m + (c - d) * m
        BY <2>1
    <2> QED BY <2>2, <2>3
<1>2. d - (c + 1) \in Nat
    BY <1>1
<1>3. (d - (c + 1)) * m \in Nat
    BY <1>2
<1>4. d * m = c * m + m + (d - (c + 1)) * m
    OBVIOUS
<1> QED BY <1>3, <1>4

LEMMA Ceiling ==
    ASSUME NEW n \in Nat, NEW m \in Nat \ {0}, NEW k, k = (n + m - 1) \div m
    PROVE  /\ k \in Nat /\ n <= k * m
           /\ \A b \in 1 .. k : (b - 1) * m < n /\ (b - 1) * m \in Nat
<1> DEFINE a == n + m - 1
           q == a % m
<1>1. a \in Nat /\ k \in Nat /\ q \in 0 .. m - 1 /\ a = m * k + q
    OBVIOUS
<1>2. n <= k * m
    BY <1>1
<1>3. ASSUME NEW b \in 1 .. k
      PROVE  (b - 1) * m < n /\ (b - 1) * m \in Nat
    <2>1. b - 1 \in Nat /\ k - b \in Nat /\ (b - 1) * m \in Nat /\ (k - b) * m \in Nat
        BY <1>1
    <2>2. m * k = (b - 1) * m + (k - b) * m + m
        BY <1>1
    <2> QED BY <1>1, <2>1, <2>2
<1> QED BY <1>1, <1>2, <1>3

\* The elements of s from l + 1 to r.
LEMMA SliceFacts ==
    ASSUME NEW s \in Seq(AlternateCandidate), NEW l \in Nat, NEW r \in Nat,
           l <= r, r <= Len(s)
    PROVE  LET u == SubSeq(s, l + 1, r)
           IN  /\ u \in Seq(AlternateCandidate) /\ Len(u) = r - l
               /\ \A x \in 1 .. r - l : u[x] = s[l + x] /\ l + x \in 1 .. Len(s)
               /\ First(u, r - l) = {s[y] : y \in l + 1 .. r}
<1> DEFINE u == SubSeq(s, l + 1, r)
<1>0. Len(s) \in Nat
    OBVIOUS
<1>1. /\ u \in Seq(AlternateCandidate) /\ Len(u) = r - l
      /\ \A x \in 1 .. r - l : u[x] = s[l + x]
    <2>1. l + 1 \in 1 .. Len(s) + 1 /\ r \in l .. Len(s)
        BY <1>0
    <2>2. \A x \in 1 .. r - l : (l + 1) + x - 1 = l + x
        OBVIOUS
    <2>3. IF l + 1 <= r THEN r - (l + 1) + 1 = r - l ELSE r - l = 0
        OBVIOUS
    <2>4. \A x \in 1 .. r - l : l + x \in 1 .. Len(s)
        BY <1>0
    <2>5. \A x \in l + 1 .. r : x \in 1 .. Len(s)
        BY <1>0
    <2> QED BY <1>0, <2>1, <2>2, <2>3, <2>4, <2>5
<1> HIDE DEF u
<1>2. \A x \in 1 .. r - l : l + x \in 1 .. Len(s) /\ l + x \in l + 1 .. r
    BY <1>0
<1>3. \A y \in l + 1 .. r : y - l \in 1 .. r - l /\ l + (y - l) = y
    OBVIOUS
<1>4. First(u, r - l) = {s[y] : y \in l + 1 .. r}
    <2>1. ASSUME NEW x \in 1 .. r - l
          PROVE  u[x] \in {s[y] : y \in l + 1 .. r}
        BY <1>1, <1>2
    <2>2. ASSUME NEW y \in l + 1 .. r
          PROVE  s[y] \in First(u, r - l)
        <3>1. u[y - l] = s[y]
            BY <1>1, <1>3
        <3> QED BY <1>3, <3>1 DEF First
    <2> QED BY <2>1, <2>2 DEF First
<1> QED BY <1>1, <1>2, <1>4 DEF u

LEMMA PairPasses ==
    ASSUME NEW in, Ranks(in), NEW s \in Seq(AlternateCandidate),
           NEW w \in Nat \ {0}, RunsOrdered(in, s, w),
           NEW b \in Nat \ {0}, (b - 1) * (2 * w) \in Nat, (b - 1) * (2 * w) < Len(s),
           NEW r, Passing(in, s, w, b - 1, r)
    PROVE  Passing(in, s, w, b, r \o PairMerged(in, s, w, b))
<1> DEFINE st  == (b - 1) * (2 * w)
           mid == Cut(s, st + w)
           end == Cut(s, st + 2 * w)
           x   == SubSeq(s, st + 1, mid)
           y   == SubSeq(s, mid + 1, end)
           q   == PairMerged(in, s, w, b)
           n   == Len(s)
           t   == r \o q
<1>1. n \in Nat /\ st \in Nat /\ st < n
    OBVIOUS
<1>a. /\ b - 1 \in Nat
      /\ st = (2 * (b - 1)) * w /\ st + w = (2 * (b - 1) + 1) * w
      /\ 2 * (b - 1) \in Nat /\ 2 * (b - 1) + 1 \in Nat
    OBVIOUS
<1>b. st + 2 * w = b * (2 * w) /\ 2 * w \in Nat
    OBVIOUS
<1>2. q = MergeRuns(in, x, y)
    BY DEF PairMerged
<1>3. Len(r) = Cut(s, st)
    BY DEF Passing
<1> HIDE DEF st, n
<1>4. /\ mid \in Nat /\ end \in Nat /\ st <= mid /\ mid <= end /\ end <= n
      /\ mid <= st + w /\ end <= st + 2 * w /\ (mid < end => mid = st + w)
      /\ Len(r) = st /\ end <= mid + w
    BY <1>1, <1>3 DEF Cut, n
<1>c. end = Cut(s, b * (2 * w))
    BY <1>b
<1> HIDE DEF mid, end
<1>5. /\ x \in Seq(AlternateCandidate) /\ Len(x) = mid - st
      /\ \A i \in 1 .. mid - st : x[i] = s[st + i] /\ st + i \in 1 .. n
      /\ First(x, mid - st) = {s[i] : i \in st + 1 .. mid}
    <2>1. st \in Nat /\ mid \in Nat /\ st <= mid /\ mid <= Len(s)
        BY <1>1, <1>4 DEF n
    <2> QED BY <2>1, SliceFacts DEF n
<1>6. /\ y \in Seq(AlternateCandidate) /\ Len(y) = end - mid
      /\ \A i \in 1 .. end - mid : y[i] = s[mid + i] /\ mid + i \in 1 .. n
      /\ First(y, end - mid) = {s[i] : i \in mid + 1 .. end}
    BY <1>4, SliceFacts DEF n
<1> HIDE DEF x, y
<1>7. InOrder(in, x)
    <2> SUFFICES ASSUME NEW i \in 1 .. mid - st, NEW j \in 1 .. mid - st, i < j
                 PROVE  ~CanonicalLess(in, x[j], x[i])
        BY <1>5 DEF InOrder
    <2>1. st < st + i /\ st + i < st + j /\ st + j <= st + w
        BY <1>1, <1>4
    <2>2. ~CanonicalLess(in, s[st + j], s[st + i])
        <3> DEFINE k == 2 * (b - 1)
        <3>1. k \in Nat /\ st = k * w
            BY <1>a
        <3>2. st + i \in 1 .. Len(s) /\ st + j \in 1 .. Len(s)
            BY <1>5 DEF n
        <3> HIDE DEF k
        <3>3. k * w < st + i /\ st + i < st + j /\ st + j <= k * w + w
            BY <2>1, <3>1
        <3> QED BY <3>1, <3>2, <3>3 DEF RunsOrdered
    <2> QED BY <1>5, <2>2
<1>8. InOrder(in, y)
    <2> SUFFICES ASSUME NEW i \in 1 .. end - mid, NEW j \in 1 .. end - mid, i < j
                 PROVE  ~CanonicalLess(in, y[j], y[i])
        BY <1>6 DEF InOrder
    <2>1. mid = st + w /\ mid < mid + i /\ mid + i < mid + j /\ mid + j <= mid + w
        BY <1>1, <1>4
    <2>2. ~CanonicalLess(in, s[mid + j], s[mid + i])
        <3> DEFINE k == 2 * (b - 1) + 1
        <3>1. k \in Nat /\ mid = k * w
            BY <1>a, <2>1
        <3>2. mid + i \in 1 .. Len(s) /\ mid + j \in 1 .. Len(s)
            BY <1>6 DEF n
        <3> HIDE DEF k
        <3>3. k * w < mid + i /\ mid + i < mid + j /\ mid + j <= k * w + w
            BY <2>1, <3>1
        <3> QED BY <3>1, <3>2, <3>3 DEF RunsOrdered
    <2> QED BY <1>6, <2>2
<1> HIDE DEF q
<1>9. /\ q \in Seq(AlternateCandidate) /\ Len(q) = Len(x) + Len(y) /\ InOrder(in, q)
      /\ First(q, Len(q)) = First(x, Len(x)) \cup First(y, Len(y))
    BY <1>2, <1>5, <1>6, <1>7, <1>8, RunsMerged
<1>10. Len(q) = end - st /\ First(q, end - st) = {s[i] : i \in st + 1 .. end}
    <2>1. Len(q) = end - st
        BY SMTT(30), <1>1, <1>4, <1>5, <1>6, <1>9
    <2>2. \A i : i \in st + 1 .. end <=> i \in st + 1 .. mid \/ i \in mid + 1 .. end
        BY <1>1, <1>4
    <2>3. First(q, end - st) = {s[i] : i \in st + 1 .. mid} \cup {s[i] : i \in mid + 1 .. end}
        BY <1>5, <1>6, <1>9, <2>1
    <2> QED BY <2>1, <2>2, <2>3
<1>11. /\ r \in Seq(AlternateCandidate) /\ First(r, st) = First(s, st)
       /\ RunsOrdered(in, r, 2 * w)
    BY <1>4 DEF Passing
<1>12. /\ t \in Seq(AlternateCandidate) /\ Len(t) = end
       /\ \A i \in 1 .. st : t[i] = r[i]
       /\ \A i \in 1 .. end - st : t[st + i] = q[i]
    <2>1. t \in Seq(AlternateCandidate) /\ Len(t) = end
        <3>1. t \in Seq(AlternateCandidate) /\ Len(t) = Len(r) + Len(q)
            BY <1>9, <1>11, ConcatProperties
        <3> HIDE DEF t
        <3> QED BY <1>1, <1>4, <1>10, <3>1
    <2>2. ASSUME NEW i \in 1 .. end - st
          PROVE  t[st + i] = q[i]
        <3>1. st + i \in 1 .. Len(r) + Len(q) /\ ~(st + i <= Len(r)) /\ (st + i) - Len(r) = i
            BY <1>1, <1>4, <1>10
        <3> QED BY <1>9, <1>11, <3>1, ConcatProperties
    <2>3. ASSUME NEW i \in 1 .. st
          PROVE  t[i] = r[i]
        <3>1. i \in 1 .. Len(r) + Len(q) /\ i <= Len(r)
            BY <1>1, <1>4, <1>10
        <3> QED BY <1>9, <1>11, <3>1, ConcatProperties
    <2> HIDE DEF t
    <2> QED BY <2>1, <2>2, <2>3
<1> HIDE DEF t
<1>13. \A i \in 1 .. end : i \in 1 .. st \/ (i - st \in 1 .. end - st /\ st + (i - st) = i)
    BY <1>1, <1>4
<1>14. First(t, end) = First(s, end)
    <2>1. ASSUME NEW i \in 1 .. end
          PROVE  t[i] \in First(s, end)
        <3>1. CASE i \in 1 .. st
            <4>1. t[i] \in First(s, st)
                BY <1>11, <1>12, <3>1 DEF First
            <4>2. \A k \in 1 .. st : k \in 1 .. end
                BY <1>1, <1>4
            <4> QED BY <4>1, <4>2 DEF First
        <3>2. CASE i - st \in 1 .. end - st /\ st + (i - st) = i
            <4>1. t[i] = q[i - st]
                BY <1>12, <3>2
            <4>2. t[i] \in {s[k] : k \in st + 1 .. end}
                BY <1>10, <3>2, <4>1 DEF First
            <4>3. \A k \in st + 1 .. end : k \in 1 .. end
                BY <1>1
            <4> QED BY <4>2, <4>3 DEF First
        <3> QED BY <1>13, <3>1, <3>2
    <2>2. ASSUME NEW i \in 1 .. end
          PROVE  s[i] \in First(t, end)
        <3>1. CASE i \in 1 .. st
            <4>1. s[i] \in First(r, st)
                BY <1>11, <3>1 DEF First
            <4>2. PICK k \in 1 .. st : s[i] = r[k]
                BY <4>1 DEF First
            <4>3. k \in 1 .. end /\ t[k] = s[i]
                BY <1>1, <1>4, <1>12, <4>2
            <4> QED BY <4>3 DEF First
        <3>2. CASE i - st \in 1 .. end - st /\ st + (i - st) = i
            <4>1. i \in st + 1 .. end
                BY <1>1, <1>4, <3>2
            <4>2. PICK k \in 1 .. end - st : s[i] = q[k]
                BY <1>10, <4>1 DEF First
            <4>3. st + k \in 1 .. end /\ t[st + k] = s[i]
                BY <1>1, <1>4, <1>12, <4>2
            <4> QED BY <4>3 DEF First
        <3> QED BY <1>13, <3>1, <3>2
    <2> QED BY <2>1, <2>2 DEF First
<1>15. RunsOrdered(in, t, 2 * w)
    <2> DEFINE m == 2 * w
    <2> SUFFICES ASSUME NEW c \in Nat, NEW i \in 1 .. end, NEW j \in 1 .. end,
                        c * m < i, i < j, j <= c * m + m
                 PROVE  ~CanonicalLess(in, t[j], t[i])
        BY <1>12 DEF RunsOrdered
    <2>0. m \in Nat /\ st = (b - 1) * m /\ b - 1 \in Nat /\ c * m \in Nat
        BY <1>1, <1>a, <1>b DEF st
    <2> HIDE DEF m
    <2>1. CASE i \in 1 .. st /\ j \in 1 .. st
        <3>1. ~CanonicalLess(in, r[j], r[i])
            BY <1>4, <1>11, <2>1 DEF RunsOrdered, m
        <3> QED BY <1>12, <2>1, <3>1
    <2>2. CASE i \in 1 .. st /\ j \notin 1 .. st
        <3>1. c * m < (b - 1) * m
            BY <1>1, <2>0, <2>2
        <3>2. c * m + m <= (b - 1) * m
            BY <2>0, <3>1, NextMultiple
        <3> QED BY <1>1, <2>0, <2>2, <3>2
    <2>3. CASE i \notin 1 .. st
        <3>1. /\ i - st \in 1 .. end - st /\ st + (i - st) = i
              /\ j - st \in 1 .. end - st /\ st + (j - st) = j /\ i - st < j - st
            BY <1>1, <1>4, <1>13, <2>3
        <3>2. ~CanonicalLess(in, q[j - st], q[i - st])
            BY <1>9, <1>10, <3>1 DEF InOrder
        <3>3. t[i] = q[i - st] /\ t[j] = q[j - st]
            BY <1>12, <3>1
        <3> QED BY <3>2, <3>3
    <2> QED BY <2>1, <2>2, <2>3
<1> QED BY <1>c, <1>12, <1>14, <1>15 DEF Passing, t, q

\* A pass loses nothing, adds nothing and doubles the length of the runs.
LEMMA PassMerges ==
    ASSUME NEW in, Ranks(in), NEW s \in Seq(AlternateCandidate),
           NEW w \in Nat \ {0}, RunsOrdered(in, s, w)
    PROVE  LET r == MergePass(in, s, w)
           IN  /\ r \in Seq(AlternateCandidate) /\ Len(r) = Len(s)
               /\ First(r, Len(s)) = First(s, Len(s))
               /\ RunsOrdered(in, r, 2 * w)
<1> DEFINE N == Pairs(s, w)
           V == Seq(AlternateCandidate)
           P(b) == PairMerged(in, s, w, b)
           F(h) == [b \in 0 .. N |-> IF b = 0 THEN <<>> ELSE h[b - 1] \o P(b)]
           h == CHOOSE h : h = F(h)
           W == [b \in 0 .. N |-> {r \in V : Passing(in, s, w, b, r)}]
           g == [p \in (1 .. N) \X V |-> p[2] \o P(p[1])]
<1>1. /\ N \in Nat /\ Len(s) <= N * (2 * w) /\ Len(s) \in Nat
      /\ \A b \in 1 .. N : (b - 1) * (2 * w) < Len(s) /\ (b - 1) * (2 * w) \in Nat
    <2> DEFINE m == 2 * w
    <2>1. m \in Nat \ {0} /\ Len(s) \in Nat /\ N = (Len(s) + m - 1) \div m
        BY DEF Pairs
    <2> HIDE DEF m, N
    <2>2. /\ N \in Nat /\ Len(s) <= N * m
          /\ \A b \in 1 .. N : (b - 1) * m < Len(s) /\ (b - 1) * m \in Nat
        BY <2>1, Ceiling
    <2> QED BY <2>1, <2>2 DEF m
<1> HIDE DEF N
<1>2. \A b \in 1 .. N : b - 1 \in 0 .. N /\ b \in 0 .. N /\ b \in Nat \ {0}
    BY <1>1
<1>3. <<>> \in W[0]
    <2>1. /\ <<>> \in V /\ Len(<<>>) = 0 /\ 0 * (2 * w) = 0 /\ Cut(s, 0) = 0
        BY <1>1 DEF Cut
    <2>2. RunsOrdered(in, <<>>, 2 * w)
        BY DEF RunsOrdered
    <2>3. First(<<>>, 0) = First(s, 0)
        BY DEF First
    <2>4. Passing(in, s, w, 0, <<>>)
        BY <2>1, <2>2, <2>3 DEF Passing
    <2> QED BY <1>1, <2>1, <2>4
<1>4. ASSUME NEW b \in 1 .. N, NEW r \in W[b - 1]
      PROVE  r \o P(b) \in W[b] /\ g[<<b, r>>] = r \o P(b)
    <2>1. r \in V /\ Passing(in, s, w, b - 1, r)
        BY <1>2
    <2>2. Passing(in, s, w, b, r \o P(b))
        BY <1>1, <1>2, <2>1, PairPasses
    <2>3. r \o P(b) \in V
        BY <2>2 DEF Passing
    <2> HIDE DEF P
    <2> QED BY <1>2, <2>1, <2>2, <2>3
<1>5. \E f : f = F(f)
    <2>0. PICK f : Runs(f, N, W, <<>>, g)
        <3> HIDE DEF W, g, P
        <3>1. \A n \in 1 .. N : \A v \in W[n - 1] : g[<<n, v>>] \in W[n]
            BY <1>4
        <3> QED BY <1>1, <1>3, <3>1, Recursion
    <2>1. /\ f = [b \in 0 .. N |-> IF b = 0 THEN <<>> ELSE g[<<b, f[b - 1]>>]]
          /\ \A b \in 0 .. N : f[b] \in W[b]
        <3> HIDE DEF W, g
        <3> QED BY <2>0 DEF Runs
    <2>2. ASSUME NEW b \in 0 .. N, b # 0
          PROVE  g[<<b, f[b - 1]>>] = f[b - 1] \o P(b)
        <3>1. b \in 1 .. N /\ b - 1 \in 0 .. N
            BY <1>1, <2>2
        <3>2. f[b - 1] \in W[b - 1]
            BY <2>1, <3>1
        <3> HIDE DEF W, g, P
        <3> QED BY <1>4, <3>1, <3>2
    <2>3. f = F(f)
        <3> HIDE DEF W, g, P
        <3> QED BY <2>1, <2>2
    <2> QED BY <2>3
<1>6. h = F(h)
    <2> HIDE DEF F
    <2> QED BY <1>5
<1>7. h[0] = <<>> /\ \A b \in 1 .. N : h[b] = h[b - 1] \o P(b)
    <2>1. \A b \in 0 .. N : h[b] = IF b = 0 THEN <<>> ELSE h[b - 1] \o P(b)
        <3> HIDE DEF h, P
        <3> QED BY <1>6
    <2>2. 0 \in 0 .. N /\ \A b \in 1 .. N : b \in 0 .. N /\ b # 0
        BY <1>1
    <2> HIDE DEF h, P, F
    <2> QED BY <2>1, <2>2
<1>8. MergePass(in, s, w) = h[N]
    BY DEF MergePass, N
<1>9. h[N] \in W[N]
    <2> DEFINE I == {b \in 0 .. N : h[b] \in W[b]}
    <2> HIDE DEF h, W, P
    <2>1. 0 \in I
        BY <1>1, <1>3, <1>7
    <2>2. \A b \in 1 .. N : b - 1 \in I => b \in I
        <3> SUFFICES ASSUME NEW b \in 1 .. N, b - 1 \in I
                     PROVE  b \in I
            OBVIOUS
        <3>1. h[b - 1] \in W[b - 1] /\ b \in 0 .. N
            BY <1>2
        <3>2. h[b - 1] \o P(b) \in W[b]
            BY <1>4, <3>1
        <3>3. h[b] = h[b - 1] \o P(b)
            BY <1>7
        <3> QED BY <3>1, <3>2, <3>3
    <2>3. 0 .. N \subseteq I
        <3> HIDE DEF I
        <3> QED BY <1>1, <2>1, <2>2, Climb
    <2> QED BY <1>1, <2>3
<1> HIDE DEF h
<1>10. Passing(in, s, w, N, h[N])
    BY <1>1, <1>9
<1>11. Cut(s, N * (2 * w)) = Len(s)
    <2> DEFINE z == N * (2 * w)
    <2>1. z \in Nat /\ Len(s) <= z
        BY <1>1
    <2> HIDE DEF z
    <2>2. Cut(s, z) = Len(s)
        BY <1>1, <2>1 DEF Cut
    <2> QED BY <2>2 DEF z
<1> QED BY <1>8, <1>10, <1>11 DEF Passing

-----------------------------------------------------------------------------
(* The sort. *)

\* After k passes.
Sorting(in, k, p) ==
    /\ p.width \in Nat \ {0}
    /\ k < p.width \/ Len(in.candidates) <= p.width
    /\ p.data \in Seq(AlternateCandidate) /\ Len(p.data) = Len(in.candidates)
    /\ First(p.data, Len(in.candidates)) = First(in.candidates, Len(in.candidates))
    /\ RunsOrdered(in, p.data, p.width)

LEMMA PassSorts ==
    ASSUME NEW in, Ranks(in), in.candidates \in Seq(AlternateCandidate),
           NEW k \in Nat \ {0}, NEW p, Sorting(in, k - 1, p)
    PROVE  Sorting(in, k, Pass(in, p))
<1> DEFINE n == Len(in.candidates)
           w == p.width
           d == p.data
           r == MergePass(in, d, w)
<1>1. /\ w \in Nat \ {0} /\ (k - 1 < w \/ n <= w) /\ n \in Nat
      /\ d \in Seq(AlternateCandidate) /\ Len(d) = n
      /\ First(d, n) = First(in.candidates, n) /\ RunsOrdered(in, d, w)
    BY DEF Sorting
<1>2. CASE w < n
    <2>1. /\ r \in Seq(AlternateCandidate) /\ Len(r) = n
          /\ First(r, n) = First(d, n) /\ RunsOrdered(in, r, 2 * w)
        BY <1>1, PassMerges
    <2>2. Pass(in, p) = [width |-> 2 * w, data |-> r]
        BY <1>2 DEF Pass
    <2> HIDE DEF r, w, d
    <2>3. Pass(in, p).width = 2 * w /\ Pass(in, p).data = r
        BY <2>2
    <2>4. 2 * w \in Nat \ {0} /\ (k < 2 * w \/ n <= 2 * w)
        BY <1>1, <1>2
    <2> QED BY <1>1, <2>1, <2>3, <2>4 DEF Sorting
<1>3. CASE ~(w < n)
    <2>1. Pass(in, p) = p
        BY <1>3 DEF Pass
    <2>2. n <= w
        BY <1>1, <1>3
    <2> QED BY <1>1, <2>1, <2>2 DEF Sorting
<1> QED BY <1>2, <1>3

\* deterministic_sort loses nothing, adds nothing and sorts.
LEMMA SortSorts ==
    ASSUME NEW in, Ranks(in), in.candidates \in Seq(AlternateCandidate)
    PROVE  /\ Sorted(in) \in Seq(AlternateCandidate)
           /\ Len(Sorted(in)) = Len(in.candidates)
           /\ First(Sorted(in), Len(in.candidates))
                = First(in.candidates, Len(in.candidates))
           /\ InOrder(in, Sorted(in))
<1> DEFINE N == Len(in.candidates)
           a == [width |-> 1, data |-> in.candidates]
           V == [width : Nat, data : Seq(AlternateCandidate)]
           F(h) == [k \in 0 .. N |-> IF k = 0 THEN a ELSE Pass(in, h[k - 1])]
           h == CHOOSE h : h = F(h)
           W == [k \in 0 .. N |-> {p \in V : Sorting(in, k, p)}]
           g == [q \in (1 .. N) \X V |-> Pass(in, q[2])]
<1>1. N \in Nat /\ \A k \in 1 .. N : k - 1 \in 0 .. N /\ k \in 0 .. N /\ k \in Nat \ {0}
    OBVIOUS
<1>2. Sorted(in) = h[N].data
    BY DEF Sorted
<1>3. a \in W[0]
    <2>1. a \in V /\ a.width = 1 /\ a.data = in.candidates
        OBVIOUS
    <2> HIDE DEF a
    <2>2. RunsOrdered(in, in.candidates, 1)
        <3> SUFFICES ASSUME NEW b \in Nat, NEW i \in 1 .. N, NEW j \in 1 .. N,
                            b * 1 < i, i < j, j <= b * 1 + 1
                     PROVE  FALSE
            BY DEF RunsOrdered
        <3> QED OBVIOUS
    <2>3. Sorting(in, 0, a)
        BY <2>1, <2>2 DEF Sorting
    <2> QED BY <1>1, <2>1, <2>3
<1> HIDE DEF N, a
<1>4. ASSUME NEW k \in 1 .. N, NEW p \in W[k - 1]
      PROVE  Pass(in, p) \in W[k] /\ g[<<k, p>>] = Pass(in, p)
    <2>1. p \in V /\ Sorting(in, k - 1, p)
        BY <1>1
    <2>2. Sorting(in, k, Pass(in, p))
        BY <1>1, <2>1, PassSorts
    <2>3. Pass(in, p) \in V
        <3>1. CASE p.width < Len(in.candidates)
            <4> DEFINE t == Pass(in, p)
            <4>1. t = [width |-> t.width, data |-> t.data]
                BY <3>1 DEF Pass
            <4>2. t.width \in Nat /\ t.data \in Seq(AlternateCandidate)
                BY <2>2 DEF Sorting
            <4> HIDE DEF t
            <4>3. t \in V
                BY <4>1, <4>2
            <4> QED BY <4>3 DEF t
        <3>2. CASE ~(p.width < Len(in.candidates))
            BY <2>1, <3>2 DEF Pass
        <3> QED BY <3>1, <3>2
    <2> QED BY <1>1, <2>1, <2>2, <2>3
<1>5. \E f : f = F(f)
    <2>0. PICK f : Runs(f, N, W, a, g)
        <3>1. \A n \in 1 .. N : \A v \in W[n - 1] : g[<<n, v>>] \in W[n]
            BY <1>4
        <3> HIDE DEF W, g
        <3> QED BY <1>1, <1>3, <3>1, Recursion
    <2>1. /\ f = [k \in 0 .. N |-> IF k = 0 THEN a ELSE g[<<k, f[k - 1]>>]]
          /\ \A k \in 0 .. N : f[k] \in W[k]
        <3> HIDE DEF W, g
        <3> QED BY <2>0 DEF Runs
    <2>2. ASSUME NEW k \in 0 .. N, k # 0
          PROVE  g[<<k, f[k - 1]>>] = Pass(in, f[k - 1])
        <3>1. k \in 1 .. N /\ k - 1 \in 0 .. N
            BY <1>1, <2>2
        <3>2. f[k - 1] \in W[k - 1]
            BY <2>1, <3>1
        <3> HIDE DEF W, g
        <3> QED BY <1>4, <3>1, <3>2
    <2>3. f = F(f)
        <3> HIDE DEF W, g
        <3> QED BY <2>1, <2>2
    <2> QED BY <2>3
<1>6. h = F(h)
    <2> HIDE DEF F
    <2> QED BY <1>5
<1>7. h[0] = a /\ \A k \in 1 .. N : h[k] = Pass(in, h[k - 1])
    <2>1. \A k \in 0 .. N : h[k] = IF k = 0 THEN a ELSE Pass(in, h[k - 1])
        <3> HIDE DEF h
        <3> QED BY <1>6
    <2> HIDE DEF h
    <2> QED BY <1>1, <2>1
<1> HIDE DEF h
<1>8. h[N] \in W[N]
    <2> DEFINE I == {k \in 0 .. N : h[k] \in W[k]}
    <2> HIDE DEF W
    <2>1. 0 \in I
        BY <1>1, <1>3, <1>7
    <2>2. \A k \in 1 .. N : k - 1 \in I => k \in I
        BY <1>1, <1>4, <1>7
    <2>3. 0 .. N \subseteq I
        <3> HIDE DEF I
        <3> QED BY <1>1, <2>1, <2>2, Climb
    <2> QED BY <1>1, <2>3
<1>9. Sorting(in, N, h[N])
    BY <1>1, <1>8
<1> DEFINE d == h[N].data
           w == h[N].width
<1>10. /\ d \in Seq(AlternateCandidate) /\ Len(d) = N
       /\ First(d, N) = First(in.candidates, N)
       /\ RunsOrdered(in, d, w) /\ w \in Nat /\ N <= w
    BY <1>1, <1>9 DEF Sorting, N
<1> HIDE DEF d, w
<1>11. InOrder(in, d)
    <2> SUFFICES ASSUME NEW i \in 1 .. N, NEW j \in 1 .. N, i < j
                 PROVE  ~CanonicalLess(in, d[j], d[i])
        BY <1>10 DEF InOrder
    <2>1. 0 * w < i /\ j <= 0 * w + w
        BY <1>1, <1>10
    <2> QED BY <1>10, <2>1 DEF RunsOrdered
<1> QED BY <1>2, <1>10, <1>11 DEF d, N

\* No two elements are about the same path.
Apart(s) == \A i, j \in 1 .. Len(s) : s[i].path = s[j].path => i = j

\* A valid set is sorted strictly: no member is lost, and none comes twice.
LEMMA SortCanonical ==
    ASSUME NEW in \in SelectionInput, ValidSet(in)
    PROVE  LET s == Sorted(in)
           IN  /\ s \in Seq(AlternateCandidate) /\ Len(s) = Len(in.candidates)
               /\ First(s, Len(s)) = First(in.candidates, Len(s))
               /\ Apart(s) /\ Apart(in.candidates)
               /\ \A i, j \in 1 .. Len(s) : i < j => CanonicalLess(in, s[i], s[j])
<1> DEFINE s == Sorted(in)
           c == in.candidates
           n == Len(c)
           D == 1 .. n
           T == First(c, n)
<1>1. Ranks(in) /\ c \in Seq(AlternateCandidate) /\ n \in Nat
    BY DEF SelectionInput, Ranks
<1>2. /\ s \in Seq(AlternateCandidate) /\ Len(s) = n /\ First(s, n) = T /\ InOrder(in, s)
    BY <1>1, SortSorts
<1>3. Apart(c)
    BY <1>1 DEF ValidSet, Apart
<1> HIDE DEF s, c
<1>4. c \in [D -> T] /\ s \in [D -> T]
    <2>1. c \in [D -> AlternateCandidate] /\ s \in [D -> AlternateCandidate]
        BY <1>1, <1>2
    <2>2. \A i \in D : c[i] \in T
        BY DEF First
    <2>3. \A i \in D : s[i] \in T
        BY <1>2 DEF First
    <2> HIDE DEF T, D
    <2> QED BY <2>1, <2>2, <2>3
<1>5. c \in Surjection(D, T) /\ s \in Surjection(D, T)
    <2>1. \A t \in T : \E i \in D : c[i] = t
        BY DEF First
    <2>2. \A t \in T : \E i \in D : s[i] = t
        <3>1. T = First(s, n)
            BY <1>2
        <3> QED BY <3>1 DEF First
    <2> HIDE DEF T, D
    <2> QED BY <1>4, <2>1, <2>2 DEF Surjection
<1>6. c \in Injection(D, T)
    <2>1. \A i, j \in D : c[i] = c[j] => i = j
        BY <1>3 DEF Apart
    <2> HIDE DEF T, D
    <2> QED BY <1>4, <2>1 DEF Injection, IsInjective
<1>7. IsFiniteSet(D)
    BY <1>1, FS_Interval
<1>8. s \in Injection(D, T)
    <2> HIDE DEF T, D
    <2>1. Cardinality(T) = Cardinality(D)
        BY <1>5, <1>6, <1>7, FS_Surjection
    <2> QED BY <1>5, <1>7, <2>1, FS_Surjection
<1>9. Apart(s)
    <2> SUFFICES ASSUME NEW i \in D, NEW j \in D, s[i].path = s[j].path
                 PROVE  i = j
        BY <1>2 DEF Apart
    <2>1. s[i] \in T /\ s[j] \in T
        <3> HIDE DEF T, D
        <3> QED BY <1>4
    <2>2. PICK a \in D, b \in D : s[i] = c[a] /\ s[j] = c[b]
        BY <2>1 DEF First
    <2>3. a = b
        BY <1>3, <2>2 DEF Apart
    <2>4. s[i] = s[j]
        BY <2>2, <2>3
    <2> HIDE DEF T, D
    <2>5. DOMAIN s = D
        BY <1>4
    <2> QED BY <1>8, <2>4, <2>5 DEF Injection, IsInjective
<1>10. ASSUME NEW i \in D, NEW j \in D, i < j
       PROVE  CanonicalLess(in, s[i], s[j])
    <2>1. s[i] \in AlternateCandidate /\ s[j] \in AlternateCandidate
        BY <1>2
    <2>2. s[i].path # s[j].path
        BY <1>1, <1>2, <1>9, <1>10 DEF Apart
    <2>3. ~CanonicalLess(in, s[j], s[i])
        BY <1>2, <1>10 DEF InOrder
    <2> QED BY <1>1, <2>1, <2>2, <2>3, CanonicalOrder
<1> QED BY <1>2, <1>3, <1>9, <1>10 DEF s, c

\* deterministic_sort, for any number of candidates: the passes leave no run
\* out, whether or not it has a neighbour, and the result is in the canonical
\* order without losing or repeating a member.
THEOREM SortsCanonically == Spec => []SortIsCanonical
<1>1. TypeOK => SortIsCanonical
    <2> SUFFICES ASSUME TypeOK, ValidSet(request)
                 PROVE  LET s == Sorted(request)
                        IN  /\ Len(s) = Len(request.candidates)
                            /\ Range(s) = Range(request.candidates)
                            /\ \A i, j \in DOMAIN s :
                                 i < j => CanonicalLess(request, s[i], s[j])
        BY DEF SortIsCanonical
    <2> DEFINE s == Sorted(request)
               c == request.candidates
    <2>1. /\ s \in Seq(AlternateCandidate) /\ Len(s) = Len(c)
          /\ First(s, Len(s)) = First(c, Len(s))
          /\ \A i, j \in 1 .. Len(s) : i < j => CanonicalLess(request, s[i], s[j])
        BY SortCanonical DEF TypeOK
    <2>2. c \in Seq(AlternateCandidate)
        BY DEF TypeOK, SelectionInput
    <2> HIDE DEF s, c
    <2>3. DOMAIN s = 1 .. Len(s) /\ DOMAIN c = 1 .. Len(s)
        BY <2>1, <2>2
    <2>4. Range(s) = Range(c)
        BY <2>1, <2>3 DEF Range, First
    <2> QED BY <2>1, <2>3, <2>4 DEF s, c
<1> QED BY <1>1, RequestsTyped, PTL

-----------------------------------------------------------------------------
(* The canonical order leaves no choice. *)

\* Each element before every later one.
Strict(in, s) == \A i, j \in 1 .. Len(s) : i < j => CanonicalLess(in, s[i], s[j])

\* Two strictly ordered lists of the same members are the same list.
LEMMA SortUnique ==
    ASSUME NEW in, Ranks(in), NEW s \in Seq(AlternateCandidate),
           NEW t \in Seq(AlternateCandidate), Len(s) = Len(t),
           First(s, Len(s)) = First(t, Len(t)), Strict(in, s), Strict(in, t)
    PROVE  s = t
<1> DEFINE n == Len(s)
           I == {k \in 0 .. n : \A i \in 1 .. k : s[i] = t[i]}
<1>1. n \in Nat /\ Len(t) = n
    OBVIOUS
<1>2. \A i \in 1 .. n : s[i] \in AlternateCandidate /\ t[i] \in AlternateCandidate
    BY <1>1
<1>3. \A i \in 1 .. n : (\E j \in 1 .. n : s[i] = t[j]) /\ (\E j \in 1 .. n : t[i] = s[j])
    <2>1. \A i \in 1 .. n : s[i] \in First(s, n) /\ t[i] \in First(t, n)
        BY DEF First
    <2>2. First(s, n) = First(t, n)
        BY <1>1
    <2> QED BY <2>1, <2>2 DEF First
<1>4. /\ \A i, j \in 1 .. n : i < j => CanonicalLess(in, s[i], s[j])
      /\ \A i, j \in 1 .. n : i < j => CanonicalLess(in, t[i], t[j])
    BY <1>1 DEF Strict
<1>5. /\ \A a, b \in AlternateCandidate : CanonicalLess(in, a, b) => ~CanonicalLess(in, b, a)
      /\ \A a \in AlternateCandidate : ~CanonicalLess(in, a, a)
    BY CanonicalOrder
<1> HIDE DEF n
<1>6. 0 \in I
    BY <1>1
<1>7. ASSUME NEW k \in 1 .. n, k - 1 \in I
      PROVE  k \in I
    <2>1. \A i \in 1 .. k - 1 : s[i] = t[i]
        BY <1>7
    <2>2. PICK a \in 1 .. n : s[k] = t[a]
        BY <1>3
    <2>3. PICK b \in 1 .. n : t[k] = s[b]
        BY <1>3
    <2>4. s[k] \in AlternateCandidate /\ t[k] \in AlternateCandidate
        BY <1>2
    <2>5. ~(a < k)
        <3>1. SUFFICES ASSUME a < k PROVE FALSE
            OBVIOUS
        <3>2. a \in 1 .. k - 1
            BY <1>1, <3>1
        <3>3. s[a] = s[k] /\ CanonicalLess(in, s[a], s[k])
            BY <1>4, <2>1, <2>2, <3>1, <3>2
        <3> QED BY <1>5, <2>4, <3>3
    <2>6. ~(b < k)
        <3>1. SUFFICES ASSUME b < k PROVE FALSE
            OBVIOUS
        <3>2. b \in 1 .. k - 1
            BY <1>1, <3>1
        <3>3. t[b] = t[k] /\ CanonicalLess(in, t[b], t[k])
            BY <1>4, <2>1, <2>3, <3>1, <3>2
        <3> QED BY <1>5, <2>4, <3>3
    <2>7. s[k] = t[k]
        <3>1. CASE a = k \/ b = k
            BY <2>2, <2>3, <3>1
        <3>2. CASE a # k /\ b # k
            <4>1. k < a /\ k < b
                BY <1>1, <2>5, <2>6, <3>2
            <4>2. CanonicalLess(in, t[k], s[k]) /\ CanonicalLess(in, s[k], t[k])
                BY <1>4, <2>2, <2>3, <4>1
            <4> QED BY <1>5, <2>4, <4>2
        <3> QED BY <3>1, <3>2
    <2>8. \A i \in 1 .. k : i \in 1 .. k - 1 \/ i = k
        BY <1>1
    <2>9. k \in 0 .. n
        BY <1>1
    <2> QED BY <2>1, <2>7, <2>8, <2>9
<1>8. n \in I
    <2>1. 0 .. n \subseteq I
        <3> HIDE DEF I
        <3> QED BY <1>1, <1>6, <1>7, Climb
    <2> QED BY <1>1, <2>1
<1>9. \A i \in 1 .. n : s[i] = t[i]
    BY <1>8
<1> QED BY <1>1, <1>9, SeqEqual DEF n

-----------------------------------------------------------------------------
(* The gates. *)

\* What SelectInSeq returns: the least index, 0 if there is none.
LEMMA Least ==
    ASSUME NEW n \in Nat, NEW S \in SUBSET (1 .. n), NEW m,
           m = IF S # {} THEN Min(S) ELSE 0
    PROVE  /\ m = 0 <=> S = {}
           /\ m # 0 => m \in S /\ \A x \in S : m <= x
<1> DEFINE R == {ss \in Nat \X Nat : ss[1] < ss[2]}
<1>1. CASE S = {}
    BY <1>1
<1>2. CASE S # {}
    <2>1. IsWellFoundedOn(R, Nat)
        BY NatLessThanWellFounded DEF OpToRel
    <2>2. PICK k \in S : \A x \in S : ~(<<x, k>> \in R)
        <3>1. S \subseteq Nat
            OBVIOUS
        <3> HIDE DEF R
        <3> QED BY <1>2, <2>1, <3>1, WFMin
    <2>3. \A x \in S : k <= x
        <3>1. \A x \in S : x \in Nat /\ k \in Nat
            OBVIOUS
        <3>2. \A x \in S : ~(x < k)
            BY <2>2, <3>1
        <3> QED BY <3>1, <3>2
    <2>4. m \in S /\ \A x \in S : m <= x
        BY <1>2, <2>3 DEF Min
    <2> QED BY <1>2, <2>4
<1> QED BY <1>1, <1>2

\* The first observation that is not a yes, "yes" when there is none.
Doubt(v) ==
    IF v[1] # "yes" THEN v[1]
    ELSE IF v[2] # "yes" THEN v[2]
    ELSE IF v[3] # "yes" THEN v[3] ELSE v[4]

\* A candidate that is out of the question, whatever was observed of it.
Barred(c, in) == c.path = in.incumbent \/ c.withdrawn \/ c.path \in in.fenced

\* Verdict, with the first doubt named.
LEMMA VerdictGates ==
    ASSUME NEW c, NEW in
    PROVE  Verdict(c, in) =
             IF Barred(c, in) THEN "excluded"
             ELSE IF Classify(c.authority, in.current) = "stale" THEN "stale"
             ELSE IF Classify(c.authority, in.current) = "unknown" THEN "indeterminate"
             ELSE IF ~ScoreOk(ScoreTerms(in.policy, in.obligations, c)) THEN "excluded"
             ELSE IF Doubt(Observations(c, in.obligations)) # "yes"
             THEN IF Doubt(Observations(c, in.obligations)) = "no" THEN "excluded"
                  ELSE "indeterminate"
             ELSE IF MeetsObligations(c, in.policy, in.obligations) THEN "promotable"
             ELSE "excluded"
<1> DEFINE v == Observations(c, in.obligations)
           S == {i \in 1 .. Len(v) : v[i] # "yes"}
           doubt == IF S # {} THEN Min(S) ELSE 0
<1>1. Len(v) = 4
    BY DEF Observations
<1>2. /\ doubt = 0 <=> S = {}
      /\ doubt # 0 => doubt \in S /\ \A x \in S : doubt <= x
    <2>1. S \in SUBSET (1 .. 4)
        BY <1>1
    <2> HIDE DEF S
    <2> QED BY <2>1, Least
<1>3. SelectInSeq(v, LAMBDA x : x # "yes") = doubt
    BY DEF SelectInSeq
<1>4. S = {i \in 1 .. 4 : v[i] # "yes"}
    BY <1>1
<1> HIDE DEF v, doubt
<1>5. S = {} <=> Doubt(v) = "yes"
    BY <1>4 DEF Doubt
<1>6. doubt # 0 => v[doubt] = Doubt(v) /\ v[doubt] # "yes"
    <2>1. SUFFICES ASSUME doubt # 0 PROVE v[doubt] = Doubt(v) /\ v[doubt] # "yes"
        OBVIOUS
    <2>2. doubt \in 1 .. 4 /\ v[doubt] # "yes" /\ \A x \in 1 .. 4 : v[x] # "yes" => doubt <= x
        BY <1>2, <1>4, <2>1
    <2>3. doubt = 1 \/ doubt = 2 \/ doubt = 3 \/ doubt = 4
        BY <2>2
    <2>4. v[1] # "yes" => doubt <= 1
        BY <2>2
    <2>5. v[2] # "yes" => doubt <= 2
        BY <2>2
    <2>6. v[3] # "yes" => doubt <= 3
        BY <2>2
    <2> QED BY <2>2, <2>3, <2>4, <2>5, <2>6 DEF Doubt
<1> HIDE DEF S
<1>7. Verdict(c, in) =
          IF Barred(c, in) THEN "excluded"
          ELSE IF Classify(c.authority, in.current) = "stale" THEN "stale"
          ELSE IF Classify(c.authority, in.current) = "unknown" THEN "indeterminate"
          ELSE IF ~ScoreOk(ScoreTerms(in.policy, in.obligations, c)) THEN "excluded"
          ELSE IF doubt # 0 THEN IF v[doubt] = "no" THEN "excluded" ELSE "indeterminate"
          ELSE IF MeetsObligations(c, in.policy, in.obligations) THEN "promotable"
          ELSE "excluded"
    BY <1>3 DEF Verdict, Barred, v
<1>8. doubt # 0 <=> Doubt(v) # "yes"
    BY <1>2, <1>5
<1> QED BY <1>6, <1>7, <1>8 DEF v

\* What a doubt is resolved to agrees with what was observed.
Agrees(new, old) == old # "unknown" => new = old

\* d is c with some of its doubts resolved, perhaps under another authority.
Settles(d, c) ==
    /\ d.path = c.path /\ d.upstream_rank = c.upstream_rank /\ d.withdrawn = c.withdrawn
    /\ d.evidence.capabilities = c.evidence.capabilities
    /\ d.evidence.health = c.evidence.health /\ d.evidence.cost = c.evidence.cost
    /\ Agrees(d.evidence.eligibility, c.evidence.eligibility)
    /\ Agrees(d.evidence.freshness, c.evidence.freshness)
    /\ Agrees(d.evidence.reachability, c.evidence.reachability)
    /\ Agrees(d.evidence.capacity, c.evidence.capacity)

\* Two requests that judge a candidate alike.
Alike(im, in) ==
    /\ im.incumbent = in.incumbent /\ im.current = in.current /\ im.fenced = in.fenced
    /\ im.obligations = in.obligations
    /\ im.policy.w_health = in.policy.w_health /\ im.policy.w_cost = in.policy.w_cost
    /\ im.policy.w_rank = in.policy.w_rank
    /\ im.policy.w_capability = in.policy.w_capability
    /\ im.policy.min_score = in.policy.min_score

\* No score depends on what was in doubt.
LEMMA SameScore ==
    ASSUME NEW in, NEW im, Alike(im, in), NEW c, NEW d, Settles(d, c)
    PROVE  /\ ScoreTerms(im.policy, im.obligations, d) = ScoreTerms(in.policy, in.obligations, c)
           /\ Score(im.policy, im.obligations, d) = Score(in.policy, in.obligations, c)
           /\ MeetsObligations(d, im.policy, im.obligations) <=>
                MeetsObligations(c, in.policy, in.obligations)
<1>1. ScoreTerms(im.policy, im.obligations, d) = ScoreTerms(in.policy, in.obligations, c)
    BY DEF ScoreTerms, Alike, Settles
<1>2. Score(im.policy, im.obligations, d) = Score(in.policy, in.obligations, c)
    BY <1>1 DEF Score
<1> QED BY <1>1, <1>2 DEF MeetsObligations, Alike, Settles

\* A gate that decided keeps its decision when doubts are resolved.
LEMMA DoubtSettled ==
    ASSUME NEW o, NEW c, NEW d, Settles(d, c),
           Doubt(Observations(c, o)) # "unknown"
    PROVE  Doubt(Observations(d, o)) = Doubt(Observations(c, o))
BY DEF Doubt, Observations, Settles, Agrees

\* A verdict that is not a doubt stands, however the doubts are resolved.
LEMMA VerdictSettled ==
    ASSUME NEW in, NEW im, Alike(im, in), NEW c \in AlternateCandidate, NEW d,
           Settles(d, c), d.authority = c.authority, Verdict(c, in) # "indeterminate"
    PROVE  Verdict(d, im) = Verdict(c, in)
<1>1. Doubt(Observations(c, in.obligations)) \in Tri
    BY DEF Doubt, Observations, AlternateCandidate, PathEvidence, Tri
<1>2. Doubt(Observations(c, in.obligations)) # "unknown" =>
          Doubt(Observations(d, im.obligations)) = Doubt(Observations(c, in.obligations))
    BY DoubtSettled DEF Alike
<1>3. Barred(d, im) <=> Barred(c, in)
    BY DEF Barred, Alike, Settles
<1>4. Classify(d.authority, im.current) = Classify(c.authority, in.current)
    BY DEF Alike
<1>5. /\ ScoreOk(ScoreTerms(im.policy, im.obligations, d)) <=>
           ScoreOk(ScoreTerms(in.policy, in.obligations, c))
      /\ MeetsObligations(d, im.policy, im.obligations) <=>
           MeetsObligations(c, in.policy, in.obligations)
    BY SameScore
<1> HIDE DEF Alike
<1> QED BY <1>1, <1>2, <1>3, <1>4, <1>5, VerdictGates DEF Tri

\* What was excluded is not promotable, however the doubts are resolved, and
\* under whatever authority, unless its own conflicts.
LEMMA StillExcluded ==
    ASSUME NEW in, NEW im, Alike(im, in), NEW c \in AlternateCandidate, NEW d,
           Settles(d, c), Verdict(c, in) = "excluded"
    PROVE  Verdict(d, im) # "promotable"
<1>1. Doubt(Observations(c, in.obligations)) \in Tri
    BY DEF Doubt, Observations, AlternateCandidate, PathEvidence, Tri
<1>2. Doubt(Observations(c, in.obligations)) # "unknown" =>
          Doubt(Observations(d, im.obligations)) = Doubt(Observations(c, in.obligations))
    BY DoubtSettled DEF Alike
<1>3. Barred(d, im) <=> Barred(c, in)
    BY DEF Barred, Alike, Settles
<1>4. /\ ScoreOk(ScoreTerms(im.policy, im.obligations, d)) <=>
           ScoreOk(ScoreTerms(in.policy, in.obligations, c))
      /\ MeetsObligations(d, im.policy, im.obligations) <=>
           MeetsObligations(c, in.policy, in.obligations)
    BY SameScore
<1> QED BY <1>1, <1>2, <1>3, <1>4, VerdictGates DEF Tri

-----------------------------------------------------------------------------
(* The decision. *)

\* How many members the bounded search examines.
Examined(in) ==
    IF in.policy.search_limit < Len(in.candidates) THEN in.policy.search_limit
    ELSE Len(in.candidates)

\* A vector among the members examined conflicts.
Conflicted(in) ==
    \E i \in 1 .. Examined(in) : Classify(Sorted(in)[i].authority, in.current) = "conflict"

Judged(in) == [i \in 1 .. Examined(in) |-> Verdict(Sorted(in)[i], in)]

\* The first of the members examined that is promotable, with no doubt before
\* it that the policy does not allow to skip.
Chosen(in, k) ==
    /\ ~Conflicted(in)
    /\ k \in 1 .. Examined(in)
    /\ Judged(in)[k] = "promotable"
    /\ \A i \in 1 .. k - 1 :
         /\ Judged(in)[i] # "promotable"
         /\ Judged(in)[i] = "indeterminate" => in.policy.allow_unknown_skip

\* The members examined.
Ranked(in) == SubSeq(Sorted(in), 1, Examined(in))

\* The first of them that has this verdict.
Earliest(in, verdict) ==
    LET S == {i \in 1 .. Examined(in) : Judged(in)[i] = verdict}
    IN  IF S # {} THEN Min(S) ELSE 0

\* Decide, in these terms.
LEMMA Scan ==
    ASSUME NEW in \in SelectionInput, ValidSet(in)
    PROVE  /\ Sorted(in) \in Seq(AlternateCandidate) /\ Len(Sorted(in)) = Len(in.candidates)
           /\ Len(Sorted(in)) \in Nat /\ Examined(in) \in 0 .. Len(Sorted(in))
           /\ Examined(in) \in Nat
           /\ DOMAIN Ranked(in) = 1 .. Examined(in) /\ Len(Ranked(in)) = Examined(in)
           /\ \A i \in 1 .. Examined(in) : Ranked(in)[i] = Sorted(in)[i]
           /\ Decide(in) =
                IF Conflicted(in) THEN Refuse("refused_conflict")
                ELSE IF Earliest(in, "promotable") = 0
                THEN NothingFound(in, Ranked(in), Judged(in))
                ELSE IF /\ Earliest(in, "indeterminate") \in 1 .. Earliest(in, "promotable")
                        /\ ~in.policy.allow_unknown_skip
                THEN Refuse("indeterminate_unknown_member")
                ELSE [outcome |-> "authorized",
                      selected |-> Ranked(in)[Earliest(in, "promotable")].path]
<1> DEFINE s == Sorted(in)
           m == Examined(in)
           ranked == Ranked(in)
           v == Judged(in)
           F == {i \in 1 .. m : v[i] = "promotable"}
           B == {i \in 1 .. m : v[i] = "indeterminate"}
           first == Earliest(in, "promotable")
           blocked == Earliest(in, "indeterminate")
<1>1. /\ s \in Seq(AlternateCandidate) /\ Len(s) = Len(in.candidates)
      /\ Len(s) \in Nat /\ m \in 0 .. Len(s) /\ m \in Nat
    <2>1. s \in Seq(AlternateCandidate) /\ Len(s) = Len(in.candidates)
        BY SortCanonical
    <2>2. in.policy.search_limit \in Nat
        BY DEF SelectionInput, FailoverPolicy
    <2> HIDE DEF s
    <2> QED BY <2>1, <2>2 DEF Examined
<1>2. /\ DOMAIN ranked = 1 .. m /\ Len(ranked) = m
      /\ \A i \in 1 .. m : ranked[i] = s[i]
    <2>1. ranked = SubSeq(s, 1, m)
        BY DEF Ranked
    <2> HIDE DEF s, m, ranked
    <2> QED BY <1>1, <2>1
<1>3. /\ m = IF in.policy.search_limit < Len(s) THEN in.policy.search_limit ELSE Len(s)
    BY <1>1 DEF Examined
<1>4. v = [i \in DOMAIN ranked |-> Verdict(ranked[i], in)]
    BY <1>2 DEF Judged
<1>5. DOMAIN v = 1 .. m /\ Len(v) = m
    <2>1. v \in Seq({v[i] : i \in 1 .. m}) /\ DOMAIN v = 1 .. m
        BY <1>1 DEF Judged
    <2> HIDE DEF v, m
    <2> QED BY <1>1, <2>1
<1>6. Conflicted(in) <=>
        \E i \in DOMAIN ranked : Classify(ranked[i].authority, in.current) = "conflict"
    <2> HIDE DEF ranked
    <2> QED BY <1>2 DEF Conflicted
<1>7. Decide(in) = IF Conflicted(in) THEN Refuse("refused_conflict")
                   ELSE IF first = 0 THEN NothingFound(in, ranked, v)
                   ELSE IF blocked \in 1 .. first /\ ~in.policy.allow_unknown_skip
                   THEN Refuse("indeterminate_unknown_member")
                   ELSE [outcome |-> "authorized", selected |-> ranked[first].path]
    <2> DEFINE rk == SubSeq(s, 1, IF in.policy.search_limit < Len(s)
                                  THEN in.policy.search_limit ELSE Len(s))
               vv == [i \in DOMAIN rk |-> Verdict(rk[i], in)]
               FF == {i \in 1 .. Len(vv) : vv[i] = "promotable"}
               BB == {i \in 1 .. Len(vv) : vv[i] = "indeterminate"}
               f1 == IF FF # {} THEN Min(FF) ELSE 0
               b1 == IF BB # {} THEN Min(BB) ELSE 0
               cc == \E i \in DOMAIN rk : Classify(rk[i].authority, in.current) = "conflict"
    <2>1. Decide(in) = IF cc THEN Refuse("refused_conflict")
                       ELSE IF f1 = 0 THEN NothingFound(in, rk, vv)
                       ELSE IF b1 \in 1 .. f1 /\ ~in.policy.allow_unknown_skip
                       THEN Refuse("indeterminate_unknown_member")
                       ELSE [outcome |-> "authorized", selected |-> rk[f1].path]
        BY DEF Decide, Search, Foremost, Cut, SelectInSeq
    <2>2. rk = ranked
        <3> HIDE DEF s, m
        <3> QED BY <1>3 DEF Ranked, s, m
    <2>3. vv = v /\ (cc <=> Conflicted(in))
        <3> HIDE DEF rk, ranked, v
        <3> QED BY <1>4, <1>6, <2>2
    <2> HIDE DEF rk, vv, cc
    <2>4. FF = F /\ BB = B
        <3> HIDE DEF v, m
        <3> QED BY <1>5, <2>3
    <2>5. f1 = first /\ b1 = blocked
        <3> HIDE DEF FF, BB
        <3> QED BY <2>4 DEF Earliest
    <2> HIDE DEF f1, b1, first, blocked, v, ranked, m
    <2> QED BY <2>1, <2>2, <2>3, <2>5
<1> QED BY <1>1, <1>2, <1>7

\* Decide, by cases.
LEMMA Decided ==
    ASSUME NEW in \in SelectionInput, ValidSet(in)
    PROVE  /\ \A k : Chosen(in, k) =>
                Decide(in) = [outcome |-> "authorized", selected |-> Sorted(in)[k].path]
           /\ (\A k : ~Chosen(in, k)) =>
                Decide(in).outcome # "authorized" /\ Decide(in).selected = 0
           /\ Decide(in).outcome = "refused_proven_no_alternate" =>
                /\ in.completeness = "complete" /\ Examined(in) = Len(in.candidates)
                /\ \A i \in 1 .. Examined(in) : Judged(in)[i] = "excluded"
<1> DEFINE s == Sorted(in)
           m == Examined(in)
           ranked == Ranked(in)
           v == Judged(in)
           F == {i \in 1 .. m : v[i] = "promotable"}
           B == {i \in 1 .. m : v[i] = "indeterminate"}
           first == Earliest(in, "promotable")
           blocked == Earliest(in, "indeterminate")
<1>1. /\ s \in Seq(AlternateCandidate) /\ Len(s) = Len(in.candidates)
      /\ Len(s) \in Nat /\ m \in 0 .. Len(s) /\ m \in Nat
    BY Scan
<1>2. /\ DOMAIN ranked = 1 .. m /\ Len(ranked) = m
      /\ \A i \in 1 .. m : ranked[i] = s[i]
    BY Scan
<1>3. DOMAIN v = 1 .. m
    BY DEF Judged
<1>4. Decide(in) = IF Conflicted(in) THEN Refuse("refused_conflict")
                   ELSE IF first = 0 THEN NothingFound(in, ranked, v)
                   ELSE IF blocked \in 1 .. first /\ ~in.policy.allow_unknown_skip
                   THEN Refuse("indeterminate_unknown_member")
                   ELSE [outcome |-> "authorized", selected |-> ranked[first].path]
    BY Scan
<1>5. /\ first = 0 <=> F = {}
      /\ first # 0 => first \in F /\ \A x \in F : first <= x
      /\ blocked = 0 <=> B = {}
      /\ blocked # 0 => blocked \in B /\ \A x \in B : blocked <= x
    <2>1. /\ first = IF F # {} THEN Min(F) ELSE 0
          /\ blocked = IF B # {} THEN Min(B) ELSE 0
        BY DEF Earliest
    <2> HIDE DEF F, B, m, first, blocked
    <2>2. F \in SUBSET (1 .. m) /\ B \in SUBSET (1 .. m)
        BY DEF F, B
    <2> QED BY <1>1, <2>1, <2>2, Least
<1> HIDE DEF first, blocked, ranked, m, s
<1>6. ASSUME NEW k, Chosen(in, k)
       PROVE  Decide(in) = [outcome |-> "authorized", selected |-> s[k].path]
    <2>1. /\ ~Conflicted(in) /\ k \in F
          /\ \A i \in 1 .. k - 1 :
               /\ v[i] # "promotable"
               /\ v[i] = "indeterminate" => in.policy.allow_unknown_skip
        BY <1>6 DEF Chosen, m
    <2> HIDE DEF v
    <2>2. first # 0 /\ first \in 1 .. m /\ first <= k /\ v[first] = "promotable"
        BY <1>5, <2>1
    <2>3. ~(first \in 1 .. k - 1)
        BY <2>1, <2>2
    <2>4. first = k
        BY <1>1, <2>1, <2>2, <2>3
    <2>5. ~(blocked \in 1 .. first /\ ~in.policy.allow_unknown_skip)
        <3>1. SUFFICES ASSUME blocked \in 1 .. k, ~in.policy.allow_unknown_skip
                       PROVE  FALSE
            BY <2>4
        <3>2. blocked \in 1 .. m /\ v[blocked] = "indeterminate"
            <4>1. blocked # 0
                BY <1>1, <2>2, <2>4, <3>1
            <4> QED BY <1>5, <4>1
        <3>3. blocked # k
            <4>1. v[k] = "promotable"
                BY <2>1
            <4> QED BY <3>2, <4>1
        <3>4. blocked \in 1 .. k - 1
            BY <1>1, <2>1, <3>1, <3>2, <3>3
        <3> QED BY <2>1, <3>1, <3>2, <3>4
    <2> QED BY <1>2, <1>4, <2>1, <2>2, <2>4, <2>5
<1>7. ASSUME \A k : ~Chosen(in, k)
       PROVE  Decide(in).outcome # "authorized" /\ Decide(in).selected = 0
    <2>1. CASE Conflicted(in) \/ first = 0
        BY <1>4, <2>1 DEF Refuse, NothingFound
    <2>2. CASE ~Conflicted(in) /\ first # 0
        <3>1. ~Chosen(in, first)
            BY <1>7
        <3>2. first \in 1 .. m /\ v[first] = "promotable" /\ \A x \in F : first <= x
            BY <1>5, <2>2
        <3>3. PICK i \in 1 .. first - 1 :
                    \/ v[i] = "promotable"
                    \/ v[i] = "indeterminate" /\ ~in.policy.allow_unknown_skip
            BY <2>2, <3>1, <3>2 DEF Chosen, m
        <3>4. i \in 1 .. m /\ i < first
            BY <1>1, <3>2, <3>3
        <3> HIDE DEF v
        <3>5. v[i] # "promotable"
            <4>1. i \in F => first <= i
                BY <3>2
            <4> QED BY <1>1, <3>2, <3>4, <4>1
        <3>6. i \in B
            BY <3>3, <3>4, <3>5
        <3>7. blocked \in 1 .. m /\ blocked <= i
            BY <1>5, <3>6
        <3>8. blocked \in 1 .. first
            BY <1>1, <3>2, <3>4, <3>7
        <3> QED BY <1>4, <2>2, <3>3, <3>5, <3>8 DEF Refuse
    <2> QED BY <2>1, <2>2
<1>8. ASSUME Decide(in).outcome = "refused_proven_no_alternate"
       PROVE  /\ in.completeness = "complete" /\ Examined(in) = Len(in.candidates)
              /\ \A i \in 1 .. Examined(in) : v[i] = "excluded"
    <2>1. first = 0 /\ Decide(in) = NothingFound(in, ranked, v)
        BY <1>4, <1>8 DEF Refuse
    <2>2. /\ in.completeness = "complete" /\ ~(m < Len(in.candidates))
          /\ "indeterminate" \notin Range(v) /\ "stale" \notin Range(v)
        BY <1>2, <1>8, <2>1 DEF NothingFound, Refuse
    <2>3. m = Len(in.candidates)
        BY <1>1, <2>2
    <2>4. \A i \in 1 .. m : v[i] # "indeterminate" /\ v[i] # "stale" /\ v[i] # "promotable"
        BY <1>3, <1>5, <2>1, <2>2 DEF Range
    <2>5. \A i \in 1 .. m : v[i] \in {"excluded", "stale", "indeterminate", "promotable"}
        <3>1. \A i \in 1 .. m : v[i] = Verdict(Sorted(in)[i], in)
            BY DEF Judged, m
        <3> QED BY <3>1, VerdictGates
    <2> QED BY <2>2, <2>3, <2>4, <2>5 DEF m
<1> QED BY <1>6, <1>7, <1>8 DEF s

\* The requests whose candidates are looked at.
Admitted(in) ==
    /\ ValidPolicy(in.policy) /\ ValidObligations(in.obligations)
    /\ ValidSet(in) /\ in.incumbent # 0
    /\ ClassifyGeneration(in.policy.generation, in.current.policy) = "current"
    /\ ClassifyGeneration(in.obligations.generation, in.current.obligations) = "current"
    /\ in.expected # 0 => in.expected = in.generation

LEMMA Evaluated ==
    ASSUME NEW in
    PROVE  /\ Admitted(in) => Evaluate(in) = Decide(in)
           /\ ~Admitted(in) => /\ Evaluate(in).outcome # "authorized"
                               /\ Evaluate(in).outcome # "refused_proven_no_alternate"
                               /\ Evaluate(in).selected = 0
<1>1. CASE Admitted(in)
    BY <1>1 DEF Admitted, Evaluate
<1>2. CASE ~Admitted(in)
    BY <1>2 DEF Admitted, Evaluate, Mismatch, Refuse
<1> QED BY <1>1, <1>2

\* The members of the sorted list are the candidates, and nothing else.
LEMMA SortedMembers ==
    ASSUME NEW in \in SelectionInput, ValidSet(in)
    PROVE  /\ Len(Sorted(in)) = Len(in.candidates) /\ Len(in.candidates) \in Nat
           /\ Examined(in) \in 0 .. Len(in.candidates)
           /\ \A i \in 1 .. Len(in.candidates) :
                /\ Sorted(in)[i] \in AlternateCandidate
                /\ \E j \in 1 .. Len(in.candidates) : Sorted(in)[i] = in.candidates[j]
                /\ \E j \in 1 .. Len(in.candidates) : in.candidates[i] = Sorted(in)[j]
<1> DEFINE s == Sorted(in)
           c == in.candidates
           n == Len(c)
<1>1. s \in Seq(AlternateCandidate) /\ Len(s) = n /\ First(s, n) = First(c, n)
    BY SortCanonical
<1>2. c \in Seq(AlternateCandidate) /\ n \in Nat /\ in.policy.search_limit \in Nat
    BY DEF SelectionInput, FailoverPolicy
<1>3. Examined(in) \in 0 .. n
    <2> HIDE DEF c
    <2> QED BY <1>2 DEF Examined, c
<1> HIDE DEF s, c
<1>4. \A i \in 1 .. n : s[i] \in AlternateCandidate
    BY <1>1
<1>5. \A i \in 1 .. n : s[i] \in First(c, n) /\ c[i] \in First(s, n)
    BY <1>1 DEF First
<1>6. \A i \in 1 .. n : (\E j \in 1 .. n : s[i] = c[j]) /\ (\E j \in 1 .. n : c[i] = s[j])
    BY <1>5 DEF First
<1> QED BY <1>1, <1>2, <1>3, <1>4, <1>6 DEF s, c

\* The path that is authorized is a member that was declared under the vector
\* the grant is bound to, neither fenced nor the incumbent, and no candidate that
\* the canonical order puts before it is promotable.
THEOREM SelectsTheBest == Spec => []SelectionIsBest
<1>1. TypeOK => SelectionIsBest
    <2> DEFINE in == request
               s == Sorted(in)
               n == Len(in.candidates)
    <2> SUFFICES ASSUME TypeOK, Evaluate(in).outcome = "authorized"
                 PROVE  \E c \in Range(in.candidates) :
                          /\ c.path = Evaluate(in).selected
                          /\ c.path # in.incumbent
                          /\ c.path \notin in.fenced
                          /\ Classify(c.authority, in.current) = "current"
                          /\ \A d \in Range(in.candidates) :
                               CanonicalLess(in, d, c) => Verdict(d, in) # "promotable"
        BY DEF SelectionIsBest, Decision
    <2>1. Admitted(in) /\ Evaluate(in) = Decide(in)
        BY Evaluated
    <2>2. in \in SelectionInput /\ ValidSet(in)
        BY <2>1 DEF TypeOK, Admitted
    <2>3. PICK k : Chosen(in, k)
        BY <2>1, <2>2, Decided
    <2>4. Decide(in).selected = s[k].path
        BY <2>2, <2>3, Decided
    <2>5. /\ n \in Nat /\ Examined(in) \in 0 .. n
          /\ \A i \in 1 .. n :
               /\ s[i] \in AlternateCandidate
               /\ \E j \in 1 .. n : s[i] = in.candidates[j]
               /\ \E j \in 1 .. n : in.candidates[i] = s[j]
        BY <2>2, SortedMembers
    <2>6. DOMAIN in.candidates = 1 .. n
        BY <2>2 DEF SelectionInput
    <2>7. \A i, j \in 1 .. n : i < j => CanonicalLess(in, s[i], s[j])
        <3>1. Len(s) = n /\ \A i, j \in 1 .. Len(s) : i < j => CanonicalLess(in, s[i], s[j])
            BY <2>2, SortCanonical
        <3> QED BY <3>1
    <2>8. Ranks(in)
        BY <2>2 DEF SelectionInput, Ranks
    <2>9. /\ k \in 1 .. Examined(in)
          /\ Classify(s[k].authority, in.current) # "conflict"
          /\ Verdict(s[k], in) = "promotable"
          /\ \A i \in 1 .. k - 1 : Verdict(s[i], in) # "promotable"
        <3>1. k \in 1 .. Examined(in) /\ \A i \in 1 .. k - 1 : i \in 1 .. Examined(in)
            BY <2>3, <2>5 DEF Chosen
        <3>2. \A i \in 1 .. Examined(in) : Judged(in)[i] = Verdict(s[i], in)
            BY DEF Judged
        <3>3. ~Conflicted(in)
            BY <2>3 DEF Chosen
        <3>4. Classify(s[k].authority, in.current) # "conflict"
            BY <3>1, <3>3 DEF Conflicted
        <3> QED BY <2>3, <3>1, <3>2, <3>4 DEF Chosen
    <2>10. k \in 1 .. n
        BY <2>5, <2>9
    <2> HIDE DEF s, n, in
    <2>11. s[k] \in Range(in.candidates)
        BY <2>5, <2>6, <2>10 DEF Range
    <2>12. /\ ~Barred(s[k], in)
           /\ Classify(s[k].authority, in.current) = "current"
        <3>1. Classify(s[k].authority, in.current) \in AuthorityClass
            BY DEF Classify, AuthorityClass
        <3> QED BY <2>9, <3>1, VerdictGates DEF AuthorityClass
    <2>13. ASSUME NEW d \in Range(in.candidates), CanonicalLess(in, d, s[k])
           PROVE  Verdict(d, in) # "promotable"
        <3>1. PICK j \in 1 .. n : d = in.candidates[j]
            BY <2>6 DEF Range
        <3>2. PICK i \in 1 .. n : d = s[i]
            BY <2>5, <3>1
        <3>3. s[i] \in AlternateCandidate /\ s[k] \in AlternateCandidate
            BY <2>5, <2>10
        <3>4. i # k
            BY <2>8, <2>13, <3>2, <3>3, CanonicalOrder
        <3>5. ~(k < i)
            <4>1. ~CanonicalLess(in, s[k], s[i])
                BY <2>8, <2>13, <3>2, <3>3, CanonicalOrder
            <4> QED BY <2>7, <2>10, <4>1
        <3>6. i \in 1 .. k - 1
            BY <2>5, <2>10, <3>4, <3>5
        <3> QED BY <2>9, <3>2, <3>6
    <2> QED BY <2>1, <2>4, <2>11, <2>12, <2>13 DEF Barred
<1> QED BY <1>1, RequestsTyped, PTL

-----------------------------------------------------------------------------
(* Resolving the doubts. *)

LEMMA ResolvedSettles ==
    ASSUME NEW c \in AlternateCandidate, NEW d \in Resolved(c)
    PROVE  /\ d \in AlternateCandidate /\ Settles(d, c) /\ d.authority = c.authority
<1>1. PICK x \in Settled(c.evidence.eligibility), y \in Settled(c.evidence.freshness),
           z \in Settled(c.evidence.reachability), u \in Settled(c.evidence.capacity) :
        d = Observed(c, x, y, z, u)
    BY DEF Resolved
<1> DEFINE e == [c.evidence EXCEPT !.eligibility = x, !.freshness = y,
                                   !.reachability = z, !.capacity = u]
<1>2. c.evidence \in PathEvidence
    BY DEF AlternateCandidate
<1>3. /\ x \in Tri /\ Agrees(x, c.evidence.eligibility)
      /\ y \in Tri /\ Agrees(y, c.evidence.freshness)
      /\ z \in Tri /\ Agrees(z, c.evidence.reachability)
      /\ u \in Tri /\ Agrees(u, c.evidence.capacity)
    BY <1>2 DEF Settled, PathEvidence, Tri, Agrees
<1>4. /\ e \in PathEvidence
      /\ e.eligibility = x /\ e.freshness = y /\ e.reachability = z /\ e.capacity = u
      /\ e.capabilities = c.evidence.capabilities /\ e.health = c.evidence.health
      /\ e.cost = c.evidence.cost
    BY <1>2, <1>3 DEF PathEvidence
<1>5. d = [c EXCEPT !.evidence = e]
    BY <1>1 DEF Observed
<1> HIDE DEF e
<1>6. /\ d \in AlternateCandidate /\ d.evidence = e /\ d.path = c.path
      /\ d.upstream_rank = c.upstream_rank /\ d.withdrawn = c.withdrawn
      /\ d.authority = c.authority
    BY <1>4, <1>5 DEF AlternateCandidate
<1> QED BY <1>3, <1>4, <1>6 DEF Settles

\* A list that agrees with another, member by member.
SettlesAll(w, c) ==
    /\ w \in Seq(AlternateCandidate) /\ Len(w) = Len(c)
    /\ \A i \in 1 .. Len(c) : Settles(w[i], c[i])

LEMMA ResolutionsSettle ==
    ASSUME NEW in \in SelectionInput, NEW w \in Resolutions(in)
    PROVE  /\ SettlesAll(w, in.candidates)
           /\ \A i \in 1 .. Len(in.candidates) : w[i].authority = in.candidates[i].authority
<1> DEFINE c == in.candidates
<1>1. c \in Seq(AlternateCandidate) /\ DOMAIN c = 1 .. Len(c) /\ Len(c) \in Nat
    BY DEF SelectionInput
<1>2. /\ w \in [1 .. Len(c) -> UNION {Resolved(x) : x \in Range(c)}]
      /\ \A i \in 1 .. Len(c) : w[i] \in Resolved(c[i])
    BY <1>1 DEF Resolutions
<1> HIDE DEF c
<1>3. \A i \in 1 .. Len(c) : w[i] \in AlternateCandidate /\ Settles(w[i], c[i])
                              /\ w[i].authority = c[i].authority
    BY <1>1, <1>2, ResolvedSettles
<1>4. w \in [1 .. Len(c) -> AlternateCandidate]
    BY <1>2, <1>3
<1>5. w \in Seq(AlternateCandidate) /\ Len(w) = Len(c)
    BY <1>1, <1>4
<1> QED BY <1>3, <1>5 DEF SettlesAll, c

\* Once REFUSED_PROVEN_NO_ALTERNATE was answered, nothing can be selected in
\* any world that agrees with what was observed, under any authority and with
\* any search limit: a definite exclusion is never undone.
THEOREM AbsenceIsProven == Spec => []ProofOfAbsence
<1>1. TypeOK => ProofOfAbsence
    <2> DEFINE in == request
               c == in.candidates
               n == Len(c)
    <2>0. SUFFICES ASSUME TypeOK, Evaluate(in).outcome = "refused_proven_no_alternate",
                          in.completeness = "complete" =>
                            \E w \in Resolutions(in) :
                              Evaluate([in EXCEPT
                                 !.candidates = [i \in DOMAIN w |->
                                                   [w[i] EXCEPT !.authority = in.current]],
                                 !.policy.search_limit = MaxSearch]).selected # 0
                   PROVE  FALSE
        <3>1. TypeOK /\ Evaluate(in).outcome = "refused_proven_no_alternate"
                => in.completeness = "complete"
            BY Evaluated, Decided DEF TypeOK, Admitted
        <3> QED BY <3>1 DEF ProofOfAbsence, Decision
    <2>1. Admitted(in) /\ Evaluate(in) = Decide(in)
        BY <2>0, Evaluated
    <2>2. in \in SelectionInput /\ ValidSet(in)
        BY <2>0, <2>1 DEF TypeOK, Admitted
    <2>3. /\ in.completeness = "complete" /\ Examined(in) = n
          /\ \A i \in 1 .. Examined(in) : Judged(in)[i] = "excluded"
        BY <2>0, <2>1, <2>2, Decided
    <2>4. \A i \in 1 .. n : Verdict(Sorted(in)[i], in) = "excluded"
        BY <2>3 DEF Judged
    <2>5. /\ n \in Nat
          /\ \A i \in 1 .. n : \E j \in 1 .. n : c[i] = Sorted(in)[j]
        BY <2>2, SortedMembers
    <2>6. \A i \in 1 .. n : Verdict(c[i], in) = "excluded"
        BY <2>4, <2>5
    <2>7. PICK w \in Resolutions(in) :
            Evaluate([in EXCEPT
                !.candidates = [i \in DOMAIN w |-> [w[i] EXCEPT !.authority = in.current]],
                !.policy.search_limit = MaxSearch]).selected # 0
        BY <2>0, <2>3
    <2> DEFINE declared == [i \in DOMAIN w |-> [w[i] EXCEPT !.authority = in.current]]
               im == [in EXCEPT !.candidates = declared, !.policy.search_limit = MaxSearch]
    <2>8. c \in Seq(AlternateCandidate) /\ \A i \in 1 .. n : c[i] \in AlternateCandidate
        BY <2>2 DEF SelectionInput
    <2>9. SettlesAll(w, c)
        BY <2>2, ResolutionsSettle
    <2> HIDE DEF in
    <2>10. /\ declared \in Seq(AlternateCandidate) /\ Len(declared) = n
           /\ \A i \in 1 .. n : Settles(declared[i], c[i])
        <3>0. in.current \in AuthorityVector
            BY <2>2 DEF SelectionInput
        <3>1. /\ w \in Seq(AlternateCandidate) /\ DOMAIN w = 1 .. n
              /\ \A i \in 1 .. n : w[i] \in AlternateCandidate /\ Settles(w[i], c[i])
            BY <2>5, <2>9 DEF SettlesAll
        <3> HIDE DEF c, n
        <3>2. ASSUME NEW i \in 1 .. n
              PROVE  declared[i] \in AlternateCandidate /\ Settles(declared[i], c[i])
            <4>1. declared[i] = [w[i] EXCEPT !.authority = in.current]
                BY <3>1
            <4>2. w[i] \in AlternateCandidate /\ Settles(w[i], c[i])
                BY <3>1
            <4>3. /\ declared[i] \in AlternateCandidate
                  /\ declared[i].path = w[i].path
                  /\ declared[i].upstream_rank = w[i].upstream_rank
                  /\ declared[i].withdrawn = w[i].withdrawn
                  /\ declared[i].evidence = w[i].evidence
                BY <3>0, <4>1, <4>2 DEF AlternateCandidate
            <4> HIDE DEF declared
            <4> QED BY <4>2, <4>3 DEF Settles
        <3>3. declared = [i \in 1 .. n |-> declared[i]]
            BY <3>1
        <3> HIDE DEF declared
        <3>4. declared \in [1 .. n -> AlternateCandidate]
            BY <3>2, <3>3
        <3> QED BY <2>5, <3>2, <3>4
    <2>11. im \in SelectionInput /\ im.candidates = declared /\ Alike(im, in)
        <3>1. MaxSearch \in Nat
            BY ScalesAssumption
        <3> HIDE DEF declared
        <3>2. in.policy \in FailoverPolicy
            BY <2>2 DEF SelectionInput
        <3> DEFINE q == [in.policy EXCEPT !.search_limit = MaxSearch]
        <3>3. /\ q \in FailoverPolicy
              /\ q.w_health = in.policy.w_health /\ q.w_cost = in.policy.w_cost
              /\ q.w_rank = in.policy.w_rank /\ q.w_capability = in.policy.w_capability
              /\ q.min_score = in.policy.min_score
            BY <3>1, <3>2 DEF FailoverPolicy
        <3>4. im = [in EXCEPT !.candidates = declared, !.policy = q]
            BY <2>2 DEF SelectionInput
        <3> HIDE DEF q, im
        <3>5. /\ im \in SelectionInput /\ im.candidates = declared /\ im.policy = q
              /\ im.incumbent = in.incumbent /\ im.current = in.current
              /\ im.fenced = in.fenced /\ im.obligations = in.obligations
            BY <2>2, <2>10, <3>3, <3>4 DEF SelectionInput
        <3> QED BY <3>3, <3>5 DEF Alike
    <2>12. Evaluate(im).selected # 0
        BY <2>7
    <2> HIDE DEF declared, im, c
    <2>13. Admitted(im) /\ Evaluate(im) = Decide(im)
        BY <2>12, Evaluated
    <2>14. ValidSet(im)
        BY <2>13 DEF Admitted
    <2>15. PICK k : Chosen(im, k)
        BY <2>11, <2>12, <2>13, <2>14, Decided
    <2>16. k \in 1 .. Examined(im) /\ Verdict(Sorted(im)[k], im) = "promotable"
        BY <2>15 DEF Chosen, Judged
    <2>17. PICK i \in 1 .. n : Sorted(im)[k] = declared[i]
        <3>1. /\ Examined(im) \in 0 .. n
              /\ \A j \in 1 .. n : \E i \in 1 .. n : Sorted(im)[j] = declared[i]
            <4>1. Len(im.candidates) = n /\ im.candidates = declared
                BY <2>10, <2>11
            <4>2. /\ Examined(im) \in 0 .. Len(im.candidates)
                  /\ \A j \in 1 .. Len(im.candidates) : \E i \in 1 .. Len(im.candidates) :
                       Sorted(im)[j] = im.candidates[i]
                BY <2>11, <2>14, SortedMembers
            <4> HIDE DEF n
            <4> QED BY <4>1, <4>2
        <3>2. k \in 1 .. n
            BY <2>5, <2>16, <3>1
        <3> QED BY <3>1, <3>2
    <2>18. Verdict(declared[i], im) # "promotable"
        BY <2>6, <2>8, <2>10, <2>11, StillExcluded
    <2> QED BY <2>16, <2>17, <2>18
<1> QED BY <1>1, RequestsTyped, PTL

\* What validation looks at is not in doubt.
LEMMA ValidSettled ==
    ASSUME NEW in \in SelectionInput, ValidSet(in), NEW w, SettlesAll(w, in.candidates)
    PROVE  ValidSet([in EXCEPT !.candidates = w])
<1> DEFINE c == in.candidates
           im == [in EXCEPT !.candidates = w]
<1>1. im.candidates = w /\ im.generation = in.generation
    BY DEF SelectionInput
<1>2. c \in Seq(AlternateCandidate) /\ Len(c) \in Nat /\ DOMAIN c = 1 .. Len(c)
    BY DEF SelectionInput
<1>3. DOMAIN w = 1 .. Len(c) /\ \A i \in 1 .. Len(c) : Settles(w[i], c[i])
    BY <1>2 DEF SettlesAll
<1>4. /\ in.generation # 0
      /\ \A i \in 1 .. Len(c) : c[i].path # 0 /\ c[i].upstream_rank <= RankScale
                                 /\ ValidEvidence(c[i].evidence)
      /\ \A i, j \in 1 .. Len(c) : c[i].path = c[j].path => i = j
    BY <1>2 DEF ValidSet
<1> HIDE DEF c, im
<1>5. \A i \in 1 .. Len(c) : w[i].path = c[i].path /\ w[i].path # 0
                              /\ w[i].upstream_rank <= RankScale
                              /\ ValidEvidence(w[i].evidence)
    BY <1>3, <1>4 DEF Settles, ValidEvidence
<1>6. \A i, j \in 1 .. Len(c) : w[i].path = w[j].path => i = j
    BY <1>4, <1>5
<1> QED BY <1>1, <1>3, <1>4, <1>5, <1>6 DEF ValidSet, im

\* Resolving doubts moves no candidate in the canonical order.
LEMMA SortSettled ==
    ASSUME NEW in \in SelectionInput, ValidSet(in), NEW im \in SelectionInput, ValidSet(im),
           Alike(im, in), SettlesAll(im.candidates, in.candidates)
    PROVE  \A k \in 1 .. Len(in.candidates) : \E j \in 1 .. Len(in.candidates) :
             Sorted(in)[k] = in.candidates[j] /\ Sorted(im)[k] = im.candidates[j]
<1> DEFINE c == in.candidates
           w == im.candidates
           s == Sorted(in)
           t == Sorted(im)
           n == Len(c)
           at == [k \in 1 .. n |-> CHOOSE j \in 1 .. n : s[k] = c[j]]
           u == [k \in 1 .. n |-> w[at[k]]]
<1>1. /\ n \in Nat /\ Len(w) = n /\ w \in Seq(AlternateCandidate) /\ c \in Seq(AlternateCandidate)
      /\ Ranks(im)
      /\ \A i \in 1 .. n : Settles(w[i], c[i])
    BY DEF SelectionInput, Ranks, SettlesAll
<1>2. /\ s \in Seq(AlternateCandidate) /\ Len(s) = n /\ First(s, n) = First(c, n)
      /\ Apart(c) /\ Strict(in, s)
    BY SortCanonical DEF Strict
<1>3. /\ t \in Seq(AlternateCandidate) /\ Len(t) = n /\ First(t, n) = First(w, n)
      /\ Strict(im, t)
    <2>1. /\ t \in Seq(AlternateCandidate) /\ Len(t) = Len(w)
          /\ First(t, Len(t)) = First(w, Len(t)) /\ Strict(im, t)
        BY SortCanonical DEF Strict
    <2> HIDE DEF t, w
    <2> QED BY <1>1, <2>1
<1>4. \A a, b \in 1 .. n : CanonicalLess(in, c[a], c[b]) => CanonicalLess(im, w[a], w[b])
    <2> HIDE DEF c, w
    <2>1. \A a \in 1 .. n : /\ Score(im.policy, im.obligations, w[a]) =
                                 Score(in.policy, in.obligations, c[a])
                            /\ w[a].upstream_rank = c[a].upstream_rank
                            /\ w[a].path = c[a].path
        <3>1. \A a \in 1 .. n : Score(im.policy, im.obligations, w[a]) =
                                 Score(in.policy, in.obligations, c[a])
            BY <1>1, SameScore
        <3> QED BY <1>1, <3>1 DEF Settles
    <2> QED BY <2>1 DEF CanonicalLess
<1> HIDE DEF s, t, c, w, n
<1>5. \A k \in 1 .. n : at[k] \in 1 .. n /\ s[k] = c[at[k]]
    <2>1. \A k \in 1 .. n : \E j \in 1 .. n : s[k] = c[j]
        <3>1. \A k \in 1 .. n : s[k] \in First(c, n)
            BY <1>2 DEF First
        <3> QED BY <3>1 DEF First
    <2> QED BY <2>1
<1>6. \A j \in 1 .. n : \E k \in 1 .. n : at[k] = j
    <2> SUFFICES ASSUME NEW j \in 1 .. n
                 PROVE  \E k \in 1 .. n : at[k] = j
        OBVIOUS
    <2>1. PICK k \in 1 .. n : c[j] = s[k]
        <3>1. c[j] \in First(s, n)
            BY <1>2 DEF First
        <3> QED BY <3>1 DEF First
    <2>2. at[k] \in 1 .. n /\ c[at[k]] = c[j]
        BY <1>5, <2>1
    <2> HIDE DEF at
    <2>3. at[k] = j
        BY <1>2, <2>2 DEF Apart, n
    <2> QED BY <2>3
<1> HIDE DEF at
<1>7. u \in Seq(AlternateCandidate) /\ Len(u) = n /\ \A k \in 1 .. n : u[k] = w[at[k]]
    <2>1. \A k \in 1 .. n : w[at[k]] \in AlternateCandidate
        BY <1>1, <1>5
    <2>2. u \in [1 .. n -> AlternateCandidate]
        BY <2>1
    <2> HIDE DEF u
    <2>3. u \in Seq(AlternateCandidate) /\ Len(u) = n
        BY <1>1, <2>2
    <2> QED BY <2>3 DEF u
<1> HIDE DEF u
<1>8. Strict(im, u)
    <2> SUFFICES ASSUME NEW i \in 1 .. n, NEW j \in 1 .. n, i < j
                 PROVE  CanonicalLess(im, u[i], u[j])
        BY <1>7 DEF Strict
    <2>1. CanonicalLess(in, s[i], s[j])
        BY <1>2 DEF Strict
    <2>2. CanonicalLess(in, c[at[i]], c[at[j]])
        BY <1>5, <2>1
    <2>3. CanonicalLess(im, w[at[i]], w[at[j]])
        BY <1>4, <1>5, <2>2
    <2> QED BY <1>7, <2>3
<1>9. First(u, n) = First(w, n)
    <2>1. ASSUME NEW x \in First(u, n) PROVE x \in First(w, n)
        <3>1. PICK k \in 1 .. n : x = u[k]
            BY <2>1 DEF First
        <3> QED BY <1>5, <1>7, <3>1 DEF First
    <2>2. ASSUME NEW x \in First(w, n) PROVE x \in First(u, n)
        <3>1. PICK j \in 1 .. n : x = w[j]
            BY <2>2 DEF First
        <3>2. PICK k \in 1 .. n : at[k] = j
            BY <1>6
        <3> QED BY <1>7, <3>1, <3>2 DEF First
    <2> QED BY <2>1, <2>2
<1>10. u = t
    BY <1>1, <1>3, <1>7, <1>8, <1>9, SortUnique
<1>11. \A k \in 1 .. n : at[k] \in 1 .. n /\ s[k] = c[at[k]] /\ t[k] = w[at[k]]
    BY <1>5, <1>7, <1>10
<1> QED BY <1>11 DEF s, t, c, w, n

\* Without leave to skip unknown members, an authorization stands whatever the
\* unknown observations turn out to be: the members before the selected one
\* are out for definite reasons, and it passed every gate for certain.
THEOREM AuthorizesFailClosed == Spec => []FailClosed
<1>1. TypeOK => FailClosed
    <2> DEFINE in == request
               c == in.candidates
               n == Len(c)
               s == Sorted(in)
    <2> SUFFICES ASSUME TypeOK, Evaluate(in).outcome = "authorized",
                        ~in.policy.allow_unknown_skip, NEW w \in Resolutions(in)
                 PROVE  Evaluate([in EXCEPT !.candidates = w]) = Evaluate(in)
        BY DEF FailClosed, Decision
    <2> DEFINE im == [in EXCEPT !.candidates = w]
               t == Sorted(im)
    <2>1. Admitted(in) /\ Evaluate(in) = Decide(in)
        BY Evaluated
    <2>2. in \in SelectionInput /\ ValidSet(in)
        BY <2>1 DEF TypeOK, Admitted
    <2>3. /\ SettlesAll(w, c) /\ \A i \in 1 .. n : w[i].authority = c[i].authority
        BY <2>2, ResolutionsSettle
    <2> HIDE DEF in
    <2>4. /\ im \in SelectionInput /\ im.candidates = w /\ im.policy = in.policy
          /\ im.obligations = in.obligations /\ im.incumbent = in.incumbent
          /\ im.current = in.current /\ im.fenced = in.fenced
          /\ im.expected = in.expected /\ im.generation = in.generation
        <3>1. w \in Seq(AlternateCandidate)
            BY <2>3 DEF SettlesAll
        <3> QED BY <2>2, <3>1 DEF SelectionInput
    <2>5. ValidSet(im)
        BY <2>2, <2>3, ValidSettled
    <2> HIDE DEF im
    <2>6. Alike(im, in)
        BY <2>4 DEF Alike
    <2>7. Admitted(im) /\ Evaluate(im) = Decide(im)
        <3>1. Admitted(im)
            BY <2>1, <2>4, <2>5 DEF Admitted
        <3> QED BY <3>1, Evaluated
    <2>8. \A k \in 1 .. n : \E j \in 1 .. n : s[k] = c[j] /\ t[k] = w[j]
        BY <2>2, <2>3, <2>4, <2>5, <2>6, SortSettled
    <2>9. /\ n \in Nat /\ Examined(in) \in 0 .. n
          /\ \A i \in 1 .. n : c[i] \in AlternateCandidate
        <3>1. c \in Seq(AlternateCandidate)
            BY <2>2 DEF SelectionInput
        <3> QED BY <2>2, <3>1, SortedMembers
    <2>10. Examined(im) = Examined(in)
        BY <2>3, <2>4 DEF Examined, SettlesAll
    <2> HIDE DEF c, n, s, t
    <2>11. ASSUME NEW k \in 1 .. n
           PROVE  /\ t[k].path = s[k].path /\ t[k].authority = s[k].authority
                  /\ Verdict(s[k], in) # "indeterminate" => Verdict(t[k], im) = Verdict(s[k], in)
        <3>1. PICK j \in 1 .. n : s[k] = c[j] /\ t[k] = w[j]
            BY <2>8
        <3>2. Settles(w[j], c[j]) /\ w[j].authority = c[j].authority /\ c[j] \in AlternateCandidate
            BY <2>3, <2>9 DEF SettlesAll, n
        <3>3. Verdict(c[j], in) # "indeterminate" => Verdict(w[j], im) = Verdict(c[j], in)
            BY <2>6, <3>2, VerdictSettled
        <3>4. w[j].path = c[j].path
            BY <3>2 DEF Settles
        <3> QED BY <3>1, <3>2, <3>3, <3>4
    <2>12. PICK k : Chosen(in, k)
        BY <2>1, <2>2, Decided
    <2>13. /\ ~Conflicted(in) /\ k \in 1 .. Examined(in) /\ k \in 1 .. n
           /\ \A i \in 1 .. k - 1 : i \in 1 .. Examined(in) /\ i \in 1 .. n
           /\ Judged(in)[k] = "promotable"
           /\ \A i \in 1 .. k - 1 : /\ Judged(in)[i] # "promotable"
                                    /\ Judged(in)[i] # "indeterminate"
        BY <2>9, <2>12 DEF Chosen
    <2>14. /\ \A i \in 1 .. Examined(in) : Judged(in)[i] = Verdict(s[i], in)
           /\ \A i \in 1 .. Examined(in) : Judged(im)[i] = Verdict(t[i], im)
        BY <2>10 DEF Judged, s, t
    <2>15. ~Conflicted(im)
        <3>1. \A i \in 1 .. Examined(in) : i \in 1 .. n
            BY <2>9
        <3>2. \A i \in 1 .. Examined(in) : Classify(s[i].authority, in.current) # "conflict"
            BY <2>13 DEF Conflicted, s
        <3>3. \A i \in 1 .. Examined(in) : Classify(t[i].authority, im.current) # "conflict"
            BY <2>4, <2>11, <3>1, <3>2
        <3> QED BY <2>10, <3>3 DEF Conflicted, t
    <2>16. Judged(im)[k] = "promotable"
        BY <2>11, <2>13, <2>14
    <2>17. \A i \in 1 .. k - 1 : Judged(im)[i] = Judged(in)[i]
        BY <2>11, <2>13, <2>14
    <2>18. Chosen(im, k)
        BY <2>10, <2>13, <2>15, <2>16, <2>17 DEF Chosen
    <2>19. /\ Decide(in) = [outcome |-> "authorized", selected |-> s[k].path]
           /\ Decide(im) = [outcome |-> "authorized", selected |-> t[k].path]
        BY <2>2, <2>4, <2>5, <2>12, <2>18, Decided DEF s, t
    <2>20. Evaluate(im) = Evaluate(in)
        BY <2>1, <2>7, <2>11, <2>13, <2>19
    <2> QED BY <2>20 DEF im
<1> QED BY <1>1, RequestsTyped, PTL

-----------------------------------------------------------------------------
(* The order in which candidates are supplied. *)

\* The members of a set, in some order.
Reorders(order, n) ==
    /\ order \in [1 .. n -> 1 .. n]
    /\ \A i, j \in 1 .. n : order[i] = order[j] => i = j
    /\ \A j \in 1 .. n : \E i \in 1 .. n : order[i] = j

\* Validation does not look at the order.
LEMMA ValidReordered ==
    ASSUME NEW in \in SelectionInput, NEW im \in SelectionInput, NEW order,
           Reorders(order, Len(in.candidates)), im.generation = in.generation,
           Len(im.candidates) = Len(in.candidates),
           \A i \in 1 .. Len(in.candidates) : im.candidates[i] = in.candidates[order[i]]
    PROVE  ValidSet(im) <=> ValidSet(in)
<1> DEFINE c == in.candidates
           w == im.candidates
           n == Len(c)
<1>1. DOMAIN c = 1 .. n /\ DOMAIN w = 1 .. n
    BY DEF SelectionInput
<1>2. \A i \in 1 .. n : order[i] \in 1 .. n /\ w[i] = c[order[i]]
    BY DEF Reorders
<1>3. \A j \in 1 .. n : \E i \in 1 .. n : order[i] = j
    BY DEF Reorders
<1>4. \A i, j \in 1 .. n : order[i] = order[j] => i = j
    BY DEF Reorders
<1> HIDE DEF c, w, n
<1>5. ASSUME ValidSet(in)
      PROVE  ValidSet(im)
    <2>1. \A i \in 1 .. n : /\ w[i].path # 0 /\ w[i].upstream_rank <= RankScale
                            /\ ValidEvidence(w[i].evidence)
        BY <1>1, <1>2, <1>5 DEF ValidSet, c
    <2>2. \A i, j \in 1 .. n : w[i].path = w[j].path => i = j
        BY <1>1, <1>2, <1>4, <1>5 DEF ValidSet, c
    <2> QED BY <1>1, <1>5, <2>1, <2>2 DEF ValidSet, w
<1>6. ASSUME ValidSet(im)
      PROVE  ValidSet(in)
    <2>1. /\ \A i \in 1 .. n : /\ w[i].path # 0 /\ w[i].upstream_rank <= RankScale
                               /\ ValidEvidence(w[i].evidence)
          /\ \A i, j \in 1 .. n : w[i].path = w[j].path => i = j
          /\ im.generation # 0
        BY <1>1, <1>6 DEF ValidSet, w
    <2>2. \A j \in 1 .. n : \E i \in 1 .. n : c[j] = w[i] /\ order[i] = j
        BY <1>2, <1>3
    <2>3. \A j \in 1 .. n : /\ c[j].path # 0 /\ c[j].upstream_rank <= RankScale
                            /\ ValidEvidence(c[j].evidence)
        BY <2>1, <2>2
    <2>4. \A i, j \in 1 .. n : c[i].path = c[j].path => i = j
        <3> SUFFICES ASSUME NEW i \in 1 .. n, NEW j \in 1 .. n, c[i].path = c[j].path
                     PROVE  i = j
            OBVIOUS
        <3>1. PICK x \in 1 .. n : c[i] = w[x] /\ order[x] = i
            BY <2>2
        <3>2. PICK y \in 1 .. n : c[j] = w[y] /\ order[y] = j
            BY <2>2
        <3> QED BY <2>1, <3>1, <3>2
    <2> QED BY <1>1, <2>1, <2>3, <2>4 DEF ValidSet, c
<1> QED BY <1>5, <1>6

\* A request without its candidates.
Rest(in) ==
    <<in.incumbent, in.current, in.fenced, in.policy, in.obligations, in.completeness,
      in.generation, in.expected>>

\* The sorted list, and the length of the set, are all Decide sees of them.
LEMMA DecideOnSorted ==
    ASSUME NEW in \in SelectionInput, ValidSet(in), NEW im \in SelectionInput, ValidSet(im),
           Rest(im) = Rest(in), Len(im.candidates) = Len(in.candidates),
           Sorted(im) = Sorted(in)
    PROVE  Decide(im) = Decide(in)
<1>1. /\ im.incumbent = in.incumbent /\ im.current = in.current /\ im.fenced = in.fenced
      /\ im.policy = in.policy /\ im.obligations = in.obligations
      /\ im.completeness = in.completeness
    BY DEF Rest
<1>2. Examined(im) = Examined(in)
    BY <1>1 DEF Examined
<1>3. Ranked(im) = Ranked(in)
    BY <1>2 DEF Ranked
<1>4. \A x : Verdict(x, im) = Verdict(x, in)
    BY <1>1, VerdictGates DEF Barred
<1>5. Judged(im) = Judged(in)
    BY <1>2, <1>4 DEF Judged
<1>6. Conflicted(im) <=> Conflicted(in)
    BY <1>1, <1>2 DEF Conflicted
<1>7. /\ Earliest(im, "promotable") = Earliest(in, "promotable")
      /\ Earliest(im, "indeterminate") = Earliest(in, "indeterminate")
    BY <1>2, <1>5 DEF Earliest
<1>8. NothingFound(im, Ranked(im), Judged(im)) = NothingFound(in, Ranked(in), Judged(in))
    BY <1>1, <1>3, <1>5 DEF NothingFound
<1> DEFINE decision(x) ==
             IF Conflicted(x) THEN Refuse("refused_conflict")
             ELSE IF Earliest(x, "promotable") = 0 THEN NothingFound(x, Ranked(x), Judged(x))
             ELSE IF /\ Earliest(x, "indeterminate") \in 1 .. Earliest(x, "promotable")
                     /\ ~x.policy.allow_unknown_skip
             THEN Refuse("indeterminate_unknown_member")
             ELSE [outcome |-> "authorized",
                   selected |-> Ranked(x)[Earliest(x, "promotable")].path]
<1>9. Decide(im) = decision(im) /\ Decide(in) = decision(in)
    BY Scan
<1>10. decision(im) = decision(in)
    BY <1>1, <1>3, <1>6, <1>7, <1>8
<1> QED BY <1>9, <1>10

\* The decision is the same in whatever order the members were supplied, for a
\* set of any size: a set that is refused is refused in every order, and one
\* that is valid has a single canonical order.
THEOREM DecidesRegardlessOfOrder == Spec => []OrderIndependent
<1>1. TypeOK => OrderIndependent
    <2> DEFINE in == request
               c == in.candidates
               n == Len(c)
    <2> SUFFICES ASSUME TypeOK, NEW order \in Bijection(DOMAIN c, DOMAIN c)
                 PROVE  Evaluate(Rearranged(in, order)) = Evaluate(in)
        BY DEF OrderIndependent, Decision
    <2> DEFINE im == Rearranged(in, order)
               w == [i \in 1 .. n |-> c[order[i]]]
    <2>1. in \in SelectionInput /\ c \in Seq(AlternateCandidate) /\ DOMAIN c = 1 .. n /\ n \in Nat
        BY DEF TypeOK, SelectionInput
    <2> HIDE DEF in
    <2>2. Reorders(order, n)
        <3>1. order \in [1 .. n -> 1 .. n]
            BY <2>1 DEF Bijection, Injection
        <3>2. \A i, j \in 1 .. n : order[i] = order[j] => i = j
            BY <2>1, <3>1 DEF Bijection, Injection, IsInjective
        <3>3. \A j \in 1 .. n : \E i \in 1 .. n : order[i] = j
            BY <2>1 DEF Bijection, Surjection
        <3> QED BY <3>1, <3>2, <3>3 DEF Reorders
    <2>3. im = [in EXCEPT !.candidates = w]
        BY <2>1 DEF Rearranged, SelectionInput
    <2> HIDE DEF c, n, im
    <2>4. \A i \in 1 .. n : order[i] \in 1 .. n /\ c[order[i]] \in AlternateCandidate
        <3>1. \A i \in 1 .. n : order[i] \in 1 .. n
            BY <2>2 DEF Reorders
        <3>2. \A i \in 1 .. n : c[i] \in AlternateCandidate
            BY <2>1 DEF n
        <3> QED BY <3>1, <3>2
    <2>5. w \in Seq(AlternateCandidate) /\ Len(w) = n /\ \A i \in 1 .. n : w[i] = c[order[i]]
        <3>1. w \in [1 .. n -> AlternateCandidate]
            BY <2>4
        <3> HIDE DEF w
        <3>2. w \in Seq(AlternateCandidate) /\ Len(w) = n
            BY <2>1, <3>1
        <3> QED BY <3>2 DEF w
    <2> HIDE DEF w
    <2>6. im \in SelectionInput /\ im.candidates = w /\ Rest(im) = Rest(in)
        <3>1. /\ im \in SelectionInput /\ im.candidates = w
              /\ im.incumbent = in.incumbent /\ im.current = in.current
              /\ im.fenced = in.fenced /\ im.policy = in.policy
              /\ im.obligations = in.obligations /\ im.completeness = in.completeness
              /\ im.generation = in.generation /\ im.expected = in.expected
            BY <2>1, <2>3, <2>5 DEF SelectionInput
        <3> QED BY <3>1 DEF Rest
    <2>7. /\ im.incumbent = in.incumbent /\ im.current = in.current
          /\ im.policy = in.policy /\ im.obligations = in.obligations
          /\ im.generation = in.generation /\ im.expected = in.expected
        BY <2>6 DEF Rest
    <2>8. ValidSet(im) <=> ValidSet(in)
        BY <2>1, <2>2, <2>5, <2>6, <2>7, ValidReordered DEF c, n
    <2>9. ASSUME ValidSet(in)
          PROVE  Decide(im) = Decide(in)
        <3> DEFINE s == Sorted(in)
                   t == Sorted(im)
        <3>1. Ranks(in)
            BY <2>1 DEF SelectionInput, Ranks
        <3>2. /\ s \in Seq(AlternateCandidate) /\ Len(s) = n /\ First(s, n) = First(c, n)
              /\ Strict(in, s)
            BY <2>1, <2>9, SortCanonical DEF Strict, c, n
        <3>3. /\ t \in Seq(AlternateCandidate) /\ Len(t) = n /\ First(t, n) = First(w, n)
              /\ Strict(im, t)
            <4>1. /\ t \in Seq(AlternateCandidate) /\ Len(t) = Len(w)
                  /\ First(t, Len(t)) = First(w, Len(t)) /\ Strict(im, t)
                BY <2>6, <2>8, <2>9, SortCanonical DEF Strict
            <4> HIDE DEF t
            <4> QED BY <2>5, <4>1
        <3>4. First(w, n) = First(c, n)
            <4>1. ASSUME NEW x \in First(w, n) PROVE x \in First(c, n)
                <5>1. PICK i \in 1 .. n : x = w[i]
                    BY <4>1 DEF First
                <5> QED BY <2>4, <2>5, <5>1 DEF First
            <4>2. ASSUME NEW x \in First(c, n) PROVE x \in First(w, n)
                <5>1. PICK j \in 1 .. n : x = c[j]
                    BY <4>2 DEF First
                <5>2. PICK i \in 1 .. n : order[i] = j
                    BY <2>2 DEF Reorders
                <5> QED BY <2>5, <5>1, <5>2 DEF First
            <4> QED BY <4>1, <4>2
        <3>5. \A x, y : CanonicalLess(im, x, y) <=> CanonicalLess(in, x, y)
            BY <2>7 DEF CanonicalLess
        <3> HIDE DEF s, t
        <3>6. Strict(in, t)
            BY <3>3, <3>5 DEF Strict
        <3>7. s = t
            BY <3>1, <3>2, <3>3, <3>4, <3>6, SortUnique
        <3> QED BY <2>1, <2>5, <2>6, <2>8, <2>9, <3>7, DecideOnSorted DEF s, t, c, n
    <2>10. Evaluate(im) = Evaluate(in)
        BY <2>7, <2>8, <2>9 DEF Evaluate
    <2> QED BY <2>10 DEF im
<1> QED BY <1>1, RequestsTyped, PTL
==============================================================================
