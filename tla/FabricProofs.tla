---------------------------- MODULE FabricProofs ----------------------------
(***************************************************************************)
(* Theorems about Fabric, for every number of paths, sets, attempts,       *)
(* restarts and every table size.                                          *)
(***************************************************************************)
EXTENDS Fabric, FiniteSetTheorems, WellFoundedInduction, TLAPS

-----------------------------------------------------------------------------
(* Arithmetic and finite sets. *)

\* A nonempty set of naturals below a bound has a greatest member.
LEMMA BoundedMax ==
    ASSUME NEW N \in Nat, NEW S \in SUBSET (0 .. N), S # {}
    PROVE  Max(S) \in S /\ \A y \in S : Max(S) >= y
<1> DEFINE D == {N - x : x \in S}
           R == {ss \in Nat \X Nat : ss[1] < ss[2]}
<1>1. D \subseteq Nat /\ D # {}
    <2>1. PICK x \in S : TRUE
        OBVIOUS
    <2>2. N - x \in D
        BY <2>1
    <2>3. \A y \in S : N - y \in Nat
        OBVIOUS
    <2> QED BY <2>2, <2>3
<1>2. IsWellFoundedOn(R, Nat)
    BY NatLessThanWellFounded DEF OpToRel
<1>3. PICK d \in D : \A e \in D : ~(<<e, d>> \in R)
    <2> HIDE DEF D, R
    <2> QED BY <1>1, <1>2, WFMin
<1>4. PICK x \in S : d = N - x
    BY <1>3
<1>5. \A y \in S : x >= y
    <2> TAKE y \in S
    <2>1. N - y \in D /\ N - y \in Nat /\ d \in Nat
        BY <1>1
    <2>2. ~(N - y < d)
        BY <2>1, <1>3
    <2> QED BY <2>1, <2>2, <1>4
<1> QED BY <1>5 DEF Max

LEMMA MaxAttemptNat == MaxAttempt \in Nat /\ AttemptIds \subseteq Nat
BY ConstantsAssumption DEF AttemptIds

LEMMA AttemptIdsFinite ==
    ASSUME NEW ids \in SUBSET AttemptIds
    PROVE  IsFiniteSet(ids) /\ Cardinality(ids) \in Nat
<1>1. IsFiniteSet(AttemptIds)
    BY MaxAttemptNat, FS_Interval DEF AttemptIds
<1>2. IsFiniteSet(ids)
    BY <1>1, FS_Subset
<1> QED BY <1>2, FS_CardinalityType

\* The greatest of a counter and some attempt identities is a counter.
LEMMA SequenceMax ==
    ASSUME NEW q \in Nat, NEW ids \in SUBSET AttemptIds
    PROVE  Max({q} \cup ids) \in Nat /\ Max({q} \cup ids) >= q
<1> DEFINE N == q + MaxAttempt
           S == {q} \cup ids
<1>1. N \in Nat /\ S \in SUBSET (0 .. N) /\ S # {}
    BY MaxAttemptNat DEF AttemptIds
<1>2. S \subseteq Nat
    BY MaxAttemptNat
<1>3. Max(S) \in S /\ \A y \in S : Max(S) >= y
    <2> HIDE DEF N, S
    <2> QED BY <1>1, BoundedMax
<1>4. q \in S
    OBVIOUS
<1> QED BY <1>2, <1>3, <1>4

\* A nonempty set of naturals has a least member.
LEMMA Smallest ==
    ASSUME NEW B \in SUBSET Nat, B # {}
    PROVE  \E n \in B : \A m \in B : n <= m
<1> DEFINE R == {ss \in Nat \X Nat : ss[1] < ss[2]}
<1>1. IsWellFoundedOn(R, Nat)
    BY NatLessThanWellFounded DEF OpToRel
<1>2. PICK n \in B : \A m \in B : ~(<<m, n>> \in R)
    <2> HIDE DEF R
    <2> QED BY <1>1, WFMin
<1>3. ASSUME NEW m \in B
      PROVE  n <= m
    <2>1. m \in Nat /\ n \in Nat
        BY <1>2
    <2>2. ~(m < n)
        BY <1>2, <2>1
    <2> QED BY <2>1, <2>2
<1> QED BY <1>3

\* A function from the attempts to the naturals has a greatest value.
LEMMA LatestArrival ==
    ASSUME NEW a \in [AttemptIds -> Nat], AttemptIds # {}
    PROVE  /\ Max({a[j] : j \in AttemptIds}) \in Nat
           /\ \A j \in AttemptIds : Max({a[k] : k \in AttemptIds}) >= a[j]
<1> DEFINE Bounds(n, b) == \A j \in AttemptIds : j <= n => a[j] <= b
           B == {n \in 0 .. MaxAttempt : ~ \E b \in Nat : Bounds(n, b)}
           S == {a[j] : j \in AttemptIds}
<1>1. B = {}
    <2> SUFFICES ASSUME B # {} PROVE FALSE
        OBVIOUS
    <2>1. B \in SUBSET Nat
        BY MaxAttemptNat
    <2>2. PICK n \in B : \A m \in B : n <= m
        <3> HIDE DEF B
        <3> QED BY <2>1, Smallest
    <2>3. n # 0
        <3>1. Bounds(0, 0)
            BY MaxAttemptNat DEF AttemptIds
        <3> QED BY <3>1
    <2>4. n \in AttemptIds /\ n - 1 \in 0 .. MaxAttempt /\ n - 1 \notin B
        <3>1. n \in 0 .. MaxAttempt
            OBVIOUS
        <3>2. n \in Nat /\ n - 1 \in 0 .. MaxAttempt /\ n \in AttemptIds /\ ~(n <= n - 1)
            BY <2>3, <3>1, MaxAttemptNat DEF AttemptIds
        <3> HIDE DEF B
        <3> QED BY <2>2, <3>2
    <2>5. PICK b \in Nat : Bounds(n - 1, b)
        BY <2>4
    <2>6. a[n] \in Nat
        BY <2>4
    <2>7. b + a[n] \in Nat /\ Bounds(n, b + a[n])
        <3> SUFFICES ASSUME NEW j \in AttemptIds, j <= n PROVE a[j] <= b + a[n]
            BY <2>6
        <3>1. j \in Nat /\ n \in Nat /\ a[j] \in Nat
            BY <2>1, MaxAttemptNat
        <3>2. CASE j = n
            BY <2>6, <3>2
        <3>3. CASE j # n
            <4>1. j <= n - 1
                BY <3>1, <3>3
            <4> QED BY <2>5, <2>6, <3>1, <4>1
        <3> QED BY <3>2, <3>3
    <2> QED BY <2>7
<1>2. PICK b \in Nat : Bounds(MaxAttempt, b)
    <2>1. MaxAttempt \in 0 .. MaxAttempt
        BY MaxAttemptNat
    <2>2. MaxAttempt \notin B
        BY <1>1
    <2> HIDE DEF Bounds
    <2> QED BY <2>1, <2>2
<1>3. S \in SUBSET (0 .. b) /\ S # {}
    BY <1>2 DEF AttemptIds
<1>4. Max(S) \in S /\ \A y \in S : Max(S) >= y
    <2> HIDE DEF S
    <2> QED BY <1>3, BoundedMax
<1> QED BY <1>3, <1>4

-----------------------------------------------------------------------------
(* The operators keep the types. *)

LEMMA ArrivalsType ==
    ASSUME TypeOK, NEW attempts
    PROVE  Arrivals(attempts) \in [AttemptIds -> Nat]
<1> SUFFICES ASSUME NEW i \in AttemptIds PROVE Arrivals(attempts)[i] \in Nat
    BY DEF Arrivals
<1>1. arrival \in [AttemptIds -> Nat]
    BY DEF TypeOK
<1>2. Max({arrival[j] : j \in AttemptIds}) \in Nat
    BY <1>1, LatestArrival
<1> QED BY <1>1, <1>2 DEF Arrivals

LEMMA EmptyTypes ==
    /\ NoAttempt \in Attempt
    /\ EmptyState \in DurableState
    /\ EmptyMemory \in Memory
<1>1. NoAuthority \in AuthorityVector
    BY DEF NoAuthority, AuthorityVector
<1>2. NoAttempt \in Attempt
    BY <1>1 DEF NoAttempt, Attempt
<1>3. <<>> \in Seq(LineageEntry)
    OBVIOUS
<1>4. EmptyState \in DurableState
    BY <1>1, <1>2, <1>3 DEF EmptyState, DurableState, Policy, AlternateSet
<1>5. EmptyMemory \in Memory
    BY DEF EmptyMemory, Memory
<1> QED BY <1>2, <1>4, <1>5

LEMMA Fields ==
    ASSUME NEW s \in DurableState
    PROVE  /\ s.authority \in AuthorityVector
           /\ s.policy \in Policy
           /\ s.obligations \in Nat
           /\ s.sets \in [SetIds -> AlternateSet]
           /\ s.fences \in SUBSET Fence
           /\ s.attempts \in [AttemptIds -> Attempt]
           /\ s.lineage \in Seq(LineageEntry)
           /\ s.attempt_sequence \in Nat
           /\ s.fence_sequence \in Nat
           /\ s.decision_sequence \in Nat
BY DEF DurableState

LEMMA VectorFields ==
    ASSUME NEW a \in AuthorityVector
    PROVE  /\ a.topology \in Nat /\ a.path_authority \in Nat /\ a.policy \in Nat
           /\ a.obligations \in Nat /\ a.epoch \in Nat /\ a.boot \in Nat
BY DEF AuthorityVector

LEMMA VectorUpdates ==
    ASSUME NEW a \in AuthorityVector, NEW g \in Nat, NEW h \in Nat
    PROVE  /\ [a EXCEPT !.policy = g] \in AuthorityVector
           /\ [a EXCEPT !.obligations = g] \in AuthorityVector
           /\ [a EXCEPT !.topology = g, !.path_authority = h] \in AuthorityVector
           /\ [a EXCEPT !.epoch = g, !.boot = g] \in AuthorityVector
BY DEF AuthorityVector

\* The bounds on what callers supply are naturals.
LEMMA InputsNat ==
    /\ 1 .. MaxPolicy \subseteq Nat
    /\ 0 .. MaxBudget \subseteq Nat
    /\ 1 .. MaxObligations \subseteq Nat
    /\ 1 .. MaxSetGeneration \subseteq Nat
    /\ 1 .. MaxObservation \subseteq Nat
    /\ 0 .. MaxTopology \subseteq Nat
    /\ 0 .. MaxPathAuthority \subseteq Nat
BY ConstantsAssumption

\* Installing a vector keeps the type.
LEMMA InstallVector ==
    ASSUME NEW s \in DurableState, NEW a \in AuthorityVector
    PROVE  [s EXCEPT !.authority = a] \in DurableState
BY DEF DurableState

LEMMA StoppedType ==
    ASSUME NEW attempts \in [AttemptIds -> Attempt], NEW ids \in SUBSET AttemptIds,
           NEW how \in {"fenced", "interrupted"}
    PROVE  Stopped(attempts, ids, how) \in [AttemptIds -> Attempt]
BY DEF Stopped, Attempt, TerminalState

LEMMA AttemptFencesType ==
    ASSUME NEW s \in DurableState, NEW ids \in SUBSET AttemptIds
    PROVE  AttemptFences(s, ids) \subseteq Fence
<1> SUFFICES ASSUME NEW i \in ids
             PROVE  [id |-> s.fence_sequence + Cardinality({j \in ids : j <= i}),
                     epoch |-> s.authority.epoch, attempt |-> i, path |-> NoPath] \in Fence
    BY DEF AttemptFences
<1>1. Cardinality({j \in ids : j <= i}) \in Nat
    <2>1. {j \in ids : j <= i} \in SUBSET AttemptIds
        OBVIOUS
    <2> QED BY <2>1, AttemptIdsFinite
<1>2. s.fence_sequence \in Nat /\ s.authority.epoch \in Nat /\ i \in Nat
    BY MaxAttemptNat DEF DurableState, AuthorityVector
<1> QED BY <1>1, <1>2 DEF Fence

LEMMA StopType ==
    ASSUME NEW s \in DurableState, NEW ids \in SUBSET AttemptIds,
           NEW fenced \in SUBSET AttemptIds, NEW how \in {"fenced", "interrupted"}
    PROVE  Stop(s, ids, fenced, how) \in DurableState
<1>1. Stopped(s.attempts, ids, how) \in [AttemptIds -> Attempt]
    BY StoppedType DEF DurableState
<1>2. Max({s.attempt_sequence} \cup ids) \in Nat
    BY SequenceMax DEF DurableState
<1>3. s.fences \cup AttemptFences(s, fenced) \in SUBSET Fence
    BY AttemptFencesType DEF DurableState
<1>4. s.fence_sequence + Cardinality(fenced) \in Nat
    BY AttemptIdsFinite DEF DurableState
<1> QED BY <1>1, <1>2, <1>3, <1>4 DEF Stop, DurableState

LEMMA LogStopType ==
    ASSUME NEW s \in DurableState, NEW d \in DurableState,
           NEW ids \in SUBSET AttemptIds, NEW fenced \in SUBSET AttemptIds,
           NEW how \in {"fenced", "interrupted"}
    PROVE  LogStop(d, s, ids, fenced, how) \in DurableState
<1> DEFINE a == Stopped(s.attempts, ids, how)
           e == LogAttempts(d, a, ids)
<1>1. a \in [AttemptIds -> Attempt]
    BY StoppedType DEF DurableState
<1>2. e \in DurableState
    <2> HIDE DEF a
    <2> QED BY <1>1 DEF LogAttempts, DurableState
<1>3. LogFences(e, AttemptFences(s, fenced)) \in DurableState
    <2> HIDE DEF e
    <2> QED BY <1>2, AttemptFencesType DEF LogFences, DurableState
<1> QED BY <1>3 DEF LogStop

LEMMA RememberedType ==
    ASSUME NEW lineage \in Seq(LineageEntry), NEW entry \in LineageEntry
    PROVE  Remembered(lineage, entry) \in Seq(LineageEntry)
<1>1. CASE Len(lineage) >= MaxLineage
    <2>1. lineage # <<>>
        BY <1>1, ConstantsAssumption
    <2> QED BY <1>1, <2>1 DEF Remembered
<1>2. CASE ~(Len(lineage) >= MaxLineage)
    BY <1>2 DEF Remembered
<1> QED BY <1>1, <1>2

LEMMA RememberType ==
    ASSUME NEW s \in DurableState, NEW entry \in LineageEntry
    PROVE  /\ Remember(s, entry) \in DurableState
           /\ LogLineage(s, entry) \in DurableState
<1>1. Remembered(s.lineage, entry) \in Seq(LineageEntry)
    BY RememberedType DEF DurableState
<1> QED BY <1>1 DEF Remember, LogLineage, DurableState

LEMMA LogAttemptType ==
    ASSUME NEW d \in DurableState, NEW id \in AttemptIds, NEW record \in Attempt
    PROVE  LogAttempt(d, id, record) \in DurableState
BY EmptyTypes DEF LogAttempt, DurableState

LEMMA KeepType ==
    ASSUME NEW s \in DurableState, NEW id \in AttemptIds, NEW record \in Attempt
    PROVE  Keep(s, id, record) \in DurableState
<1>1. WithRoom(s.attempts, id) \in [AttemptIds -> Attempt]
    BY EmptyTypes DEF WithRoom, DurableState
<1>2. Larger(s.attempt_sequence, id) \in Nat
    BY MaxAttemptNat DEF Larger, DurableState
<1> QED BY <1>1, <1>2 DEF Keep, DurableState

LEMMA LogEpochType ==
    ASSUME NEW d \in DurableState, NEW s \in DurableState
    PROVE  LogEpoch(d, s) \in DurableState
BY DEF LogEpoch, Larger, DurableState

LEMMA EntryType ==
    ASSUME NEW s \in DurableState, NEW decision \in Nat, NEW id \in Nat,
           NEW outcome \in Outcome, NEW selected \in Paths \cup {NoPath}
    PROVE  Entry(s, decision, id, outcome, selected) \in LineageEntry
BY DEF Entry, LineageEntry, DurableState, AuthorityVector

-----------------------------------------------------------------------------
(* Type correctness. *)

\* However a handler ends, states of the right type make a next state of the
\* right type.
LEMMA EndsTyped ==
    ASSUME TypeOK, NEW s \in DurableState, NEW d \in DurableState, NEW m \in Memory,
           NEW compacts \in BOOLEAN
    PROVE  /\ Answer(s, d, m) => TypeOK'
           /\ Finish(s, d, m, compacts) => TypeOK'
           /\ Die(d) => TypeOK'
<1>1. Answer(s, d, m) => TypeOK'
    BY ArrivalsType DEF Answer, TypeOK
<1>2. Compact(s, m) => TypeOK'
    BY MaxAttemptNat DEF Compact, TypeOK
<1>3. Die(d) => TypeOK'
    BY ArrivalsType, EmptyTypes DEF Die, TypeOK
<1> QED BY <1>1, <1>2, <1>3 DEF Finish

LEMMA ProgressType ==
    ASSUME NEW ids \in SUBSET AttemptIds, NEW p \in Progress(ids)
    PROVE  p[1] \in SUBSET ids /\ p[2] \in SUBSET ids
BY DEF Progress, Prefixes

LEMMA ActiveIdsType ==
    ASSUME NEW attempts
    PROVE  ActiveIds(attempts) \in SUBSET AttemptIds
BY DEF ActiveIds

LEMMA FenceAttemptsTyped ==
    ASSUME TypeOK, NEW s \in DurableState, NEW d \in DurableState,
           NEW compacts \in BOOLEAN, FenceAttempts(s, d, compacts)
    PROVE  TypeOK'
<1> DEFINE ids == ActiveIds(s.attempts)
           released == IF ids = {} THEN mem
                       ELSE [mem EXCEPT !.active = 0, !.grants = @ \ ids]
<1>1. ids \in SUBSET AttemptIds
    BY ActiveIdsType
<1>2. mem \in Memory /\ released \in Memory
    BY DEF TypeOK, Memory
<1>3. \A A \in SUBSET ids, F \in SUBSET ids :
        /\ Stop(s, A, F, "fenced") \in DurableState
        /\ LogStop(d, s, A, F, "fenced") \in DurableState
    BY <1>1, StopType, LogStopType
<1>4. CASE Finish(Stop(s, ids, ids, "fenced"), LogStop(d, s, ids, ids, "fenced"),
                  released, compacts)
    <2> HIDE DEF released, ids
    <2>1. ids \in SUBSET ids
        OBVIOUS
    <2> QED BY <1>2, <1>3, <1>4, <2>1, EndsTyped
<1>5. CASE \E p \in Progress(ids), written \in SUBSET ids :
               Answer(Stop(s, p[1], p[2], "fenced"), LogStop(d, s, written, p[2], "fenced"), mem)
    <2> HIDE DEF ids
    <2>1. PICK p \in Progress(ids), written \in SUBSET ids :
               Answer(Stop(s, p[1], p[2], "fenced"), LogStop(d, s, written, p[2], "fenced"), mem)
        BY <1>5
    <2> QED BY <1>1, <1>2, <1>3, <2>1, ProgressType, EndsTyped
<1>6. CASE \E p \in Progress(ids) : Die(LogStop(d, s, p[1], p[2], "fenced"))
    <2> HIDE DEF ids
    <2> QED BY <1>1, <1>2, <1>3, <1>6, ProgressType, EndsTyped
<1>7. \/ Finish(Stop(s, ids, ids, "fenced"), LogStop(d, s, ids, ids, "fenced"), released, compacts)
      \/ \E p \in Progress(ids) :
            Answer(Stop(s, p[1], p[2], "fenced"), LogStop(d, s, p[1], p[2], "fenced"), mem)
      \/ \E p \in Progress(ids) : Die(LogStop(d, s, p[1], p[2], "fenced"))
      \/ \E p \in Progress(ids), written \in Prefixes(ids) :
            Answer(Stop(s, p[1], p[2], "fenced"), LogStop(d, s, written, p[2], "fenced"), mem)
    BY DEF FenceAttempts
<1>8. /\ \A p \in Progress(ids) : p[1] \in SUBSET ids
      /\ Prefixes(ids) \subseteq SUBSET ids
    BY <1>1, ProgressType DEF Prefixes
<1> HIDE DEF ids, released
<1> QED BY <1>4, <1>5, <1>6, <1>7, <1>8

LEMMA OpenTyped ==
    ASSUME TypeOK, Open
    PROVE  TypeOK'
<1> DEFINE epoch == disk.authority.epoch + 1
           s == [disk EXCEPT !.authority.epoch = epoch, !.authority.boot = epoch]
           d == LogEpoch(disk, s)
           ids == ActiveIds(s.attempts)
<1>1. s \in DurableState
    <2> DEFINE a == [disk.authority EXCEPT !.epoch = epoch, !.boot = epoch]
    <2>1. disk \in DurableState
        BY DEF TypeOK
    <2>2. a \in AuthorityVector
        <3>1. disk.authority \in AuthorityVector /\ epoch \in Nat
            BY <2>1, Fields, VectorFields
        <3> HIDE DEF epoch
        <3> QED BY <3>1, VectorUpdates
    <2>3. s = [disk EXCEPT !.authority = a]
        OBVIOUS
    <2> QED BY <2>1, <2>2, <2>3, InstallVector
<1>2. d \in DurableState
    <2> HIDE DEF s
    <2> QED BY <1>1, LogEpochType DEF TypeOK
<1>3. ids \in SUBSET AttemptIds
    BY ActiveIdsType
<1>4. \/ Finish(Stop(s, ids, ids, "interrupted"), LogStop(d, s, ids, ids, "interrupted"),
                EmptyMemory, TRUE)
      \/ \E p \in Progress(ids) : Die(LogStop(d, s, p[1], p[2], "interrupted"))
    BY DEF Open
<1> HIDE DEF s, d, ids
<1>5. \A A \in SUBSET ids, F \in SUBSET ids :
        /\ Stop(s, A, F, "interrupted") \in DurableState
        /\ LogStop(d, s, A, F, "interrupted") \in DurableState
    BY <1>1, <1>2, <1>3, StopType, LogStopType
<1>6. ids \in SUBSET ids
    OBVIOUS
<1>7. CASE Finish(Stop(s, ids, ids, "interrupted"), LogStop(d, s, ids, ids, "interrupted"),
                  EmptyMemory, TRUE)
    BY <1>5, <1>6, <1>7, EmptyTypes, EndsTyped
<1>8. CASE \E p \in Progress(ids) : Die(LogStop(d, s, p[1], p[2], "interrupted"))
    BY <1>3, <1>5, <1>8, ProgressType, EmptyTypes, EndsTyped
<1> QED BY <1>4, <1>7, <1>8

LEMMA IngestTyped ==
    ASSUME TypeOK
    PROVE  /\ \A g \in 1 .. MaxPolicy, b \in 0 .. MaxBudget :
                ApplyPolicy([generation |-> g, max_revalidations |-> b]) => TypeOK'
           /\ \A g \in 1 .. MaxObligations : ApplyObligations(g) => TypeOK'
           /\ \A id \in SetIds, g \in 1 .. MaxSetGeneration, ps \in SUBSET Paths :
                ApplyAlternateSet(id, [generation |-> g, members |-> ps,
                                       declared |-> state.authority]) => TypeOK'
           /\ \A p \in Paths, q \in 1 .. MaxObservation : ApplyEvidence(p, q) => TypeOK'
           /\ \A top \in 0 .. MaxTopology, a \in 0 .. MaxPathAuthority :
                SetAuthority(top, a) => TypeOK'
<1>t. state \in DurableState /\ disk \in DurableState /\ mem \in Memory
    BY DEF TypeOK
<1>1. ASSUME NEW g \in 1 .. MaxPolicy, NEW b \in 0 .. MaxBudget,
             ApplyPolicy([generation |-> g, max_revalidations |-> b])
      PROVE  TypeOK'
    <2> DEFINE pol == [generation |-> g, max_revalidations |-> b]
               s == [state EXCEPT !.policy = pol, !.authority.policy = pol.generation]
    <2>1. ASSUME NEW x \in DurableState
          PROVE  [x EXCEPT !.policy = pol, !.authority.policy = pol.generation] \in DurableState
        <3> DEFINE a == [x.authority EXCEPT !.policy = g]
        <3>1. a \in AuthorityVector
            BY Fields, InputsNat, VectorUpdates
        <3>2. pol \in Policy
            BY InputsNat DEF Policy
        <3>3. [x EXCEPT !.policy = pol, !.authority.policy = pol.generation]
                = [x EXCEPT !.policy = pol, !.authority = a]
            OBVIOUS
        <3> HIDE DEF a, pol
        <3> QED BY <3>1, <3>2, <3>3 DEF DurableState
    <2>3. s \in DurableState /\ LogPolicy(disk, pol) \in DurableState
        BY <1>t, <2>1 DEF LogPolicy
    <2>2. FenceAttempts(s, LogPolicy(disk, pol), TRUE)
        BY <1>1 DEF ApplyPolicy
    <2> HIDE DEF s, pol
    <2> QED BY <2>2, <2>3, FenceAttemptsTyped
<1>2. ASSUME NEW g \in 1 .. MaxObligations, ApplyObligations(g)
      PROVE  TypeOK'
    <2> DEFINE s == [state EXCEPT !.obligations = g, !.authority.obligations = g]
    <2>1. ASSUME NEW x \in DurableState
          PROVE  [x EXCEPT !.obligations = g, !.authority.obligations = g] \in DurableState
        <3> DEFINE a == [x.authority EXCEPT !.obligations = g]
        <3>1. a \in AuthorityVector
            BY Fields, InputsNat, VectorUpdates
        <3>2. [x EXCEPT !.obligations = g, !.authority.obligations = g]
                = [x EXCEPT !.obligations = g, !.authority = a]
            OBVIOUS
        <3> HIDE DEF a
        <3> QED BY <3>1, <3>2, InputsNat DEF DurableState
    <2>3. s \in DurableState /\ LogObligations(disk, g) \in DurableState
        BY <1>t, <2>1 DEF LogObligations
    <2>2. FenceAttempts(s, LogObligations(disk, g), TRUE)
        BY <1>2 DEF ApplyObligations
    <2> HIDE DEF s
    <2> QED BY <2>2, <2>3, FenceAttemptsTyped
<1>3. ASSUME NEW id \in SetIds, NEW g \in 1 .. MaxSetGeneration, NEW ps \in SUBSET Paths,
             ApplyAlternateSet(id, [generation |-> g, members |-> ps,
                                    declared |-> state.authority])
      PROVE  TypeOK'
    <2> DEFINE set == [generation |-> g, members |-> ps, declared |-> state.authority]
               s == [state EXCEPT !.sets[id] = set]
    <2>1. set \in AlternateSet
        BY <1>t, Fields, InputsNat DEF AlternateSet
    <2>2. s \in DurableState /\ LogSet(disk, id, set) \in DurableState
        <3> HIDE DEF set
        <3> QED BY <1>t, <2>1 DEF DurableState, LogSet
    <2>3. Finish(s, LogSet(disk, id, set), mem, TRUE)
        BY <1>3 DEF ApplyAlternateSet
    <2> HIDE DEF s, set
    <2> QED BY <1>t, <2>2, <2>3, EndsTyped
<1>4. ASSUME NEW p \in Paths, NEW q \in 1 .. MaxObservation, ApplyEvidence(p, q)
      PROVE  TypeOK'
    <2> DEFINE m == [mem EXCEPT !.evidence[p] = q]
    <2>1. m \in Memory
        BY <1>t, InputsNat DEF Memory
    <2>2. Answer(state, disk, m)
        BY <1>4 DEF ApplyEvidence
    <2> HIDE DEF m
    <2> QED BY <1>t, <2>1, <2>2, EndsTyped
<1>5. ASSUME NEW top \in 0 .. MaxTopology, NEW a \in 0 .. MaxPathAuthority,
             SetAuthority(top, a)
      PROVE  TypeOK'
    <2> DEFINE s == [state EXCEPT !.authority.topology = top,
                                  !.authority.path_authority = a]
    <2>1. s \in DurableState
        <3> DEFINE v == [state.authority EXCEPT !.topology = top, !.path_authority = a]
        <3>1. v \in AuthorityVector
            BY <1>t, Fields, InputsNat, VectorUpdates
        <3>2. s = [state EXCEPT !.authority = v]
            OBVIOUS
        <3> HIDE DEF v
        <3> QED BY <1>t, <3>1, <3>2, InstallVector
    <2>2. FenceAttempts(s, LogEpoch(disk, s), TRUE) \/ Answer(s, disk, mem)
        BY <1>5 DEF SetAuthority
    <2> HIDE DEF s
    <2>3. LogEpoch(disk, s) \in DurableState
        BY <1>t, <2>1, LogEpochType
    <2> QED BY <1>t, <2>1, <2>2, <2>3, FenceAttemptsTyped, EndsTyped
<1> QED BY <1>1, <1>2, <1>3, <1>4, <1>5

LEMMA FencingTyped ==
    ASSUME TypeOK
    PROVE  /\ \A path \in Paths : FencePath(path) => TypeOK'
           /\ FenceAll => TypeOK'
           /\ Crash => TypeOK'
           /\ Evaluate => TypeOK'
<1>t. state \in DurableState /\ disk \in DurableState /\ mem \in Memory
    BY DEF TypeOK
<1>1. ASSUME NEW path \in Paths, FencePath(path)
      PROVE  TypeOK'
    <2> DEFINE fence == [id |-> state.fence_sequence + 1, epoch |-> state.authority.epoch,
                         attempt |-> 0, path |-> path]
               s == [state EXCEPT !.fences = @ \cup {fence}, !.fence_sequence = @ + 1]
               d == LogFences(disk, {fence})
               ids == {i \in ActiveIds(s.attempts) : s.attempts[i].selected = path}
               Freed(done) ==
                 [mem EXCEPT !.grants = @ \ done, !.active = IF @ \in done THEN 0 ELSE @]
    <2>1. fence \in Fence
        BY <1>t, Fields, VectorFields DEF Fence
    <2>2. s \in DurableState /\ d \in DurableState
        <3> HIDE DEF fence
        <3>1. state.fences \cup {fence} \in SUBSET Fence /\ disk.fences \cup {fence} \in SUBSET Fence
            BY <1>t, <2>1, Fields
        <3>2. state.fence_sequence + 1 \in Nat
            BY <1>t, Fields
        <3> QED BY <1>t, <3>1, <3>2 DEF DurableState, LogFences
    <2>3. ids \in SUBSET AttemptIds
        BY ActiveIdsType
    <2>4. \A done : Freed(done) \in Memory
        BY <1>t DEF Memory
    <2>5. \/ Finish(Stop(s, ids, {}, "fenced"), LogStop(d, s, ids, {}, "fenced"),
                    Freed(ids), TRUE)
          \/ \E done \in Prefixes(ids) : Die(LogStop(d, s, done, {}, "fenced"))
          \/ \E p \in Progress(ids) :
                Answer(Stop(s, p[1], {}, "fenced"), LogStop(d, s, p[2], {}, "fenced"),
                       Freed(p[2]))
        BY <1>1 DEF FencePath
    <2> HIDE DEF s, d, ids, Freed
    <2>6. \A A \in SUBSET ids :
            /\ Stop(s, A, {}, "fenced") \in DurableState
            /\ LogStop(d, s, A, {}, "fenced") \in DurableState
        BY <2>2, <2>3, StopType, LogStopType
    <2>7. ids \in SUBSET ids /\ Prefixes(ids) \subseteq SUBSET ids
        BY DEF Prefixes
    <2>8. \A p \in Progress(ids) : p[1] \in SUBSET ids /\ p[2] \in SUBSET ids
        BY <2>3, ProgressType
    <2> QED BY <1>t, <2>4, <2>5, <2>6, <2>7, <2>8, EndsTyped
<1>2. FenceAll => TypeOK'
    BY <1>t, FenceAttemptsTyped DEF FenceAll
<1>3. Crash => TypeOK'
    BY <1>t, EndsTyped DEF Crash
<1>4. Evaluate => TypeOK'
    <2> DEFINE s == [state EXCEPT !.decision_sequence = @ + 1]
    <2>1. s \in DurableState
        BY SMTT(30), <1>t DEF DurableState
    <2>2. Evaluate => Answer(s, disk, mem)
        BY DEF Evaluate
    <2> HIDE DEF s
    <2> QED BY <1>t, <2>1, <2>2, EndsTyped
<1> QED BY <1>1, <1>2, <1>3, <1>4

LEMMA BeginTyped ==
    ASSUME TypeOK, NEW s \in DurableState, NEW m \in Memory, disk \in DurableState,
           NEW id \in AttemptIds, NEW incumbent \in Paths,
           NEW path \in Paths \cup {NoPath}, Begin(s, m, id, incumbent, path)
    PROVE  TypeOK'
<1> DEFINE Record(st) ==
               [incumbent |-> incumbent, selected |-> path, basis |-> s.authority,
                state |-> st, revalidations |-> 0]
           Numbered(r) == [Keep(s, id, r) EXCEPT !.attempt_sequence = @ + 1]
           claimed == Record("claimed")
           d1 == LogAttempt(disk, id, claimed)
           final == IF path = NoPath THEN Record("refused") ELSE Record("authorized")
           d2 == LogAttempt(d1, id, final)
           entry == Entry(s, s.decision_sequence, id, "refused", NoPath)
           granted == [m EXCEPT !.active = id, !.grants = @ \cup {id}]
           full == [s EXCEPT !.attempt_sequence = Larger(@, id)]
<1>1. claimed \in Attempt /\ final \in Attempt
    BY Fields DEF Attempt, ActiveState, TerminalState
<1>2. ASSUME NEW r \in Attempt
      PROVE  Numbered(r) \in DurableState
    <2> DEFINE k == Keep(s, id, r)
    <2>1. k \in DurableState
        BY KeepType
    <2>2. k.attempt_sequence + 1 \in Nat
        <3> HIDE DEF k
        <3> QED BY <2>1, Fields
    <2> HIDE DEF k
    <2>3. [k EXCEPT !.attempt_sequence = @ + 1] \in DurableState
        BY <2>1, <2>2 DEF DurableState
    <2> QED BY <2>3 DEF k
<1>3. d1 \in DurableState /\ d2 \in DurableState
    <2> HIDE DEF claimed, final
    <2> QED BY <1>1, LogAttemptType
<1>4. entry \in LineageEntry
    <2>1. s.decision_sequence \in Nat /\ id \in Nat
        BY Fields, MaxAttemptNat
    <2> QED BY <2>1, EntryType DEF Outcome
<1>5. granted \in Memory
    BY MaxAttemptNat DEF Memory
<1>6. full \in DurableState
    BY MaxAttemptNat DEF DurableState, Larger
<1>7. \/ Answer(s, disk, m)
      \/ Answer(full, d1, m)
      \/ Die(d1)
      \/ Answer(Numbered(claimed), d1, m)
      \/ Finish(Numbered(final), d2, granted, TRUE)
      \/ Finish(Remember(Numbered(final), entry), LogLineage(d2, entry), m, TRUE)
      \/ Die(d2)
      \/ Answer(Numbered(final), d2, m)
    BY DEF Begin
<1> HIDE DEF Numbered, claimed, d1, final, d2, entry, granted, full
<1>8. Numbered(claimed) \in DurableState /\ Numbered(final) \in DurableState
    BY <1>1, <1>2
<1>9. Remember(Numbered(final), entry) \in DurableState /\ LogLineage(d2, entry) \in DurableState
    BY <1>3, <1>4, <1>8, RememberType
<1> QED BY <1>3, <1>5, <1>6, <1>7, <1>8, <1>9, EndsTyped

LEMMA BeginPromotionTyped ==
    ASSUME TypeOK, NEW incumbent \in Paths, NEW set \in SetIds,
           BeginPromotion(incumbent, set)
    PROVE  TypeOK'
<1> DEFINE s == [state EXCEPT !.decision_sequence = @ + 1]
           m == [mem EXCEPT !.active = 0]
           id == state.attempt_sequence + 1
<1>t. state \in DurableState /\ disk \in DurableState /\ mem \in Memory
    BY DEF TypeOK
<1>1. s \in DurableState
    <2>1. state.decision_sequence + 1 \in Nat
        BY <1>t, Fields
    <2> QED BY <1>t, <2>1 DEF DurableState
<1>2. m \in Memory
    BY <1>t DEF Memory
<1>3. state.attempt_sequence < MaxAttempt
    BY DEF BeginPromotion
<1>4. id \in AttemptIds
    BY <1>t, <1>3, Fields, MaxAttemptNat DEF AttemptIds
<1>5. \/ Answer(s, disk, m)
      \/ \E path \in Promotable(s, set, incumbent) \cup {NoPath} :
            Begin(s, m, id, incumbent, path)
    BY DEF BeginPromotion
<1> HIDE DEF s, m, id
<1>6. Promotable(s, set, incumbent) \subseteq Paths
    <2>1. s.sets[set].members \subseteq Paths
        BY <1>1, Fields DEF AlternateSet
    <2> QED BY <2>1 DEF Promotable
<1>7. CASE Answer(s, disk, m)
    BY <1>t, <1>1, <1>2, <1>7, EndsTyped
<1>8. CASE \E path \in Promotable(s, set, incumbent) \cup {NoPath} :
              Begin(s, m, id, incumbent, path)
    BY <1>t, <1>1, <1>2, <1>4, <1>6, <1>8, BeginTyped
<1> QED BY <1>5, <1>7, <1>8

LEMMA SettleTyped ==
    ASSUME TypeOK, NEW id \in AttemptIds, NEW record \in Attempt,
           NEW entry \in LineageEntry, NEW released \in Memory,
           Settle(id, record, entry, released)
    PROVE  TypeOK'
<1> DEFINE s == Keep(state, id, record)
           d == LogAttempt(disk, id, record)
<1>t. state \in DurableState /\ disk \in DurableState /\ mem \in Memory
    BY DEF TypeOK
<1>1. s \in DurableState /\ d \in DurableState
    BY <1>t, KeepType, LogAttemptType
<1>2. \/ Finish(Remember(s, entry), LogLineage(d, entry), released, TRUE)
      \/ Die(d)
      \/ Answer(s, disk, mem)
      \/ Answer(s, d, mem)
    BY DEF Settle
<1> HIDE DEF s, d
<1>3. Remember(s, entry) \in DurableState /\ LogLineage(d, entry) \in DurableState
    BY <1>1, RememberType
<1> QED BY <1>t, <1>1, <1>2, <1>3, EndsTyped

LEMMA AttemptFields ==
    ASSUME NEW s \in DurableState, NEW id \in AttemptIds
    PROVE  /\ s.attempts[id] \in Attempt
           /\ s.attempts[id].selected \in Paths \cup {NoPath}
           /\ s.attempts[id].basis \in AuthorityVector
           /\ s.attempts[id].revalidations \in Nat
<1>1. s.attempts[id] \in Attempt
    BY Fields
<1> QED BY <1>1 DEF Attempt

LEMMA SettlingTyped ==
    ASSUME TypeOK, NEW id \in AttemptIds
    PROVE  /\ \A q \in 1 .. MaxObservation, v \in Observed(id) :
                 RecordEffect(id, q, v) => TypeOK'
           /\ AbandonAttempt(id) => TypeOK'
           /\ \A v \in Observed(id) : Rollback(id, v) => TypeOK'
<1> DEFINE record == state.attempts[id]
           decision == state.decision_sequence
<1>t. state \in DurableState /\ disk \in DurableState /\ mem \in Memory
    BY DEF TypeOK
<1>1. record \in Attempt /\ record.selected \in Paths \cup {NoPath}
      /\ record.revalidations + 1 \in Nat
    BY <1>t, AttemptFields
<1>2. decision \in Nat /\ id \in Nat
    BY <1>t, Fields, MaxAttemptNat
<1>3. Released(id) \in Memory
    BY <1>t DEF Released, Memory
<1>4. \A outcome \in Outcome, selected \in Paths \cup {NoPath} :
        Entry(state, decision, id, outcome, selected) \in LineageEntry
    BY <1>t, <1>2, EntryType
<1>5. ASSUME NEW st \in TerminalState
      PROVE  [record EXCEPT !.state = st] \in Attempt
    BY <1>1 DEF Attempt
<1>6. ASSUME NEW q \in 1 .. MaxObservation, NEW v \in Observed(id), RecordEffect(id, q, v)
      PROVE  TypeOK'
    <2> DEFINE r == [record EXCEPT !.state = "committed"]
               e == Entry(state, decision, id, "promoted", record.selected)
               m == [Released(id) EXCEPT !.evidence[record.selected] = q]
    <2>1. r \in Attempt
        BY <1>5 DEF TerminalState
    <2>2. e \in LineageEntry
        BY <1>1, <1>4 DEF Outcome
    <2>3. m \in Memory
        BY <1>3, InputsNat DEF Memory
    <2>4. Settle(id, r, e, m)
        BY <1>6 DEF RecordEffect
    <2> HIDE DEF r, e, m
    <2> QED BY <2>1, <2>2, <2>3, <2>4, SettleTyped
<1>7. ASSUME AbandonAttempt(id)
      PROVE  TypeOK'
    <2> DEFINE r == [record EXCEPT !.state = "abandoned"]
               e == Entry(state, decision, id, "superseded", NoPath)
    <2>1. r \in Attempt
        BY <1>5 DEF TerminalState
    <2>2. e \in LineageEntry
        BY <1>4 DEF Outcome
    <2>3. Settle(id, r, e, Released(id))
        BY <1>7 DEF AbandonAttempt
    <2> HIDE DEF r, e
    <2> QED BY <1>3, <2>1, <2>2, <2>3, SettleTyped
<1>8. ASSUME NEW v \in Observed(id), Rollback(id, v)
      PROVE  TypeOK'
    <2> DEFINE r == [record EXCEPT !.state = "rolled_back", !.revalidations = @ + 1]
               e == Entry(state, decision, id, "rolled_back", record.selected)
    <2>1. r \in Attempt
        <3> HIDE DEF record
        <3> QED BY <1>1 DEF Attempt, TerminalState
    <2>2. e \in LineageEntry
        BY <1>1, <1>4 DEF Outcome
    <2>3. Settle(id, r, e, Released(id))
        BY <1>8 DEF Rollback
    <2> HIDE DEF r, e
    <2> QED BY <1>3, <2>1, <2>2, <2>3, SettleTyped
<1> QED BY <1>6, <1>7, <1>8

LEMMA RevertTyped ==
    ASSUME TypeOK, NEW committed \in AttemptIds, NEW target \in Paths, NEW v,
           Revert(committed, target, v)
    PROVE  TypeOK'
<1> DEFINE old == state.attempts[committed]
           id == state.attempt_sequence + 1
           decision == state.decision_sequence + 1
           record == [incumbent |-> old.selected, selected |-> target,
                      basis |-> state.authority, state |-> "committed",
                      revalidations |-> old.revalidations + 1]
           k == Keep(state, id, record)
           s == [k EXCEPT !.attempt_sequence = @ + 1, !.decision_sequence = decision]
           d == LogAttempt(disk, id, record)
           entry == Entry(state, decision, id, "reverted", target)
<1>t. state \in DurableState /\ disk \in DurableState /\ mem \in Memory
    BY DEF TypeOK
<1>1. id \in AttemptIds /\ id \in Nat /\ decision \in Nat
    <2>1. state.attempt_sequence < MaxAttempt
        BY DEF Revert
    <2> QED BY <1>t, <2>1, Fields, MaxAttemptNat DEF AttemptIds
<1>2. record \in Attempt
    BY <1>t, AttemptFields, Fields DEF Attempt, TerminalState
<1>3. \/ Finish(Remember(s, entry), LogLineage(d, entry), mem, TRUE)
      \/ Die(d)
      \/ Answer(s, d, mem)
    BY DEF Revert
<1>4. entry \in LineageEntry
    <2> HIDE DEF id, decision
    <2> QED BY <1>t, <1>1, EntryType DEF Outcome
<1> HIDE DEF id, decision, record, entry
<1>5. k \in DurableState /\ d \in DurableState
    BY <1>t, <1>1, <1>2, KeepType, LogAttemptType
<1> HIDE DEF k, d
<1>6. s \in DurableState
    <2>1. k.attempt_sequence + 1 \in Nat
        BY <1>5, Fields
    <2> QED BY <1>1, <1>5, <2>1 DEF DurableState
<1> HIDE DEF s
<1>7. Remember(s, entry) \in DurableState /\ LogLineage(d, entry) \in DurableState
    BY <1>4, <1>5, <1>6, RememberType
<1> QED BY <1>t, <1>3, <1>5, <1>6, <1>7, EndsTyped

\* Every step of the coordinator, with or without refused appends, keeps the types.
LEMMA TypeStep == TypeOK /\ [Next]_vars => TypeOK'
<1> SUFFICES ASSUME TypeOK, [Next]_vars
             PROVE  TypeOK'
    OBVIOUS
<1>1. CASE UNCHANGED vars
    BY <1>1 DEF vars, TypeOK
<1>2. CASE Next
    BY <1>2, OpenTyped, IngestTyped, FencingTyped, BeginPromotionTyped, SettlingTyped,
       RevertTyped DEF Next
<1> QED BY <1>1, <1>2

\* Type correctness: whatever callers ask for, wherever the process dies and
\* whichever append is refused, memory and disk hold values of their types.
THEOREM TypeCorrect == Spec => []TypeOK
<1>1. ASSUME Init
      PROVE  TypeOK
    <2>1. arrival \in [AttemptIds -> Nat]
        BY <1>1 DEF Init
    <2> QED BY <1>1, <2>1, EmptyTypes DEF Init, TypeOK
<1> QED BY <1>1, TypeStep, PTL DEF Spec

-----------------------------------------------------------------------------
(* Exclusive, current and unfenced ownership, when appends succeed. *)

\* The three ownership invariants, of a state and the memory next to it.
Owned(s, m) ==
    /\ ActiveIds(s.attempts) \subseteq {m.active}
    /\ \A i \in ActiveIds(s.attempts) :
          s.attempts[i].basis = s.authority /\ s.attempts[i].selected \notin FencedPaths(s)

\* The inductive invariant: the ownership invariants need each other, since
\* only the attempt active_attempt_ names is refused, committed or released.
Ownership == SingleOwner /\ BasisCurrent /\ OwnerNotFenced

LEMMA OwnedIsOwnership ==
    /\ Ownership <=> Owned(state, mem)
    /\ Ownership' <=> Owned(state, mem)'
BY DEF Ownership, Owned, SingleOwner, BasisCurrent, OwnerNotFenced

LEMMA EndsOwned ==
    ASSUME NEW s, NEW d, NEW m, NEW compacts
    PROVE  /\ Owned(s, m) /\ Answer(s, d, m) => Ownership'
           /\ Owned(s, m) /\ Finish(s, d, m, compacts) => Ownership'
           /\ Die(d) => Ownership'
<1>1. Answer(s, d, m) => state' = s /\ mem' = m
    BY DEF Answer
<1>2. Finish(s, d, m, compacts) => state' = s /\ mem' = m
    BY DEF Finish, Answer, Compact
<1>3. state' = s /\ mem' = m /\ Owned(s, m) => Ownership'
    BY OwnedIsOwnership DEF Owned, FencedPaths
<1>4. ActiveIds(EmptyState.attempts) = {}
    BY DEF ActiveIds, EmptyState, NoAttempt, ActiveState
<1>5. Die(d) => Owned(state, mem)'
    <2> SUFFICES ASSUME Die(d)
                 PROVE  Owned(state, mem)'
        OBVIOUS
    <2>1. ActiveIds(state'.attempts) = {}
        BY <1>4 DEF Die
    <2> QED BY <2>1 DEF Owned
<1> QED BY <1>1, <1>2, <1>3, <1>5, OwnedIsOwnership

\* Nothing in flight is trivially in order.
LEMMA IdleOwned ==
    ASSUME NEW s, NEW m, ActiveIds(s.attempts) = {}
    PROVE  Owned(s, m)
BY DEF Owned

\* Stopping every attempt in flight leaves none, whatever fences are written.
LEMMA StopAllIdle ==
    ASSUME NEW s \in DurableState, NEW fenced, NEW how \in {"fenced", "interrupted"}
    PROVE  ActiveIds(Stop(s, ActiveIds(s.attempts), fenced, how).attempts) = {}
<1> DEFINE ids == ActiveIds(s.attempts)
           a == Stopped(s.attempts, ids, how)
<1>1. \A i \in AttemptIds : s.attempts[i] \in Attempt
    BY Fields
<1>2. ASSUME NEW i \in AttemptIds
      PROVE  a[i].state \notin ActiveState
    <2>1. CASE i \in ids
        BY <1>1, <2>1 DEF Stopped, Attempt, ActiveState
    <2>2. CASE i \notin ids
        BY <2>2 DEF Stopped, ActiveIds
    <2> QED BY <2>1, <2>2
<1>3. Stop(s, ids, fenced, how).attempts = a
    BY DEF Stop, DurableState
<1> QED BY <1>2, <1>3 DEF ActiveIds

LEMMA FenceAttemptsOwned ==
    ASSUME ~Refusals, NEW s \in DurableState, NEW d, NEW compacts,
           ActiveIds(s.attempts) \subseteq {mem.active}, FenceAttempts(s, d, compacts)
    PROVE  Ownership'
<1> DEFINE ids == ActiveIds(s.attempts)
           released == IF ids = {} THEN mem
                       ELSE [mem EXCEPT !.active = 0, !.grants = @ \ ids]
<1>1. CASE Finish(Stop(s, ids, ids, "fenced"), LogStop(d, s, ids, ids, "fenced"),
                  released, compacts)
    <2>1. Owned(Stop(s, ids, ids, "fenced"), released)
        BY StopAllIdle, IdleOwned
    <2> HIDE DEF ids, released
    <2> QED BY <1>1, <2>1, EndsOwned
\* The fence table is full: there is one attempt in flight and the loop has
\* stopped it before it found out.
<1>2. ASSUME NEW p \in Progress(ids),
             Cardinality(p[2]) = Room(s), Cardinality(p[1]) = Room(s) + 1,
             Answer(Stop(s, p[1], p[2], "fenced"), LogStop(d, s, p[1], p[2], "fenced"), mem)
      PROVE  Ownership'
    <2>1. ids \in SUBSET AttemptIds
        BY ActiveIdsType
    <2>2. p[1] \in SUBSET ids /\ p[2] \in SUBSET ids
        BY <2>1, ProgressType
    <2>3. Cardinality(p[2]) \in Nat
        BY <2>1, <2>2, AttemptIdsFinite
    <2>4. Cardinality(p[1]) # 0
        BY <1>2, <2>3
    <2>5. p[1] # {}
        BY <2>4, FS_EmptySet
    <2>6. p[1] = ids
        BY <2>2, <2>5
    <2>7. Owned(Stop(s, p[1], p[2], "fenced"), mem)
        BY <2>6, StopAllIdle, IdleOwned
    <2> HIDE DEF ids
    <2> QED BY <1>2, <2>7, EndsOwned
<1>3. ASSUME NEW p \in Progress(ids), Die(LogStop(d, s, p[1], p[2], "fenced"))
      PROVE  Ownership'
    <2> HIDE DEF ids
    <2> QED BY <1>3, EndsOwned
<1>4. \/ Finish(Stop(s, ids, ids, "fenced"), LogStop(d, s, ids, ids, "fenced"), released, compacts)
      \/ \E p \in Progress(ids) :
            /\ Cardinality(p[2]) = Room(s) /\ Cardinality(p[1]) = Room(s) + 1
            /\ Answer(Stop(s, p[1], p[2], "fenced"), LogStop(d, s, p[1], p[2], "fenced"), mem)
      \/ \E p \in Progress(ids) : Die(LogStop(d, s, p[1], p[2], "fenced"))
    BY DEF FenceAttempts
<1> HIDE DEF ids, released
<1> QED BY <1>1, <1>2, <1>3, <1>4

\* Ending one attempt leaves the others as they are.
LEMMA KeepTerminal ==
    ASSUME NEW s \in DurableState, NEW id \in AttemptIds, NEW record \in Attempt,
           record.state \in TerminalState
    PROVE  LET k == Keep(s, id, record)
           IN  /\ ActiveIds(k.attempts) \subseteq ActiveIds(s.attempts) \ {id}
               /\ \A i \in ActiveIds(k.attempts) : k.attempts[i] = s.attempts[i]
               /\ k.authority = s.authority
               /\ k.fences = s.fences
<1> DEFINE k == Keep(s, id, record)
           w == WithRoom(s.attempts, id)
<1>1. s.attempts \in [AttemptIds -> Attempt]
    BY Fields
<1>2. w \in [AttemptIds -> Attempt]
    BY <1>1, EmptyTypes DEF WithRoom
<1>3. \A i \in AttemptIds : w[i] = s.attempts[i] \/ w[i] = NoAttempt
    BY <1>1 DEF WithRoom
<1>4. NoAttempt.state \notin ActiveState /\ record.state \notin ActiveState
    BY DEF NoAttempt, ActiveState, TerminalState
<1>5. k.attempts = [w EXCEPT ![id] = record] /\ k.authority = s.authority /\ k.fences = s.fences
    BY DEF Keep, DurableState
<1>6. ASSUME NEW i \in ActiveIds(k.attempts)
      PROVE  i \in ActiveIds(s.attempts) \ {id} /\ k.attempts[i] = s.attempts[i]
    <2> HIDE DEF k, w
    <2>1. i \in AttemptIds /\ k.attempts[i].state \in ActiveState
        BY DEF ActiveIds
    <2>2. i # id
        BY <1>2, <1>4, <1>5, <2>1
    <2>3. k.attempts[i] = w[i]
        BY <1>2, <1>5, <2>1, <2>2
    <2>4. w[i] = s.attempts[i]
        BY <1>3, <1>4, <2>1, <2>3
    <2> QED BY <2>1, <2>2, <2>3, <2>4 DEF ActiveIds
<1> QED BY <1>5, <1>6

LEMMA SettleOwned ==
    ASSUME ~Refusals, TypeOK, Ownership, NEW id \in AttemptIds, NEW record \in Attempt,
           record.state \in TerminalState, NEW entry, NEW released,
           released.active = (IF mem.active = id THEN 0 ELSE mem.active),
           Settle(id, record, entry, released)
    PROVE  Ownership'
<1> DEFINE s == Keep(state, id, record)
           d == LogAttempt(disk, id, record)
           r == Remember(s, entry)
<1>1. state \in DurableState
    BY DEF TypeOK
<1>2. s \in DurableState
    BY <1>1, KeepType
<1>3. /\ ActiveIds(s.attempts) \subseteq ActiveIds(state.attempts) \ {id}
      /\ \A i \in ActiveIds(s.attempts) : s.attempts[i] = state.attempts[i]
      /\ s.authority = state.authority
      /\ s.fences = state.fences
    BY <1>1, KeepTerminal
<1> HIDE DEF s
<1>4. r.attempts = s.attempts /\ r.authority = s.authority /\ r.fences = s.fences
    BY <1>2 DEF Remember, DurableState
<1>5. Owned(state, mem)
    BY OwnedIsOwnership
<1>6. Owned(r, released)
    BY <1>3, <1>4, <1>5 DEF Owned, FencedPaths
<1>7. Finish(r, LogLineage(d, entry), released, TRUE) \/ Die(d)
    BY DEF Settle, s
<1> HIDE DEF r, d
<1> QED BY <1>6, <1>7, EndsOwned

LEMMA OpenOwned ==
    ASSUME TypeOK, Open
    PROVE  Ownership'
<1> DEFINE epoch == disk.authority.epoch + 1
           s == [disk EXCEPT !.authority.epoch = epoch, !.authority.boot = epoch]
           d == LogEpoch(disk, s)
           ids == ActiveIds(s.attempts)
<1>1. s \in DurableState
    <2> DEFINE a == [disk.authority EXCEPT !.epoch = epoch, !.boot = epoch]
    <2>1. disk \in DurableState
        BY DEF TypeOK
    <2>2. disk.authority \in AuthorityVector /\ epoch \in Nat
        BY <2>1, Fields, VectorFields
    <2>3. s = [disk EXCEPT !.authority = a]
        OBVIOUS
    <2> HIDE DEF epoch
    <2> QED BY <2>1, <2>2, <2>3, VectorUpdates, InstallVector
<1>2. \/ Finish(Stop(s, ids, ids, "interrupted"), LogStop(d, s, ids, ids, "interrupted"),
                EmptyMemory, TRUE)
      \/ \E p \in Progress(ids) : Die(LogStop(d, s, p[1], p[2], "interrupted"))
    BY DEF Open
<1> HIDE DEF s, d
<1>3. Owned(Stop(s, ids, ids, "interrupted"), EmptyMemory)
    BY <1>1, StopAllIdle, IdleOwned
<1> HIDE DEF ids
<1> QED BY <1>2, <1>3, EndsOwned

\* What moves the vector leaves the attempt table to fence_attempts_locked;
\* what does not leaves ownership alone.
LEMMA IngestOwned ==
    ASSUME ~Refusals, TypeOK, Ownership
    PROVE  /\ \A g \in 1 .. MaxPolicy, b \in 0 .. MaxBudget :
                ApplyPolicy([generation |-> g, max_revalidations |-> b]) => Ownership'
           /\ \A g \in 1 .. MaxObligations : ApplyObligations(g) => Ownership'
           /\ \A id \in SetIds : \A set : ApplyAlternateSet(id, set) => Ownership'
           /\ \A p \in Paths, q \in 1 .. MaxObservation : ApplyEvidence(p, q) => Ownership'
           /\ \A top \in 0 .. MaxTopology, a \in 0 .. MaxPathAuthority :
                SetAuthority(top, a) => Ownership'
           /\ FenceAll => Ownership'
           /\ Crash => Ownership'
           /\ Evaluate => Ownership'
<1>t. state \in DurableState /\ mem \in Memory
    BY DEF TypeOK
<1>o. Owned(state, mem) /\ ActiveIds(state.attempts) \subseteq {mem.active}
    BY OwnedIsOwnership DEF Owned
<1>1. ASSUME NEW g \in 1 .. MaxPolicy, NEW b \in 0 .. MaxBudget,
             ApplyPolicy([generation |-> g, max_revalidations |-> b])
      PROVE  Ownership'
    <2> DEFINE pol == [generation |-> g, max_revalidations |-> b]
               a == [state.authority EXCEPT !.policy = g]
               s == [state EXCEPT !.policy = pol, !.authority.policy = pol.generation]
    <2>1. a \in AuthorityVector
        BY <1>t, Fields, InputsNat, VectorUpdates
    <2>2. pol \in Policy
        BY InputsNat DEF Policy
    <2>3. s = [state EXCEPT !.policy = pol, !.authority = a]
        OBVIOUS
    <2>4. FenceAttempts(s, LogPolicy(disk, pol), TRUE)
        BY <1>1 DEF ApplyPolicy
    <2> HIDE DEF a, pol
    <2>5. s \in DurableState /\ s.attempts = state.attempts
        BY <1>t, <2>1, <2>2, <2>3 DEF DurableState
    <2> HIDE DEF s
    <2> QED BY <1>o, <2>4, <2>5, FenceAttemptsOwned
<1>2. ASSUME NEW g \in 1 .. MaxObligations, ApplyObligations(g)
      PROVE  Ownership'
    <2> DEFINE a == [state.authority EXCEPT !.obligations = g]
               s == [state EXCEPT !.obligations = g, !.authority.obligations = g]
    <2>1. a \in AuthorityVector
        BY <1>t, Fields, InputsNat, VectorUpdates
    <2>2. s = [state EXCEPT !.obligations = g, !.authority = a]
        OBVIOUS
    <2>3. FenceAttempts(s, LogObligations(disk, g), TRUE)
        BY <1>2 DEF ApplyObligations
    <2> HIDE DEF a
    <2>4. s \in DurableState /\ s.attempts = state.attempts
        BY <1>t, <2>1, <2>2, InputsNat DEF DurableState
    <2> HIDE DEF s
    <2> QED BY <1>o, <2>3, <2>4, FenceAttemptsOwned
<1>3. ASSUME NEW id \in SetIds, NEW set, ApplyAlternateSet(id, set)
      PROVE  Ownership'
    <2> DEFINE s == [state EXCEPT !.sets[id] = set]
    <2>1. s.attempts = state.attempts /\ s.authority = state.authority /\ s.fences = state.fences
        BY <1>t DEF DurableState
    <2>2. Finish(s, LogSet(disk, id, set), mem, TRUE)
        BY <1>3 DEF ApplyAlternateSet
    <2> HIDE DEF s
    <2>3. Owned(s, mem)
        BY <1>o, <2>1 DEF Owned, FencedPaths
    <2> QED BY <2>2, <2>3, EndsOwned
<1>4. ASSUME NEW p \in Paths, NEW q \in 1 .. MaxObservation, ApplyEvidence(p, q)
      PROVE  Ownership'
    <2> DEFINE m == [mem EXCEPT !.evidence[p] = q]
    <2>1. m.active = mem.active
        BY <1>t DEF Memory
    <2>2. Answer(state, disk, m)
        BY <1>4 DEF ApplyEvidence
    <2> HIDE DEF m
    <2>3. Owned(state, m)
        BY <1>o, <2>1 DEF Owned
    <2> QED BY <2>2, <2>3, EndsOwned
<1>5. ASSUME NEW top \in 0 .. MaxTopology, NEW a \in 0 .. MaxPathAuthority,
             SetAuthority(top, a)
      PROVE  Ownership'
    <2> DEFINE v == [state.authority EXCEPT !.topology = top, !.path_authority = a]
               s == [state EXCEPT !.authority.topology = top,
                                  !.authority.path_authority = a]
    <2>1. v \in AuthorityVector
        BY <1>t, Fields, InputsNat, VectorUpdates
    <2>2. s = [state EXCEPT !.authority = v]
        OBVIOUS
    <2>3. FenceAttempts(s, LogEpoch(disk, s), TRUE)
        BY <1>5 DEF SetAuthority
    <2> HIDE DEF v
    <2>4. s \in DurableState /\ s.attempts = state.attempts
        BY <1>t, <2>1, <2>2 DEF DurableState
    <2> HIDE DEF s
    <2> QED BY <1>o, <2>3, <2>4, FenceAttemptsOwned
<1>6. FenceAll => Ownership'
    BY <1>t, <1>o, FenceAttemptsOwned DEF FenceAll
<1>7. Crash => Ownership'
    BY EndsOwned DEF Crash
<1>8. Evaluate => Ownership'
    <2> DEFINE s == [state EXCEPT !.decision_sequence = @ + 1]
    <2>1. s.attempts = state.attempts /\ s.authority = state.authority /\ s.fences = state.fences
        BY <1>t DEF DurableState
    <2>2. Evaluate => Answer(s, disk, mem)
        BY DEF Evaluate
    <2> HIDE DEF s
    <2>3. Owned(s, mem)
        BY <1>o, <2>1 DEF Owned, FencedPaths
    <2> QED BY <2>2, <2>3, EndsOwned
<1> QED BY <1>1, <1>2, <1>3, <1>4, <1>5, <1>6, <1>7, <1>8

\* The fence of a path and the end of the attempts that target it are one step.
LEMMA FencePathOwned ==
    ASSUME ~Refusals, TypeOK, Ownership, NEW path \in Paths, FencePath(path)
    PROVE  Ownership'
<1> DEFINE fence == [id |-> state.fence_sequence + 1, epoch |-> state.authority.epoch,
                     attempt |-> 0, path |-> path]
           s == [state EXCEPT !.fences = @ \cup {fence}, !.fence_sequence = @ + 1]
           d == LogFences(disk, {fence})
           ids == {i \in ActiveIds(s.attempts) : s.attempts[i].selected = path}
           Freed(done) ==
             [mem EXCEPT !.grants = @ \ done, !.active = IF @ \in done THEN 0 ELSE @]
           t == Stop(s, ids, {}, "fenced")
<1>t. state \in DurableState /\ mem \in Memory
    BY DEF TypeOK
<1>o. Owned(state, mem)
    BY OwnedIsOwnership
<1>1. /\ s.attempts = state.attempts
      /\ s.authority = state.authority
      /\ s.fences = state.fences \cup {fence}
    BY <1>t DEF DurableState
<1>2. \/ Finish(t, LogStop(d, s, ids, {}, "fenced"), Freed(ids), TRUE)
      \/ \E done \in Prefixes(ids) : Die(LogStop(d, s, done, {}, "fenced"))
    BY DEF FencePath
<1>3. Freed(ids).active = IF mem.active \in ids THEN 0 ELSE mem.active
    BY <1>t DEF Memory
<1>4. /\ t.attempts = Stopped(s.attempts, ids, "fenced")
      /\ t.authority = s.authority
      /\ t.fences = s.fences
    <2> HIDE DEF ids
    <2>1. AttemptFences(s, {}) = {}
        BY DEF AttemptFences
    <2> QED BY <1>t, <2>1 DEF Stop, DurableState
<1>5. FencedPaths(t) \subseteq FencedPaths(state) \cup {path}
    <2> HIDE DEF t, s
    <2> QED BY <1>1, <1>4 DEF FencedPaths
<1>6. ASSUME NEW i \in ActiveIds(t.attempts)
      PROVE  /\ i \in ActiveIds(state.attempts) \ ids
             /\ t.attempts[i] = state.attempts[i]
             /\ state.attempts[i].selected # path
    <2> HIDE DEF t, s
    <2>1. i \in AttemptIds /\ t.attempts[i].state \in ActiveState
        BY DEF ActiveIds
    <2>2. state.attempts[i] \in Attempt
        BY <1>t, <2>1, Fields
    <2>3. i \notin ids
        <3> SUFFICES ASSUME i \in ids
                     PROVE  FALSE
            OBVIOUS
        <3> HIDE DEF ids
        <3>1. t.attempts[i].state = "fenced"
            BY <1>1, <1>4, <2>1, <2>2 DEF Stopped, Attempt
        <3> QED BY <2>1, <3>1 DEF ActiveState
    <2>4. t.attempts[i] = state.attempts[i]
        <3> HIDE DEF ids
        <3> QED BY <1>1, <1>4, <2>1, <2>3 DEF Stopped
    <2> QED BY <1>1, <2>1, <2>3, <2>4 DEF ActiveIds
<1> HIDE DEF t, d, s, ids, Freed
<1>7. Owned(t, Freed(ids))
    BY <1>1, <1>3, <1>4, <1>5, <1>6, <1>o DEF Owned
<1> QED BY <1>2, <1>7, EndsOwned

\* A new record is the only one that can be in flight when none was.
LEMMA KeepFirst ==
    ASSUME NEW s \in DurableState, NEW id \in AttemptIds, NEW record \in Attempt,
           ActiveIds(s.attempts) = {}
    PROVE  LET k == Keep(s, id, record)
           IN  /\ ActiveIds(k.attempts) \subseteq {id}
               /\ k.attempts[id] = record
               /\ k.authority = s.authority
               /\ k.fences = s.fences
<1> DEFINE k == Keep(s, id, record)
           w == WithRoom(s.attempts, id)
<1>1. s.attempts \in [AttemptIds -> Attempt]
    BY Fields
<1>2. w \in [AttemptIds -> Attempt]
    BY <1>1, EmptyTypes DEF WithRoom
<1>3. \A i \in AttemptIds : w[i] = s.attempts[i] \/ w[i] = NoAttempt
    BY <1>1 DEF WithRoom
<1>4. \A i \in AttemptIds : w[i].state \notin ActiveState
    <2> HIDE DEF w
    <2>1. NoAttempt.state \notin ActiveState
        BY DEF NoAttempt, ActiveState
    <2> QED BY <1>3, <2>1 DEF ActiveIds
<1>5. k.attempts = [w EXCEPT ![id] = record] /\ k.authority = s.authority /\ k.fences = s.fences
    BY DEF Keep, DurableState
<1> HIDE DEF k, w
<1>6. ActiveIds(k.attempts) \subseteq {id} /\ k.attempts[id] = record
    BY <1>2, <1>4, <1>5 DEF ActiveIds
<1> QED BY <1>5, <1>6 DEF k

LEMMA BeginOwned ==
    ASSUME ~Refusals, NEW s \in DurableState, NEW m \in Memory,
           ActiveIds(s.attempts) = {}, NEW id \in AttemptIds, NEW incumbent \in Paths,
           NEW path \in Paths \cup {NoPath}, path \notin FencedPaths(s),
           Begin(s, m, id, incumbent, path)
    PROVE  Ownership'
<1> DEFINE Record(st) ==
               [incumbent |-> incumbent, selected |-> path, basis |-> s.authority,
                state |-> st, revalidations |-> 0]
           Numbered(r) == [Keep(s, id, r) EXCEPT !.attempt_sequence = @ + 1]
           claimed == Record("claimed")
           d1 == LogAttempt(disk, id, claimed)
           final == IF path = NoPath THEN Record("refused") ELSE Record("authorized")
           d2 == LogAttempt(d1, id, final)
           entry == Entry(s, s.decision_sequence, id, "refused", NoPath)
           granted == [m EXCEPT !.active = id, !.grants = @ \cup {id}]
           full == [s EXCEPT !.attempt_sequence = Larger(@, id)]
           k == Keep(s, id, final)
           n == Numbered(final)
           r == Remember(n, entry)
<1>1. final \in Attempt
    BY Fields DEF Attempt, ActiveState, TerminalState
<1>2. final.basis = s.authority /\ final.selected = path
    OBVIOUS
<1>3. path = NoPath => final.state \notin ActiveState
    BY DEF ActiveState
<1>4. \/ Answer(full, d1, m)
      \/ Die(d1)
      \/ path # NoPath /\ Finish(n, d2, granted, TRUE)
      \/ path = NoPath /\ Finish(r, LogLineage(d2, entry), m, TRUE)
      \/ Die(d2)
    BY DEF Begin
<1>5. full.attempts = s.attempts
    BY DEF DurableState
<1>6. granted.active = id
    BY DEF Memory
<1> HIDE DEF final
<1>7. /\ ActiveIds(k.attempts) \subseteq {id}
      /\ k.attempts[id] = final
      /\ k.authority = s.authority
      /\ k.fences = s.fences
    BY <1>1, KeepFirst
<1>8. k \in DurableState
    BY <1>1, KeepType
<1>9. n \in DurableState /\ n.attempts = k.attempts /\ n.authority = k.authority
      /\ n.fences = k.fences
    <2> HIDE DEF k
    <2>1. k.attempt_sequence + 1 \in Nat
        BY <1>8, Fields
    <2>2. n = [k EXCEPT !.attempt_sequence = @ + 1]
        BY DEF k
    <2> QED BY <1>8, <2>1, <2>2 DEF DurableState
<1>10. r.attempts = n.attempts
    <2> HIDE DEF n
    <2> QED BY <1>9 DEF Remember, DurableState
<1> HIDE DEF full, granted, k, n, r, d1, d2, entry
<1>11. Owned(full, m)
    BY <1>5, IdleOwned
<1>12. Owned(n, granted)
    BY <1>2, <1>6, <1>7, <1>9 DEF Owned, FencedPaths
<1>13. path = NoPath => Owned(r, m)
    <2>1. path = NoPath => ActiveIds(r.attempts) = {}
        BY <1>3, <1>7, <1>9, <1>10 DEF ActiveIds
    <2> QED BY <2>1, IdleOwned
<1> QED BY <1>4, <1>11, <1>12, <1>13, EndsOwned

\* Admission lets a promotion in only when nothing is in flight.
LEMMA BeginPromotionOwned ==
    ASSUME ~Refusals, TypeOK, Ownership, NEW incumbent \in Paths, NEW set \in SetIds,
           BeginPromotion(incumbent, set)
    PROVE  Ownership'
<1> DEFINE s == [state EXCEPT !.decision_sequence = @ + 1]
           m == [mem EXCEPT !.active = 0]
           id == state.attempt_sequence + 1
<1>t. state \in DurableState /\ mem \in Memory
    BY DEF TypeOK
<1>1. s \in DurableState /\ s.attempts = state.attempts
    <2>1. state.decision_sequence + 1 \in Nat
        BY <1>t, Fields
    <2> QED BY <1>t, <2>1 DEF DurableState
<1>2. m \in Memory
    BY <1>t DEF Memory
<1>3. ActiveIds(state.attempts) = {}
    <2>1. \A i \in ActiveIds(state.attempts) : i = mem.active /\ i # 0
        BY MaxAttemptNat DEF Ownership, SingleOwner, ActiveIds, AttemptIds
    <2>2. ~Contended
        BY DEF BeginPromotion
    <2> QED BY <2>1, <2>2 DEF Contended, ActiveIds
<1>4. id \in AttemptIds
    <2>1. state.attempt_sequence < MaxAttempt
        BY DEF BeginPromotion
    <2> QED BY <1>t, <2>1, Fields, MaxAttemptNat DEF AttemptIds
<1>5. \/ Answer(s, disk, m)
      \/ \E path \in Promotable(s, set, incumbent) \cup {NoPath} :
            Begin(s, m, id, incumbent, path)
    BY DEF BeginPromotion
<1> HIDE DEF s, m, id
<1>6. /\ Promotable(s, set, incumbent) \subseteq Paths
      /\ \A path \in Promotable(s, set, incumbent) \cup {NoPath} : path \notin FencedPaths(s)
    <2>1. s.sets[set].members \subseteq Paths
        BY <1>1, Fields DEF AlternateSet
    <2> QED BY <2>1 DEF Promotable, FencedPaths
<1>7. CASE Answer(s, disk, m)
    <2>1. Owned(s, m)
        BY <1>1, <1>3, IdleOwned
    <2> QED BY <1>7, <2>1, EndsOwned
<1>8. CASE \E path \in Promotable(s, set, incumbent) \cup {NoPath} :
              Begin(s, m, id, incumbent, path)
    BY <1>1, <1>2, <1>3, <1>4, <1>6, <1>8, BeginOwned
<1> QED BY <1>5, <1>7, <1>8

LEMMA SettlingOwned ==
    ASSUME ~Refusals, TypeOK, Ownership, NEW id \in AttemptIds
    PROVE  /\ \A q, v : RecordEffect(id, q, v) => Ownership'
           /\ AbandonAttempt(id) => Ownership'
           /\ \A v : Rollback(id, v) => Ownership'
<1> DEFINE record == state.attempts[id]
<1>t. state \in DurableState /\ mem \in Memory
    BY DEF TypeOK
<1>1. record \in Attempt /\ record.revalidations + 1 \in Nat
    BY <1>t, AttemptFields
<1>2. Released(id) \in Memory /\ Released(id).active = IF mem.active = id THEN 0 ELSE mem.active
    BY <1>t DEF Released, Memory
<1> HIDE DEF record
<1>3. ASSUME NEW st \in TerminalState
      PROVE  [record EXCEPT !.state = st] \in Attempt /\ [record EXCEPT !.state = st].state = st
    BY <1>1 DEF Attempt
<1>4. ASSUME NEW q, NEW v, RecordEffect(id, q, v)
      PROVE  Ownership'
    <2> DEFINE r == [record EXCEPT !.state = "committed"]
               e == Entry(state, state.decision_sequence, id, "promoted", record.selected)
               m == [Released(id) EXCEPT !.evidence[record.selected] = q]
    <2>1. r \in Attempt /\ r.state \in TerminalState
        BY <1>3 DEF TerminalState
    <2>2. m.active = Released(id).active
        BY <1>2 DEF Memory
    <2>3. Settle(id, r, e, m)
        BY <1>4 DEF RecordEffect, record
    <2> HIDE DEF r, e, m
    <2> QED BY <1>2, <2>1, <2>2, <2>3, SettleOwned
<1>5. ASSUME AbandonAttempt(id)
      PROVE  Ownership'
    <2> DEFINE r == [record EXCEPT !.state = "abandoned"]
               e == Entry(state, state.decision_sequence, id, "superseded", NoPath)
    <2>1. r \in Attempt /\ r.state \in TerminalState
        BY <1>3 DEF TerminalState
    <2>2. Settle(id, r, e, Released(id))
        BY <1>5 DEF AbandonAttempt, record
    <2> HIDE DEF r, e
    <2> QED BY <1>2, <2>1, <2>2, SettleOwned
<1>6. ASSUME NEW v, Rollback(id, v)
      PROVE  Ownership'
    <2> DEFINE r == [record EXCEPT !.state = "rolled_back", !.revalidations = @ + 1]
               e == Entry(state, state.decision_sequence, id, "rolled_back", record.selected)
    <2>1. r \in Attempt /\ r.state \in TerminalState
        BY <1>1 DEF Attempt, TerminalState
    <2>2. Settle(id, r, e, Released(id))
        BY <1>6 DEF Rollback, record
    <2> HIDE DEF r, e
    <2> QED BY <1>2, <2>1, <2>2, SettleOwned
<1> QED BY <1>4, <1>5, <1>6

LEMMA RevertOwned ==
    ASSUME ~Refusals, TypeOK, Ownership, NEW committed \in AttemptIds,
           NEW target \in Paths, NEW v, Revert(committed, target, v)
    PROVE  Ownership'
<1> DEFINE old == state.attempts[committed]
           id == state.attempt_sequence + 1
           decision == state.decision_sequence + 1
           record == [incumbent |-> old.selected, selected |-> target,
                      basis |-> state.authority, state |-> "committed",
                      revalidations |-> old.revalidations + 1]
           k == Keep(state, id, record)
           s == [k EXCEPT !.attempt_sequence = @ + 1, !.decision_sequence = decision]
           d == LogAttempt(disk, id, record)
           entry == Entry(state, decision, id, "reverted", target)
           r == Remember(s, entry)
<1>t. state \in DurableState
    BY DEF TypeOK
<1>o. Owned(state, mem)
    BY OwnedIsOwnership
<1>1. id \in AttemptIds /\ decision \in Nat
    <2>1. state.attempt_sequence < MaxAttempt
        BY DEF Revert
    <2> QED BY <1>t, <2>1, Fields, MaxAttemptNat DEF AttemptIds
<1>2. record \in Attempt /\ record.state \in TerminalState
    BY <1>t, AttemptFields, Fields DEF Attempt, TerminalState
<1>3. Finish(r, LogLineage(d, entry), mem, TRUE) \/ Die(d)
    BY DEF Revert
<1> HIDE DEF id, decision, record, entry
<1>4. /\ ActiveIds(k.attempts) \subseteq ActiveIds(state.attempts)
      /\ \A i \in ActiveIds(k.attempts) : k.attempts[i] = state.attempts[i]
      /\ k.authority = state.authority
      /\ k.fences = state.fences
    BY <1>t, <1>1, <1>2, KeepTerminal
<1>5. k \in DurableState
    BY <1>t, <1>1, <1>2, KeepType
<1> HIDE DEF k, d
<1>6. s \in DurableState /\ s.attempts = k.attempts /\ s.authority = k.authority
      /\ s.fences = k.fences
    <2>1. k.attempt_sequence + 1 \in Nat
        BY <1>5, Fields
    <2> QED BY <1>1, <1>5, <2>1 DEF DurableState
<1> HIDE DEF s
<1>7. r.attempts = s.attempts /\ r.authority = s.authority /\ r.fences = s.fences
    BY <1>6 DEF Remember, DurableState
<1> HIDE DEF r
<1>8. Owned(r, mem)
    BY <1>4, <1>6, <1>7, <1>o DEF Owned, FencedPaths
<1> QED BY <1>3, <1>8, EndsOwned

LEMMA OwnershipStep ==
    ASSUME ~Refusals
    PROVE  TypeOK /\ Ownership /\ [Next]_vars => Ownership'
<1> SUFFICES ASSUME TypeOK, Ownership, [Next]_vars
             PROVE  Ownership'
    OBVIOUS
<1>1. CASE UNCHANGED vars
    BY <1>1, OwnedIsOwnership DEF vars, Owned, FencedPaths
<1>2. CASE Next
    BY <1>2, OpenOwned, IngestOwned, FencePathOwned, BeginPromotionOwned, SettlingOwned,
       RevertOwned DEF Next
<1> QED BY <1>1, <1>2

\* While the store accepts every append, and through any number of crashes in
\* the middle of any handler, at most one attempt owns the transition, it was
\* granted under exactly the current vector, and its path is not fenced: what
\* record_effect commits is what begin_promotion authorised.
THEOREM ExclusiveOwnership ==
    ASSUME ~Refusals
    PROVE  Spec => [](SingleOwner /\ BasisCurrent /\ OwnerNotFenced)
<1>1. Init => Ownership
    <2> SUFFICES ASSUME Init
                 PROVE  Owned(state, mem)
        BY OwnedIsOwnership
    <2>1. ActiveIds(EmptyState.attempts) = {}
        BY DEF ActiveIds, EmptyState, NoAttempt, ActiveState
    <2> QED BY <2>1, IdleOwned DEF Init
<1>2. Ownership => SingleOwner /\ BasisCurrent /\ OwnerNotFenced
    BY DEF Ownership
<1> QED BY <1>1, <1>2, TypeCorrect, OwnershipStep, PTL DEF Spec

-----------------------------------------------------------------------------
(* What "current" means, and what a commit rests on. *)

\* Only a vector that names every field of the current one, and no absent
\* field, is classified current.
LEMMA CurrentMeansEqual ==
    ASSUME NEW supplied \in AuthorityVector, NEW current \in AuthorityVector,
           Classify(supplied, current) = "current"
    PROVE  supplied = current /\ \A f \in DOMAIN NoAuthority : current[f] # 0
<1>1. /\ ClassifyGeneration(supplied.topology, current.topology) = "current"
      /\ ClassifyGeneration(supplied.path_authority, current.path_authority) = "current"
      /\ ClassifyGeneration(supplied.policy, current.policy) = "current"
      /\ ClassifyGeneration(supplied.obligations, current.obligations) = "current"
      /\ ClassifyGeneration(supplied.epoch, current.epoch) = "current"
      /\ ClassifyBoot(supplied.boot, current.boot) = "current"
    BY DEF Classify, FieldClasses, ClassifyGeneration, ClassifyBoot
<1>2. \A a, b : ClassifyGeneration(a, b) = "current" => a = b /\ b # 0
    BY DEF ClassifyGeneration
<1>3. \A a, b : ClassifyBoot(a, b) = "current" => a = b /\ b # 0
    BY DEF ClassifyBoot
<1> QED BY <1>1, <1>2, <1>3 DEF AuthorityVector, NoAuthority

\* record_effect never reads the basis of the attempt it commits; it commits
\* only an effect observed under exactly that basis all the same, because the
\* attempt in flight is always granted under the current vector.
THEOREM EffectUnderGrant ==
    ASSUME TypeOK, BasisCurrent, NEW id \in AttemptIds, NEW seq,
           NEW observed_under \in AuthorityVector, RecordEffect(id, seq, observed_under)
    PROVE  observed_under = state.attempts[id].basis
<1>1. state.authority \in AuthorityVector
    BY Fields DEF TypeOK
<1>2. observed_under = state.authority
    BY <1>1, CurrentMeansEqual DEF RecordEffect
<1>3. id \in ActiveIds(state.attempts)
    BY DEF RecordEffect, ActiveIds
<1> QED BY <1>2, <1>3 DEF BasisCurrent
=============================================================================
