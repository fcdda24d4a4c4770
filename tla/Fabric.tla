------------------------------- MODULE Fabric -------------------------------
(***************************************************************************)
(* The coordinator, src/src/fabric.cpp: one promotion at a time, granted   *)
(* under an authority vector, fenced when that vector changes, committed   *)
(* on a verified effect, and recovered from a journal after a crash.       *)
(*                                                                         *)
(* Every handler of Fabric holds one mutex from its first to its last line *)
(* so a handler is one action.  What is not atomic is its sequence of      *)
(* journal appends: a crash between two of them, or one that is refused,   *)
(* leaves an image on disk (or a memory) that the handler never finished.  *)
(* Each action therefore has, next to its normal end, a disjunct per such  *)
(* point: Die(d) is a crash that leaves the image d on disk, and the       *)
(* disjuncts guarded by Refusals are appends that Store::append refuses    *)
(* before it writes anything (src/src/store.cpp:741-764: the journal's     *)
(* bound, a closed store, an encoding that failed).  An append that fails  *)
(* later, in fwrite or in the flush, may leave its record behind; that is  *)
(* not modelled here, and module Store shows that the record acknowledged  *)
(* next is then lost, whatever the handlers do.                            *)
(*                                                                         *)
(* disk is what Store::load would return: the Log operators below are the  *)
(* cases of apply_record (src/src/store.cpp), applied as records are       *)
(* appended.  Framing, checksums, torn tails and sequence numbers belong   *)
(* to the store, not to this module.                                       *)
(*                                                                         *)
(* Simplifications.  Calls that are refused and change nothing are         *)
(* stuttering steps.  Statistics, reasons, provenance, the set an attempt  *)
(* drew from, restart_count and last_sequence are dropped.  The selector   *)
(* is represented by what it may answer (Promotable).  A set keeps its     *)
(* usable members and one declared vector: a set whose members were        *)
(* declared under different vectors offers the same choices as the set of  *)
(* its current members.  A boot identity is random and fresh, and an open  *)
(* that hands one out has made its epoch durable, so the epoch stands for  *)
(* it.  There are at most limits::max_alternate_sets set identities, the   *)
(* bound that apply_alternate_set and replay share.                        *)
(***************************************************************************)
EXTENDS Authority, Sequences, FiniteSetsExt

CONSTANTS
    Paths,            \* path identities
    NoPath,           \* the absent path identity
    SetIds,           \* alternate set identities
    MaxTopology, MaxPathAuthority, MaxPolicy, MaxObligations,
    MaxSetGeneration, \* bounds on the generations callers supply
    MaxBudget,        \* bound on a policy's max_revalidations
    MaxObservation,   \* bound on observation sequence numbers
    MaxAttempt,       \* bound on attempt identities
    MaxDecision,      \* bound on decision identities
    MaxEpoch,         \* bound on the number of restarts
    MaxRetained,      \* options_.max_retained_attempts
    MaxAttempts,      \* limits::max_attempts
    MaxFences,        \* limits::max_fences
    MaxLineage,       \* limits::max_lineage
    Compaction,       \* does the journal ever reach compaction_journal_bytes?
    Refusals          \* may Store::append refuse a record, nothing written?

ASSUME ConstantsAssumption ==
    /\ NoPath \notin Paths
    /\ \A n \in {MaxTopology, MaxPathAuthority, MaxPolicy, MaxObligations,
                 MaxSetGeneration, MaxBudget, MaxObservation, MaxAttempt,
                 MaxDecision, MaxEpoch, MaxFences} : n \in Nat
    /\ MaxRetained \in Nat \ {0}
    /\ MaxAttempts \in Nat
    /\ MaxRetained <= MaxAttempts
    /\ MaxLineage \in Nat \ {0}
    /\ Compaction \in BOOLEAN
    /\ Refusals \in BOOLEAN

VARIABLES
    up,     \* is there a process that completed Fabric::open?
    state,  \* state_, with attempts_, sets_ and path_fences_
    mem,    \* active_attempt_, grants_ and evidence_: never persisted
    disk,   \* the state Store::load would recover
    arrival \* when each attempt came into that state's vector, 0 if it is not there

vars == <<up, state, mem, disk, arrival>>

-----------------------------------------------------------------------------
(* Data. *)

AttemptIds == 1 .. MaxAttempt
ActiveState == {"claimed", "authorized"}
TerminalState ==
    {"committed", "refused", "fenced", "abandoned", "rolled_back", "interrupted"}

\* "none" marks an identity that is not in the attempt table.
Attempt ==
    [incumbent : Paths \cup {NoPath}, selected : Paths \cup {NoPath},
     basis : AuthorityVector, state : ActiveState \cup TerminalState \cup {"none"},
     revalidations : Nat]

NoAttempt ==
    [incumbent |-> NoPath, selected |-> NoPath, basis |-> NoAuthority,
     state |-> "none", revalidations |-> 0]

Policy == [generation : Nat, max_revalidations : Nat]

AlternateSet ==
    [generation : Nat, members : SUBSET Paths, declared : AuthorityVector]

\* A fence of an attempt has no path, a fence of a path has attempt 0.
Fence == [id : Nat, epoch : Nat, attempt : Nat, path : Paths \cup {NoPath}]

Outcome == {"promoted", "reverted", "rolled_back", "refused", "superseded"}

LineageEntry ==
    [decision : Nat, attempt : Nat, epoch : Nat, outcome : Outcome,
     selected : Paths \cup {NoPath}]

\* Generation 0 stands for has_policy = false, has_obligations = false, and
\* a set that is not in the table.
DurableState ==
    [authority : AuthorityVector, policy : Policy, obligations : Nat,
     sets : [SetIds -> AlternateSet], fences : SUBSET Fence,
     attempts : [AttemptIds -> Attempt], lineage : Seq(LineageEntry),
     attempt_sequence : Nat, fence_sequence : Nat, decision_sequence : Nat]

EmptyState ==
    [authority |-> NoAuthority,
     policy |-> [generation |-> 0, max_revalidations |-> 0],
     obligations |-> 0,
     sets |-> [i \in SetIds |->
                 [generation |-> 0, members |-> {}, declared |-> NoAuthority]],
     fences |-> {}, attempts |-> [i \in AttemptIds |-> NoAttempt],
     lineage |-> <<>>,
     attempt_sequence |-> 0, fence_sequence |-> 0, decision_sequence |-> 0]

\* evidence holds, per path, 1 + the newest observation_seq, 0 for none.  The
\* table never reaches limits::max_evidence_entries.
Memory ==
    [active : Nat, grants : SUBSET Nat, evidence : [Paths -> Nat]]

EmptyMemory ==
    [active |-> 0, grants |-> {}, evidence |-> [p \in Paths |-> 0]]

Larger(m, n) == IF m >= n THEN m ELSE n

ActiveIds(attempts) == {i \in AttemptIds : attempts[i].state \in ActiveState}
Retained(attempts) == {i \in AttemptIds : attempts[i].state # "none"}
TerminalIds(attempts) == {i \in AttemptIds : attempts[i].state \in TerminalState}

\* path_fences_: rebuilt from the fence records on open, extended by fence_path.
FencedPaths(s) == {f.path : f \in s.fences} \ {NoPath}

-----------------------------------------------------------------------------
(* Replay: what each journal record does to the recovered state.           *)

LogPolicy(d, p) ==
    [d EXCEPT !.policy = p, !.authority.policy = p.generation]

LogObligations(d, g) ==
    [d EXCEPT !.obligations = g, !.authority.obligations = g]

LogSet(d, id, set) == [d EXCEPT !.sets[id] = set]

\* Mutant of LogFences: new records replace the table.
LogFencesReplacing(d, fences) == [d EXCEPT !.fences = fences]

LogFences(d, fences) == [d EXCEPT !.fences = @ \cup fences]

\* Records of attempts that are in the table already, or of at most
\* MaxAttempts attempts for an empty one: nothing has to make room.
LogAttempts(d, attempts, ids) ==
    [d EXCEPT !.attempts = [i \in AttemptIds |-> IF i \in ids THEN attempts[i] ELSE @[i]]]

\* Where replay finds something to drop: the first terminal one of the vector.
FirstTerminal(attempts) ==
    CHOOSE i \in TerminalIds(attempts) :
        \A j \in TerminalIds(attempts) : arrival[i] <= arrival[j]

\* Mutant of Evicted: replay makes no room, as it makes none for fences.
EvictedNever(d, id) == {}

\* What makes room for a record of id: nothing if it has a place already, if
\* there is room, or if nothing is terminal.
Evicted(d, id) ==
    {i \in TerminalIds(d.attempts) :
        /\ d.attempts[id].state = "none"
        /\ Cardinality(Retained(d.attempts)) >= MaxAttempts
        /\ i = FirstTerminal(d.attempts)}

\* attempt_begin and attempt_state: the record takes its place or the last one.
LogAttempt(d, id, record) ==
    [d EXCEPT !.attempts = [i \in AttemptIds |->
        IF i = id THEN record ELSE IF i \in Evicted(d, id) THEN NoAttempt ELSE @[i]]]

\* The vector of an image that differs from disk in at most one new attempt.
Arrivals(attempts) ==
    [i \in AttemptIds |->
        IF attempts[i].state = "none" THEN 0
        ELSE IF arrival[i] # 0 THEN arrival[i]
        ELSE 1 + Max({arrival[j] : j \in AttemptIds})]

\* load succeeds.  Where replay answers table_full, for a fence or for an
\* attempt that finds nothing terminal, the operators above go past the bound,
\* and no later record brings the image back.
Loadable(d) ==
    /\ Cardinality(d.fences) <= MaxFences
    /\ Cardinality(Retained(d.attempts)) <= MaxAttempts

\* History is bounded: the oldest entry makes room.
Remembered(lineage, entry) ==
    Append(IF Len(lineage) >= MaxLineage THEN Tail(lineage) ELSE lineage, entry)

\* Mutant of LogLineage: replay does not bound the history.
LogLineageUnbounded(d, entry) == [d EXCEPT !.lineage = Append(@, entry)]

LogLineage(d, entry) == [d EXCEPT !.lineage = Remembered(@, entry)]

\* epoch_advance carries the whole vector and the three counters; no other
\* record carries a counter.
LogEpoch(d, s) ==
    [d EXCEPT !.authority = s.authority,
              !.attempt_sequence = Larger(@, s.attempt_sequence),
              !.fence_sequence = Larger(@, s.fence_sequence),
              !.decision_sequence = Larger(@, s.decision_sequence)]

\* Mutant of Snapshot: only attempts in flight are kept.
SnapshotOfActive(s) ==
    LET policy == LogPolicy(LogEpoch(EmptyState, s), s.policy)
        obligations == LogObligations(policy, s.obligations)
        attempts == LogAttempts(LogFences(obligations, s.fences), s.attempts,
                                ActiveIds(s.attempts))
    IN  [attempts EXCEPT !.sets = s.sets, !.lineage = s.lineage]

\* What decode_snapshot makes of encode_snapshot: a record for everything that
\* is there, in this order, replayed into an empty state.
Snapshot(s) ==
    LET counters == LogEpoch(EmptyState, s)
        policy == IF s.policy.generation = 0 THEN counters ELSE LogPolicy(counters, s.policy)
        obligations == IF s.obligations = 0 THEN policy
                       ELSE LogObligations(policy, s.obligations)
        sets == [obligations EXCEPT !.sets = [i \in SetIds |->
                   IF s.sets[i].generation = 0 THEN @[i] ELSE s.sets[i]]]
        attempts == LogAttempts(LogFences(sets, s.fences), s.attempts, Retained(s.attempts))
        lineage[n \in 0 .. Len(s.lineage)] ==
            IF n = 0 THEN attempts ELSE LogLineage(lineage[n - 1], s.lineage[n])
    IN  lineage[Len(s.lineage)]

-----------------------------------------------------------------------------
(* How a handler ends. *)

\* It answers, leaving state s and memory m; the image on disk is d.
Answer(s, d, m) ==
    /\ up' = TRUE
    /\ state' = s
    /\ disk' = d
    /\ arrival' = Arrivals(d.attempts)
    /\ mem' = m

\* write_snapshot: the image is the state in memory, which is what a snapshot
\* decodes to (SnapshotFaithful), with the attempts in the order of the map.
Compact(s, m) ==
    /\ up' = TRUE
    /\ state' = s
    /\ disk' = s
    /\ arrival' = [i \in AttemptIds |-> IF s.attempts[i].state = "none" THEN 0 ELSE i]
    /\ mem' = m

\* compact_if_needed_locked is its last call.
Finish(s, d, m, compacts) ==
    \/ Answer(s, d, m)
    \/ compacts /\ Compaction /\ Compact(s, m)

\* The process dies: memory is gone, the appended records stay.
Die(d) ==
    /\ up' = FALSE
    /\ state' = EmptyState
    /\ disk' = d
    /\ arrival' = Arrivals(d.attempts)
    /\ mem' = EmptyMemory

-----------------------------------------------------------------------------
(* The attempt table. *)

\* retain_attempt_locked cannot make room: nothing in the table is terminal.
TableFull(attempts, id) ==
    /\ attempts[id].state = "none"
    /\ Cardinality(Retained(attempts)) >= MaxRetained
    /\ TerminalIds(attempts) = {}

\* A new record evicts the oldest terminal one when the table is full.
WithRoom(attempts, id) ==
    IF attempts[id].state # "none" \/ Cardinality(Retained(attempts)) < MaxRetained
    THEN attempts
    ELSE [attempts EXCEPT ![Min(TerminalIds(attempts))] = NoAttempt]

\* What persist_attempt_locked does to memory once the append succeeded.
Keep(s, id, record) ==
    [s EXCEPT !.attempts = [WithRoom(@, id) EXCEPT ![id] = record],
              !.attempt_sequence = Larger(@, id)]

Entry(s, decision, id, outcome, selected) ==
    [decision |-> decision, attempt |-> id, epoch |-> s.authority.epoch,
     outcome |-> outcome, selected |-> selected]

Remember(s, entry) == [s EXCEPT !.lineage = Remembered(@, entry)]

-----------------------------------------------------------------------------
(* Stopping attempts: the loops of open, fence_attempts_locked and          *)
(* fence_path, which take the attempts in identity order and write an       *)
(* attempt record and (not for fence_path) a fence record for each.         *)

Prefixes(ids) ==
    {T \in SUBSET ids : \A i \in T, j \in ids \ T : i < j}

\* How far the loop can be: the attempts whose record is written, and those
\* whose fence is written too.
Progress(ids) ==
    {p \in Prefixes(ids) \X Prefixes(ids) :
        p[2] \subseteq p[1] /\ Cardinality(p[1] \ p[2]) <= 1}

Stopped(attempts, ids, how) ==
    [i \in AttemptIds |->
        IF i \in ids THEN [attempts[i] EXCEPT !.state = how] ELSE attempts[i]]

\* record_fence_locked numbers the fences from the next identity on.
AttemptFences(s, ids) ==
    {[id |-> s.fence_sequence + Cardinality({j \in ids : j <= i}),
      epoch |-> s.authority.epoch, attempt |-> i, path |-> NoPath] : i \in ids}

Stop(s, ids, fenced, how) ==
    [s EXCEPT !.attempts = Stopped(@, ids, how),
              !.attempt_sequence = Max({@} \cup ids),
              !.fences = @ \cup AttemptFences(s, fenced),
              !.fence_sequence = @ + Cardinality(fenced)]

LogStop(d, s, ids, fenced, how) ==
    LogFences(LogAttempts(d, Stopped(s.attempts, ids, how), ids),
              AttemptFences(s, fenced))

Room(s) == MaxFences - Cardinality(s.fences)

\* fence_attempts_locked: every attempt in flight is fenced.  A full fence
\* table ends the loop early, before the owner is released.
FenceAttempts(s, d, compacts) ==
    LET ids == ActiveIds(s.attempts)
        released == IF ids = {} THEN mem
                    ELSE [mem EXCEPT !.active = 0, !.grants = @ \ ids]
    IN  \/ /\ Cardinality(ids) <= Room(s)
           /\ Finish(Stop(s, ids, ids, "fenced"), LogStop(d, s, ids, ids, "fenced"),
                     released, compacts)
        \/ /\ Cardinality(ids) > Room(s)
           /\ \E p \in Progress(ids) :
                /\ Cardinality(p[2]) = Room(s) /\ Cardinality(p[1]) = Room(s) + 1
                /\ Answer(Stop(s, p[1], p[2], "fenced"),
                          LogStop(d, s, p[1], p[2], "fenced"), mem)
        \/ \E p \in Progress(ids) :
                /\ Cardinality(p[2]) <= Room(s)
                /\ Die(LogStop(d, s, p[1], p[2], "fenced"))
        \* The attempt or the fence record of one attempt cannot be appended.
        \/ /\ Refusals
           /\ \E p \in Progress(ids), written \in Prefixes(ids) :
                /\ Cardinality(p[1]) = Cardinality(p[2]) + 1
                /\ Cardinality(p[2]) <= Room(s)
                /\ written \in {p[1], p[2]}
                /\ Answer(Stop(s, p[1], p[2], "fenced"),
                          LogStop(d, s, written, p[2], "fenced"), mem)

-----------------------------------------------------------------------------
(* Life cycle. *)

Init ==
    /\ up = FALSE
    /\ state = EmptyState
    /\ mem = EmptyMemory
    /\ disk = EmptyState
    /\ arrival = [i \in AttemptIds |-> 0]

\* Mutant of Open: the new epoch is never appended.
OpenVolatileEpoch ==
    /\ ~up
    /\ disk.authority.epoch < MaxEpoch
    /\ LET epoch == disk.authority.epoch + 1
           s == [disk EXCEPT !.authority.epoch = epoch, !.authority.boot = epoch]
       IN  Answer(s, disk, EmptyMemory)

\* open: the epoch advances durably before anything else; what was in flight
\* is interrupted and fenced.  A full fence table makes open fail.
Open ==
    /\ ~up
    /\ Loadable(disk)
    /\ disk.authority.epoch < MaxEpoch
    /\ LET epoch == disk.authority.epoch + 1
           s == [disk EXCEPT !.authority.epoch = epoch, !.authority.boot = epoch]
           d == LogEpoch(disk, s)
           ids == ActiveIds(s.attempts)
       IN  \/ /\ Cardinality(ids) <= Room(s)
              /\ Finish(Stop(s, ids, ids, "interrupted"),
                        LogStop(d, s, ids, ids, "interrupted"), EmptyMemory, TRUE)
           \/ \E p \in Progress(ids) :
                /\ Cardinality(p[2]) <= Room(s)
                /\ Die(LogStop(d, s, p[1], p[2], "interrupted"))

\* Mutant of Crash: what is volatile is kept.
CrashKeepingMemory == up /\ up' = FALSE /\ UNCHANGED <<state, mem, disk, arrival>>

\* The process dies between two calls, or is shut down.
Crash == up /\ Die(disk)

-----------------------------------------------------------------------------
(* Ingest. *)

\* apply_policy: only a newer generation installs; the others change nothing.
ApplyPolicy(p) ==
    /\ up
    /\ p.generation > state.policy.generation
    /\ FenceAttempts([state EXCEPT !.policy = p, !.authority.policy = p.generation],
                     LogPolicy(disk, p), TRUE)

ApplyObligations(g) ==
    /\ up
    /\ g > state.obligations
    /\ FenceAttempts([state EXCEPT !.obligations = g, !.authority.obligations = g],
                     LogObligations(disk, g), TRUE)

\* apply_alternate_set: a candidate set is not authority, nothing is fenced.
ApplyAlternateSet(id, set) ==
    /\ up
    /\ set.generation > state.sets[id].generation
    /\ Finish([state EXCEPT !.sets[id] = set], LogSet(disk, id, set), mem, TRUE)

ApplyEvidence(path, seq) ==
    /\ up
    /\ seq > mem.evidence[path]
    /\ Answer(state, disk, [mem EXCEPT !.evidence[path] = seq])

\* Mutant of SetAuthority: nothing is fenced.
SetAuthorityUnfenced(topology, path_authority) ==
    /\ up
    /\ topology >= state.authority.topology
    /\ path_authority >= state.authority.path_authority
    /\ LET s == [state EXCEPT !.authority.topology = topology,
                              !.authority.path_authority = path_authority]
       IN  Finish(s, LogEpoch(disk, s), mem, TRUE)

\* set_authority: memory moves before the record is appended, so an append that
\* is refused leaves the new vector behind with nothing fenced.
SetAuthority(topology, path_authority) ==
    /\ up
    /\ topology >= state.authority.topology
    /\ path_authority >= state.authority.path_authority
    /\ <<topology, path_authority>> #
          <<state.authority.topology, state.authority.path_authority>>
    /\ LET s == [state EXCEPT !.authority.topology = topology,
                              !.authority.path_authority = path_authority]
       IN  \/ FenceAttempts(s, LogEpoch(disk, s), TRUE)
           \/ Refusals /\ Answer(s, disk, mem)

\* fence_path: the fence of the path first, then the attempts that target it.
FencePath(path) ==
    /\ up
    /\ path \notin FencedPaths(state)
    /\ Room(state) > 0
    /\ LET fence == [id |-> state.fence_sequence + 1, epoch |-> state.authority.epoch,
                     attempt |-> 0, path |-> path]
           s == [state EXCEPT !.fences = @ \cup {fence}, !.fence_sequence = @ + 1]
           d == LogFences(disk, {fence})
           ids == {i \in ActiveIds(s.attempts) : s.attempts[i].selected = path}
           Freed(done) ==
               [mem EXCEPT !.grants = @ \ done, !.active = IF @ \in done THEN 0 ELSE @]
       IN  \/ Finish(Stop(s, ids, {}, "fenced"), LogStop(d, s, ids, {}, "fenced"),
                     Freed(ids), TRUE)
           \/ \E done \in Prefixes(ids) : Die(LogStop(d, s, done, {}, "fenced"))
           \/ /\ Refusals
              /\ \E p \in Progress(ids) :
                   /\ Cardinality(p[1]) = Cardinality(p[2]) + 1
                   /\ Answer(Stop(s, p[1], {}, "fenced"),
                             LogStop(d, s, p[2], {}, "fenced"), Freed(p[2]))

FenceAll == up /\ FenceAttempts(state, disk, FALSE)

-----------------------------------------------------------------------------
(* Decisions. *)

\* Mutant of Promotable: the fence gate is missing.
PromotableFenced(s, set, incumbent) ==
    {p \in s.sets[set].members \ {incumbent} :
        Classify(s.sets[set].declared, s.authority) = "current"}

\* The paths Selector::evaluate may authorize: members that are not the
\* incumbent, not fenced, and declared under the current vector.
Promotable(s, set, incumbent) ==
    {p \in s.sets[set].members :
        /\ p # incumbent
        /\ p \notin FencedPaths(s)
        /\ Classify(s.sets[set].declared, s.authority) = "current"}

\* select_locked refuses before it looks at a candidate.
Structural(s, set) ==
    s.sets[set].generation = 0 \/ s.policy.generation = 0 \/ s.obligations = 0

\* evaluate: a recommendation; only the decision counter moves, in memory.
Evaluate ==
    /\ up
    /\ state.decision_sequence < MaxDecision
    /\ Answer([state EXCEPT !.decision_sequence = @ + 1], disk, mem)

\* Mutant of Contended: a granted attempt does not count.
ContendedByClaim == mem.active # 0 /\ state.attempts[mem.active].state = "claimed"

\* Somebody owns the transition.
Contended ==
    mem.active # 0 /\ state.attempts[mem.active].state \in ActiveState

\* begin_promotion once admitted.  path is NoPath when the selector refused.
Begin(s, m, id, incumbent, path) ==
    LET Record(st) ==
            [incumbent |-> incumbent, selected |-> path, basis |-> s.authority,
             state |-> st, revalidations |-> 0]
        Numbered(r) == [Keep(s, id, r) EXCEPT !.attempt_sequence = @ + 1]
        d1 == LogAttempt(disk, id, Record("claimed"))
        final == IF path = NoPath THEN Record("refused") ELSE Record("authorized")
        d2 == LogAttempt(d1, id, final)
        entry == Entry(s, s.decision_sequence, id, "refused", NoPath)
    IN  \/ Refusals /\ Answer(s, disk, m)
        \/ /\ TableFull(s.attempts, id)
           /\ Answer([s EXCEPT !.attempt_sequence = Larger(@, id)], d1, m)
        \/ /\ ~TableFull(s.attempts, id)
           /\ \/ Die(d1)
              \/ Refusals /\ Answer(Numbered(Record("claimed")), d1, m)
              \/ /\ path # NoPath
                 /\ Finish(Numbered(final), d2,
                           [m EXCEPT !.active = id, !.grants = @ \cup {id}], TRUE)
              \/ /\ path = NoPath
                 /\ \/ Finish(Remember(Numbered(final), entry),
                              LogLineage(d2, entry), m, TRUE)
                    \/ Die(d2)
                    \/ Refusals /\ Answer(Numbered(final), d2, m)

\* begin_promotion: admission, selection, then the attempt's records.
BeginPromotion(incumbent, set) ==
    /\ up
    /\ ~Contended
    /\ state.attempt_sequence < MaxAttempt
    /\ state.decision_sequence < MaxDecision
    /\ LET s == [state EXCEPT !.decision_sequence = @ + 1]
           m == [mem EXCEPT !.active = 0]
       IN  \/ Structural(s, set) /\ Answer(s, disk, m)
           \/ /\ ~Structural(s, set)
              /\ \E path \in Promotable(s, set, incumbent) \cup {NoPath} :
                    Begin(s, m, state.attempt_sequence + 1, incumbent, path)

\* Mutant of Settle: the lineage entry is appended first.
SettleLineageFirst(id, record, entry, released) ==
    LET s == Keep(state, id, record)
        d == LogLineage(disk, entry)
    IN  \/ Finish(Remember(s, entry), LogAttempt(d, id, record), released, TRUE)
        \/ Die(d)

\* The tail shared by record_effect, abandon_attempt and rollback: the record
\* changes in memory, then its journal record, the lineage entry, the release.
Settle(id, record, entry, released) ==
    LET s == Keep(state, id, record)
        d == LogAttempt(disk, id, record)
    IN  \/ Finish(Remember(s, entry), LogLineage(d, entry), released, TRUE)
        \/ Die(d)
        \/ Refusals /\ (Answer(s, disk, mem) \/ Answer(s, d, mem))

\* Mutant of Released: the grant outlives its attempt.
ReleasedOwnerOnly(id) == [mem EXCEPT !.active = IF @ = id THEN 0 ELSE @]

Released(id) ==
    [mem EXCEPT !.grants = @ \ {id}, !.active = IF @ = id THEN 0 ELSE @]

\* record_effect: the only operation that commits a granted attempt.
RecordEffect(id, seq, observed_under) ==
    LET record == state.attempts[id]
    IN  /\ up
        /\ record.state \in ActiveState
        /\ mem.active = id
        /\ Classify(observed_under, state.authority) = "current"
        /\ record.selected # NoPath
        /\ seq > mem.evidence[record.selected]
        /\ Settle(id, [record EXCEPT !.state = "committed"],
                  Entry(state, state.decision_sequence, id, "promoted", record.selected),
                  [Released(id) EXCEPT !.evidence[record.selected] = seq])

\* Mutant of AbandonAttempt: the terminal check is missing.
AbandonAnything(id) ==
    /\ up
    /\ state.attempts[id].state # "none"
    /\ Settle(id, [state.attempts[id] EXCEPT !.state = "abandoned"],
              Entry(state, state.decision_sequence, id, "superseded", NoPath),
              Released(id))

\* abandon_attempt does not ask who owns the transition.
AbandonAttempt(id) ==
    /\ up
    /\ state.attempts[id].state \in ActiveState
    /\ Settle(id, [state.attempts[id] EXCEPT !.state = "abandoned"],
              Entry(state, state.decision_sequence, id, "superseded", NoPath),
              Released(id))

\* validate_target_locked: evidence that proves the path fit comes from the
\* caller; whether it does is the caller's choice.
ValidTarget(path, observed_under) ==
    /\ Classify(observed_under, state.authority) = "current"
    /\ path \notin FencedPaths(state)
    /\ state.obligations # 0

BudgetLeft(record) ==
    state.policy.generation # 0 => record.revalidations < state.policy.max_revalidations

Rollback(id, observed_under) ==
    LET record == state.attempts[id]
    IN  /\ up
        /\ record.state \in ActiveState
        /\ mem.active = id
        /\ ValidTarget(record.incumbent, observed_under)
        /\ BudgetLeft(record)
        /\ Settle(id, [record EXCEPT !.state = "rolled_back", !.revalidations = @ + 1],
                  Entry(state, state.decision_sequence, id, "rolled_back", record.selected),
                  Released(id))

\* revert: a new attempt, born committed.
Revert(committed, target, observed_under) ==
    LET old == state.attempts[committed]
        id == state.attempt_sequence + 1
        decision == state.decision_sequence + 1
        record == [incumbent |-> old.selected, selected |-> target,
                   basis |-> state.authority, state |-> "committed",
                   revalidations |-> old.revalidations + 1]
        s == [Keep(state, id, record) EXCEPT !.attempt_sequence = @ + 1,
                                             !.decision_sequence = decision]
        d == LogAttempt(disk, id, record)
        entry == Entry(state, decision, id, "reverted", target)
    IN  /\ up
        /\ old.state = "committed"
        /\ ValidTarget(target, observed_under)
        /\ BudgetLeft(old)
        /\ mem.active = 0
        /\ state.attempt_sequence < MaxAttempt
        /\ state.decision_sequence < MaxDecision
        /\ \/ Finish(Remember(s, entry), LogLineage(d, entry), mem, TRUE)
           \/ Die(d)
           \/ Refusals /\ Answer(s, d, mem)

-----------------------------------------------------------------------------
\* What callers hand in as "observed under": the vector they last read, which
\* is the current one or the one an attempt was granted under.
Observed(id) == {state.authority, state.attempts[id].basis}

Next ==
    \/ Open
    \/ Crash
    \/ \E g \in 1 .. MaxPolicy, b \in 0 .. MaxBudget :
          ApplyPolicy([generation |-> g, max_revalidations |-> b])
    \/ \E g \in 1 .. MaxObligations : ApplyObligations(g)
    \/ \E id \in SetIds, g \in 1 .. MaxSetGeneration, ps \in SUBSET Paths :
          ApplyAlternateSet(id, [generation |-> g, members |-> ps,
                                 declared |-> state.authority])
    \/ \E p \in Paths, q \in 1 .. MaxObservation : ApplyEvidence(p, q)
    \/ \E t \in 0 .. MaxTopology, a \in 0 .. MaxPathAuthority : SetAuthority(t, a)
    \/ \E p \in Paths : FencePath(p)
    \/ FenceAll
    \/ Evaluate
    \/ \E p \in Paths, id \in SetIds : BeginPromotion(p, id)
    \/ \E id \in AttemptIds :
          \/ \E q \in 1 .. MaxObservation, v \in Observed(id) : RecordEffect(id, q, v)
          \/ AbandonAttempt(id)
          \/ \E v \in Observed(id) : Rollback(id, v)
          \/ \E p \in Paths, v \in Observed(id) : Revert(id, p, v)

Spec == Init /\ [][Next]_vars

-----------------------------------------------------------------------------
(* Properties. *)

\* Every variable has its type; the counters are naturals and memory is empty
\* while no process is up.
TypeOK ==
    /\ up \in BOOLEAN
    /\ state \in DurableState
    /\ mem \in Memory
    /\ disk \in DurableState
    /\ arrival \in [AttemptIds -> Nat]
    /\ ~up => state = EmptyState /\ mem = EmptyMemory

\* At most one attempt owns the transition, and active_attempt_ names it: the
\* admission check of begin_promotion looks only at active_attempt_, so an
\* active attempt it does not name would let a second promotion in.
SingleOwner == ActiveIds(state.attempts) \subseteq {mem.active}

\* A grant is never older than the authority it was issued under: whatever
\* moves the vector (policy, obligations, topology, restart) has fenced the
\* attempts bound to the previous one.  record_effect relies on it: it compares
\* the effect with the current vector and never looks at the attempt's basis.
BasisCurrent ==
    \A i \in ActiveIds(state.attempts) : state.attempts[i].basis = state.authority

\* No attempt in flight targets a path that is fenced, whichever came first.
OwnerNotFenced ==
    \A i \in ActiveIds(state.attempts) :
        state.attempts[i].selected \notin FencedPaths(state)

\* An attempt that was told to stop has released the transition and its grant,
\* except after a full fence table ended fence_attempts_locked early.
OwnerReleased ==
    Cardinality(state.fences) < MaxFences =>
        /\ mem.active # 0 => state.attempts[mem.active].state \in ActiveState
        /\ mem.grants = {mem.active} \ {0}

\* What memory relies on is what a restart would recover: two separate pieces
\* of code, the handlers and apply_record, reach the same state.  The same
\* attempts are in flight.  Of the ended ones memory and replay do not keep the
\* same: memory drops the lowest identity and replay the earliest record, but
\* only when MaxAttempts are on disk, and what both keep is the same.  Counters
\* may be behind.
RecoveryAgrees ==
    up =>
        /\ disk.authority = state.authority
        /\ disk.policy = state.policy
        /\ disk.obligations = state.obligations
        /\ disk.sets = state.sets
        /\ disk.fences = state.fences
        /\ disk.lineage = state.lineage
        /\ ActiveIds(disk.attempts) = ActiveIds(state.attempts)
        /\ \A i \in Retained(state.attempts) :
              \/ disk.attempts[i] = state.attempts[i]
              \/ /\ i \in TerminalIds(state.attempts)
                 /\ disk.attempts[i] = NoAttempt
                 /\ Cardinality(Retained(disk.attempts)) >= MaxAttempts

\* The store can always be opened again: no handler appends a fence or an
\* attempt that replay would have no room for, although replay has bounds of
\* its own and the attempts in the image are not the ones in memory.
Reopens == Loadable(disk)

\* Compaction changes nothing: every part of the state is in the snapshot, and
\* the order of its records (the vector first, then the policy and obligations
\* that overwrite two of its fields) leads back to the state it was taken of.
SnapshotFaithful == up => Snapshot(state) = state

\* The journal never tells of a promotion that its attempt record denies: the
\* record is written before the lineage entry.  An identity that a later
\* incarnation took over is somebody else's record.
LineageBacked ==
    \A k \in DOMAIN disk.lineage :
        LET e == disk.lineage[k]
            r == IF e.attempt \in AttemptIds THEN disk.attempts[e.attempt] ELSE NoAttempt
        IN  e.outcome \in {"promoted", "reverted"} /\ r.basis.epoch = e.epoch =>
                r.state = "committed" /\ r.selected = e.selected

\* A fence, once it counts, is never lost: not by a handler, not by a crash in
\* the middle of one, not by a restart or a snapshot.
FencesAreForever == [][state.fences \cup disk.fences \subseteq disk'.fences]_vars

\* No generation a caller saw is ever taken back, by a crash and a restart
\* either.
AuthorityNeverRegresses ==
    [][\A f \in DOMAIN NoAuthority :
          /\ disk.authority[f] <= disk'.authority[f]
          /\ up => state.authority[f] <= disk'.authority[f]]_vars

\* A terminal attempt stays as it ended for as long as its identity is its
\* own: no late effect, abandon, rollback, fence or restart rewrites it.
TerminalIsFinal ==
    [][\A i \in AttemptIds :
          LET old == disk.attempts[i]
              new == disk'.attempts[i]
          IN  old.state \in TerminalState /\ new.basis.epoch = old.basis.epoch => new = old]_vars

-----------------------------------------------------------------------------
(* A claim of the documentation that the code does not keep. *)

\* docs/AUTHORITY_MODEL.md: begin_promotion allocates a monotonic attempt
\* identity.  The history would then never name one identity in two epochs.
AttemptIdentityUnique ==
    \A j, k \in DOMAIN disk.lineage :
        disk.lineage[j].attempt = disk.lineage[k].attempt =>
            disk.lineage[j].epoch = disk.lineage[k].epoch
=============================================================================
