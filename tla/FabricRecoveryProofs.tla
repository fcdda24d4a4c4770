------------------------- MODULE FabricRecoveryProofs -------------------------
(***************************************************************************)
(* Theorems about what Fabric leaves on disk and in memory: the handlers   *)
(* and the replay of their journal records stay in step, an image only     *)
(* moves forward, and what an attempt held is released when it ends.       *)
(*                                                                         *)
(* The argument is about pairs (s, d) of a state in memory and an image on *)
(* disk.  Each handler ends with such a pair (or dies leaving its image),  *)
(* so that the invariant and the action properties are shown of the pairs  *)
(* that handlers build, once, whatever follows.  Unless a theorem says     *)
(* otherwise the store may refuse appends (nothing is written then), and   *)
(* the journal may be compacted.                                           *)
(***************************************************************************)
EXTENDS FabricProofs, SequenceTheorems

-----------------------------------------------------------------------------
(* The attempt table and the history. *)

Entries(lineage) == {lineage[k] : k \in DOMAIN lineage}

\* A record was written in an epoch that has begun; an absent one is empty.
Known(r, epoch) ==
    /\ r.basis.epoch <= epoch
    /\ r.state = "none" => r = NoAttempt
    /\ r.state # "none" => r.basis.epoch > 0

\* LineageBacked, of one entry.
Backs(attempts, e) ==
    /\ e.outcome \in {"promoted", "reverted"}
    /\ e.attempt \in AttemptIds
    /\ attempts[e.attempt].basis.epoch = e.epoch
    => attempts[e.attempt].state = "committed" /\ attempts[e.attempt].selected = e.selected

\* An attempt table and the entries L of a history that go together.
Sound(epoch, attempts, L) ==
    /\ \A i \in AttemptIds : Known(attempts[i], epoch)
    /\ \A e \in L : e.epoch > 0 /\ e.epoch <= epoch /\ Backs(attempts, e)

\* The table sa in memory, with the counter seq, next to the table da on disk.
\* Identities of this epoch are behind the counter, so that the next one is
\* new; what ended on disk ended the same way in memory, or was evicted there;
\* what is in flight in memory is on disk.
InStep(epoch, seq, sa, da, L) ==
    /\ epoch > 0
    /\ Sound(epoch, sa, L)
    /\ Sound(epoch, da, L)
    /\ \A i \in AttemptIds :
          sa[i].basis.epoch = epoch \/ da[i].basis.epoch = epoch => i <= seq
    /\ \A e \in L : e.epoch = epoch => e.attempt <= seq
    /\ \A i \in AttemptIds :
          da[i].state \in TerminalState /\ sa[i].state # "none" => sa[i] = da[i]
    /\ \A i \in AttemptIds : sa[i].state \in ActiveState => da[i] = sa[i]

\* r stands where a stood: the same, or nothing, or another epoch's record.
Succeeds(a, r) == r = a \/ r.basis.epoch # a.basis.epoch

\* A step from the table da on disk to sb in memory and db on disk: what ended
\* stays as it is, unless it was evicted or another epoch took its identity.
Final(da, sb, db) ==
    \A i \in AttemptIds :
        da[i].state \in TerminalState => Succeeds(da[i], sb[i]) /\ Succeeds(da[i], db[i])

\* The tables when no append was refused: the same attempts are in flight, and
\* replay has dropped only what had ended, with MaxAttempts in the table.
Agree(sa, da) ==
    /\ \A i \in AttemptIds : da[i].state \in ActiveState => sa[i] = da[i]
    /\ \A i \in AttemptIds :
          \/ sa[i].state = "none"
          \/ da[i] = sa[i]
          \/ /\ sa[i].state \in TerminalState
             /\ da[i] = NoAttempt
             /\ Cardinality(Retained(da)) >= MaxAttempts

-----------------------------------------------------------------------------
(* States and images. *)

NoSet == [generation |-> 0, members |-> {}, declared |-> NoAuthority]

\* What is told twice is told alike, and what is absent is empty.
Coherent(s) ==
    /\ s.authority.policy = s.policy.generation
    /\ s.authority.obligations = s.obligations
    /\ s.authority.boot = s.authority.epoch
    /\ s.policy.generation = 0 => s.policy.max_revalidations = 0
    /\ \A i \in SetIds : s.sets[i].generation = 0 => s.sets[i] = NoSet
    /\ Len(s.lineage) <= MaxLineage

\* What no refused append can tear apart.
Same(s, d) ==
    /\ s.fences = d.fences
    /\ s.lineage = d.lineage
    /\ s.policy = d.policy
    /\ s.obligations = d.obligations
    /\ s.sets = d.sets
    /\ s.authority.epoch = d.authority.epoch

\* What one can.
Exact(s, d) ==
    /\ s.authority = d.authority
    /\ Agree(s.attempts, d.attempts)

Image(d) == Coherent(d) /\ Sound(d.authority.epoch, d.attempts, Entries(d.lineage))

Paired(s, d) ==
    /\ Same(s, d)
    /\ Coherent(s)
    /\ Coherent(d)
    /\ InStep(s.authority.epoch, s.attempt_sequence, s.attempts, d.attempts,
              Entries(d.lineage))
    /\ ~Refusals => Exact(s, d)

\* The inductive invariant.
RecoveryInv == Image(disk) /\ (up => Paired(state, disk))

\* No field of a vector is behind.
NoLess(a, b) == \A f \in DOMAIN NoAuthority : a[f] <= b[f]

\* How an image d is followed by the memory s and the image e.
Follows(d, s, e) ==
    /\ d.fences \subseteq e.fences
    /\ Final(d.attempts, s.attempts, e.attempts)
    /\ ~Refusals => NoLess(d.authority, e.authority)

\* The action properties, of one step.
Onward ==
    /\ disk.fences \subseteq disk'.fences
    /\ \A i \in AttemptIds :
          disk.attempts[i].state \in TerminalState
            /\ disk'.attempts[i].basis.epoch = disk.attempts[i].basis.epoch
          => disk'.attempts[i] = disk.attempts[i]
    /\ ~Refusals => NoLess(disk.authority, disk'.authority)

-----------------------------------------------------------------------------
(* What may be done to an attempt table. *)

LEMMA TableFields ==
    ASSUME NEW a \in [AttemptIds -> Attempt], NEW i \in AttemptIds
    PROVE  /\ a[i] \in Attempt
           /\ a[i].basis.epoch \in Nat
           /\ a[i].state \in ActiveState \cup TerminalState \cup {"none"}
BY DEF Attempt, AuthorityVector

LEMMA StatesDisjoint ==
    /\ NoAttempt.state = "none" /\ NoAttempt.basis.epoch = 0
    /\ \A st \in ActiveState : st \notin TerminalState /\ st # "none" /\ st # "committed"
    /\ \A st \in TerminalState : st # "none"
BY DEF NoAttempt, NoAuthority, ActiveState, TerminalState

\* A record that ended is succeeded by its absence.
LEMMA Dropped ==
    ASSUME NEW r, NEW epoch, Known(r, epoch), r.state \in TerminalState,
           NEW u \in {NoAttempt, r}
    PROVE  Succeeds(r, u)
BY StatesDisjoint DEF Known, Succeeds

\* Attempts in flight end: those that change in memory keep their basis, and
\* what is written is what memory holds.
Closes(sa, da, sb, db) ==
    \A i \in AttemptIds :
        /\ \/ sb[i] = sa[i]
           \/ /\ sa[i].state \in ActiveState
              /\ sb[i].state \in TerminalState
              /\ sb[i].basis = sa[i].basis
        /\ db[i] = da[i] \/ (sa[i].state \in ActiveState /\ db[i] = sb[i])

LEMMA CloseSome ==
    ASSUME NEW epoch \in Nat, NEW seq \in Nat, NEW more \in Nat, more >= seq, NEW L,
           NEW sa \in [AttemptIds -> Attempt], NEW da \in [AttemptIds -> Attempt],
           NEW sb \in [AttemptIds -> Attempt], NEW db \in [AttemptIds -> Attempt],
           InStep(epoch, seq, sa, da, L), L \subseteq LineageEntry, Closes(sa, da, sb, db)
    PROVE  InStep(epoch, more, sb, db, L) /\ Final(da, sb, db)
<1> USE MaxAttemptNat DEF Closes
<1>1. \A e \in L : e.attempt \in Nat
    BY DEF LineageEntry
<1>2. ASSUME NEW i \in AttemptIds
      PROVE  Known(sb[i], epoch) /\ Known(db[i], epoch)
    <2>1. Known(sa[i], epoch) /\ Known(da[i], epoch)
        BY DEF InStep, Sound
    <2>2. Known(sb[i], epoch)
        <3>1. CASE sb[i] = sa[i]
            BY <2>1, <3>1
        <3>2. CASE sb[i] # sa[i]
            BY <2>1, <3>2, StatesDisjoint DEF Known
        <3> QED BY <3>1, <3>2
    <2> QED BY <2>1, <2>2
<1>3. ASSUME NEW e \in L
      PROVE  Backs(sb, e) /\ Backs(db, e)
    <2>1. Backs(sa, e) /\ Backs(da, e)
        BY DEF InStep, Sound
    <2>2. Backs(sb, e)
        <3> SUFFICES ASSUME e.outcome \in {"promoted", "reverted"}, e.attempt \in AttemptIds,
                            sb[e.attempt].basis.epoch = e.epoch
                     PROVE  sb[e.attempt].state = "committed"
                            /\ sb[e.attempt].selected = e.selected
            BY DEF Backs
        <3>1. sa[e.attempt].basis.epoch = e.epoch
            OBVIOUS
        <3>2. sa[e.attempt].state = "committed" /\ sa[e.attempt].selected = e.selected
            BY <2>1, <3>1 DEF Backs
        <3>3. sb[e.attempt] = sa[e.attempt]
            BY <3>2, StatesDisjoint
        <3> QED BY <3>2, <3>3
    <2>3. Backs(db, e)
        <3> SUFFICES ASSUME e.outcome \in {"promoted", "reverted"}, e.attempt \in AttemptIds,
                            db[e.attempt].basis.epoch = e.epoch
                     PROVE  db[e.attempt].state = "committed"
                            /\ db[e.attempt].selected = e.selected
            BY DEF Backs
        <3>1. CASE db[e.attempt] = da[e.attempt]
            BY <2>1, <3>1 DEF Backs
        <3>2. CASE db[e.attempt] = sb[e.attempt]
            BY <2>2, <3>2 DEF Backs
        <3> QED BY <3>1, <3>2
    <2> QED BY <2>2, <2>3
<1>4. Sound(epoch, sb, L) /\ Sound(epoch, db, L)
    BY <1>2, <1>3 DEF InStep, Sound
<1>5. ASSUME NEW i \in AttemptIds, sb[i].basis.epoch = epoch \/ db[i].basis.epoch = epoch
      PROVE  i <= more
    <2>1. sa[i].basis.epoch = epoch \/ da[i].basis.epoch = epoch
        BY <1>5
    <2>2. i <= seq /\ i \in Nat
        BY <2>1 DEF InStep
    <2> QED BY <2>2
<1>6. ASSUME NEW e \in L, e.epoch = epoch
      PROVE  e.attempt <= more
    <2>1. e.attempt <= seq /\ e.attempt \in Nat
        BY <1>1, <1>6 DEF InStep
    <2> QED BY <2>1
<1>7. ASSUME NEW i \in AttemptIds, da[i].state \in TerminalState
      PROVE  /\ db[i] = da[i]
             /\ sb[i] = sa[i]
             /\ Succeeds(da[i], sa[i])
    <2>1. sa[i] \in {NoAttempt, da[i]}
        BY <1>7 DEF InStep, Sound, Known
    <2>2. sa[i].state \notin ActiveState
        BY <1>7, <2>1, StatesDisjoint
    <2>3. Succeeds(da[i], sa[i])
        BY <1>7, <2>1, Dropped DEF InStep, Sound
    <2> QED BY <2>2, <2>3
<1>8. ASSUME NEW i \in AttemptIds, db[i].state \in TerminalState, sb[i].state # "none"
      PROVE  sb[i] = db[i]
    <2>1. CASE db[i] = da[i]
        <3>1. sb[i] = sa[i]
            BY <1>7, <1>8, <2>1
        <3> QED BY <1>8, <2>1, <3>1 DEF InStep
    <2> QED BY <2>1
<1>9. ASSUME NEW i \in AttemptIds, sb[i].state \in ActiveState
      PROVE  db[i] = sb[i]
    <2>1. sb[i] = sa[i]
        BY <1>9, StatesDisjoint
    <2> QED BY <1>9, <2>1 DEF InStep
<1>10. InStep(epoch, more, sb, db, L)
    BY <1>4, <1>5, <1>6, <1>8, <1>9 DEF InStep
<1> QED BY <1>7, <1>10 DEF Final, Succeeds

\* Where memory changes, the disk changes alike: the tables still agree.
LEMMA CloseAgrees ==
    ASSUME NEW sa, NEW da, NEW sb, NEW db, Agree(sa, da), Closes(sa, da, sb, db),
           \A i \in AttemptIds : sb[i] # sa[i] => db[i] = sb[i]
    PROVE  Agree(sb, db)
<1> USE DEF Closes
<1>1. \A i \in AttemptIds : sa[i].state \in ActiveState => da[i] = sa[i]
    BY StatesDisjoint DEF Agree
<1>2. ASSUME NEW i \in AttemptIds
      PROVE  db[i].state = "none" <=> da[i].state = "none"
    BY <1>1, StatesDisjoint
<1>3. Retained(db) = Retained(da)
    BY <1>2 DEF Retained
<1>4. ASSUME NEW i \in AttemptIds, db[i].state \in ActiveState
      PROVE  sb[i] = db[i]
    BY <1>4 DEF Agree
<1>5. ASSUME NEW i \in AttemptIds, sb[i].state # "none", db[i] # sb[i]
      PROVE  /\ sb[i].state \in TerminalState
             /\ db[i] = NoAttempt
             /\ Cardinality(Retained(db)) >= MaxAttempts
    <2>1. sb[i] = sa[i]
        BY <1>5
    <2>2. da[i] # sa[i]
        BY <1>5, <2>1
    <2>3. /\ sa[i].state \in TerminalState /\ da[i] = NoAttempt
          /\ Cardinality(Retained(da)) >= MaxAttempts
        BY <1>5, <2>1, <2>2 DEF Agree
    <2> QED BY <1>3, <1>5, <2>1, <2>3, StatesDisjoint
<1> QED BY <1>4, <1>5 DEF Agree

\* A new identity: its record is written to disk; memory takes it too, unless
\* its table is full, and may drop others; replay may drop what had ended.
Opens(epoch, id, record, sa, da, sb, db) ==
    /\ record.basis.epoch = epoch
    /\ record.state # "none"
    /\ \A i \in AttemptIds \ {id} : sb[i] \in {sa[i], NoAttempt}
    /\ sb[id] \in {NoAttempt, record}
    /\ db[id] = record
    /\ \A i \in AttemptIds \ {id} :
          db[i] = da[i] \/ (da[i].state \in TerminalState /\ db[i] = NoAttempt)

LEMMA OpenOne ==
    ASSUME NEW epoch \in Nat, NEW seq \in Nat, NEW more \in Nat, NEW L,
           NEW sa \in [AttemptIds -> Attempt], NEW da \in [AttemptIds -> Attempt],
           NEW sb \in [AttemptIds -> Attempt],
           InStep(epoch, seq, sa, da, L), L \subseteq LineageEntry,
           NEW id \in AttemptIds, id > seq, more >= id,
           NEW record \in Attempt, NEW db, Opens(epoch, id, record, sa, da, sb, db)
    PROVE  InStep(epoch, more, sb, db, L) /\ Final(da, sb, db)
<1> USE MaxAttemptNat DEF Opens
<1>0. epoch > 0
    BY DEF InStep
<1>1. db[id] = record /\ \A i \in AttemptIds \ {id} : db[i] \in {da[i], NoAttempt}
    OBVIOUS
<1>2. \A e \in L : e.attempt \in Nat
    BY DEF LineageEntry
<1>3. Known(NoAttempt, epoch) /\ Known(record, epoch)
    BY <1>0, StatesDisjoint DEF Known
<1>4. ASSUME NEW i \in AttemptIds
      PROVE  Known(sb[i], epoch) /\ Known(db[i], epoch)
    BY <1>1, <1>3 DEF InStep, Sound
<1>5. ASSUME NEW e \in L, e.attempt = id
      PROVE  e.epoch # epoch /\ e.epoch > 0
    BY <1>2, <1>5 DEF InStep, Sound
<1>6. ASSUME NEW e \in L
      PROVE  Backs(sb, e) /\ Backs(db, e)
    <2>1. Backs(sa, e) /\ Backs(da, e) /\ e.epoch # 0
        BY DEF InStep, Sound
    <2>2. CASE e.attempt = id
        BY <1>1, <1>5, <2>1, <2>2, StatesDisjoint DEF Backs
    <2>3. CASE e.attempt # id
        BY <1>1, <2>1, <2>3, StatesDisjoint DEF Backs
    <2> QED BY <2>2, <2>3
<1>7. Sound(epoch, sb, L) /\ Sound(epoch, db, L)
    BY <1>4, <1>6 DEF InStep, Sound
<1>8. ASSUME NEW i \in AttemptIds, sb[i].basis.epoch = epoch \/ db[i].basis.epoch = epoch
      PROVE  i <= more
    <2>1. CASE i = id
        BY <2>1
    <2>2. CASE i # id
        <3>1. sa[i].basis.epoch = epoch \/ da[i].basis.epoch = epoch
            BY <1>0, <1>1, <1>8, <2>2, StatesDisjoint
        <3>2. i <= seq
            BY <3>1 DEF InStep
        <3> QED BY <3>2
    <2> QED BY <2>1, <2>2
<1>9. ASSUME NEW e \in L, e.epoch = epoch
      PROVE  e.attempt <= more
    <2>1. e.attempt <= seq
        BY <1>9 DEF InStep
    <2> QED BY <1>2, <2>1
<1>10. ASSUME NEW i \in AttemptIds, db[i].state \in TerminalState, sb[i].state # "none"
       PROVE  sb[i] = db[i]
    <2>1. CASE i = id
        BY <1>1, <1>10, <2>1, StatesDisjoint
    <2>2. CASE i # id
        <3>1. sb[i] = sa[i]
            BY <1>10, <2>2, StatesDisjoint
        <3>2. db[i] = da[i]
            BY <1>1, <1>10, <2>2, StatesDisjoint
        <3> QED BY <1>10, <3>1, <3>2 DEF InStep
    <2> QED BY <2>1, <2>2
<1>a. ASSUME NEW i \in AttemptIds, sb[i].state \in ActiveState
      PROVE  db[i] = sb[i]
    <2>1. CASE i = id
        BY <1>1, <1>a, <2>1, StatesDisjoint
    <2>2. CASE i # id
        <3>1. sb[i] = sa[i]
            BY <1>a, <2>2, StatesDisjoint
        <3>2. da[i] = sa[i]
            BY <1>a, <3>1 DEF InStep
        <3> QED BY <1>a, <2>2, <3>1, <3>2, StatesDisjoint
    <2> QED BY <2>1, <2>2
<1>11. InStep(epoch, more, sb, db, L)
    BY <1>0, <1>7, <1>8, <1>9, <1>10, <1>a DEF InStep
<1>12. Final(da, sb, db)
    <2> SUFFICES ASSUME NEW i \in AttemptIds, da[i].state \in TerminalState
                 PROVE  Succeeds(da[i], sb[i]) /\ Succeeds(da[i], db[i])
        BY DEF Final
    <2>1. Known(da[i], epoch)
        BY DEF InStep, Sound
    <2>2. Succeeds(da[i], NoAttempt)
        BY <2>1, Dropped
    <2>3. CASE i = id
        <3>1. da[id].basis.epoch # epoch
            BY DEF InStep
        <3>2. Succeeds(da[i], record)
            BY <2>3, <3>1 DEF Succeeds
        <3> QED BY <1>1, <2>2, <2>3, <3>2
    <2>4. CASE i # id
        <3>1. sa[i] \in {NoAttempt, da[i]}
            BY DEF InStep, Sound, Known
        <3>2. Succeeds(da[i], da[i])
            BY DEF Succeeds
        <3> QED BY <1>1, <2>2, <2>4, <3>1, <3>2
    <2> QED BY <2>3, <2>4
<1> QED BY <1>11, <1>12

\* An entry of this epoch is added, and what it says is in both tables.
LEMMA TellOne ==
    ASSUME NEW epoch \in Nat, NEW seq, NEW sa, NEW da, NEW L, NEW K, NEW e,
           InStep(epoch, seq, sa, da, L), K \subseteq L \cup {e},
           e.epoch = epoch, e.attempt <= seq, Backs(sa, e), Backs(da, e)
    PROVE  InStep(epoch, seq, sa, da, K)
BY DEF InStep, Sound

\* A snapshot writes what is in memory.
LEMMA Compacted ==
    ASSUME NEW epoch, NEW seq, NEW sa, NEW da, NEW L, InStep(epoch, seq, sa, da, L)
    PROVE  InStep(epoch, seq, sa, sa, L)
BY DEF InStep

\* An image, loaded into memory by an incarnation of a new epoch.
LEMMA Loaded ==
    ASSUME NEW old \in Nat, NEW epoch \in Nat, epoch > old, NEW seq, NEW L,
           L \subseteq LineageEntry, NEW a \in [AttemptIds -> Attempt], Sound(old, a, L)
    PROVE  InStep(epoch, seq, a, a, L)
<1>1. \A i \in AttemptIds : a[i].basis.epoch \in Nat /\ a[i].basis.epoch <= old
    BY TableFields DEF Sound, Known
<1>2. \A e \in L : e.epoch \in Nat /\ e.epoch <= old
    BY DEF Sound, LineageEntry
<1>3. Sound(epoch, a, L)
    BY <1>1, <1>2 DEF Sound, Known
<1> QED BY <1>1, <1>2, <1>3 DEF InStep

-----------------------------------------------------------------------------
(* How a handler ends. *)

LEMMA EndsPaired ==
    ASSUME NEW s \in DurableState, NEW d \in DurableState, NEW m, NEW compacts,
           Image(disk), Paired(s, d), Follows(disk, s, d)
    PROVE  /\ Answer(s, d, m) => RecoveryInv' /\ Onward
           /\ Finish(s, d, m, compacts) => RecoveryInv' /\ Onward
           /\ Die(d) => RecoveryInv' /\ Onward
<1>1. Image(d)
    BY DEF Image, Paired, Same, InStep
<1>2. Paired(s, s) /\ Image(s)
    <2>1. InStep(s.authority.epoch, s.attempt_sequence, s.attempts, s.attempts,
                 Entries(s.lineage))
        BY Compacted DEF Paired, Same
    <2>2. Paired(s, s)
        BY <2>1 DEF Paired, Same, Exact, Agree
    <2> QED BY <2>1, <2>2 DEF Paired, Image, InStep
<1>3. Follows(disk, s, s)
    <2>2. Final(disk.attempts, s.attempts, s.attempts)
        BY DEF Follows, Final
    <2>3. disk.fences \subseteq s.fences
        BY DEF Follows, Paired, Same
    <2>4. ~Refusals => NoLess(disk.authority, s.authority)
        BY DEF Follows, Paired, Exact
    <2> QED BY <2>2, <2>3, <2>4 DEF Follows
<1>4. ASSUME NEW e, disk' = e, Follows(disk, s, e)
      PROVE  Onward
    BY <1>4 DEF Onward, Follows, Final, Succeeds
<1>5. ASSUME NEW e, Image(e), Paired(s, e), Follows(disk, s, e), Answer(s, e, m)
      PROVE  RecoveryInv' /\ Onward
    BY <1>4, <1>5 DEF Answer, RecoveryInv
<1>6. Die(d) => RecoveryInv' /\ Onward
    BY <1>1, <1>4 DEF Die, RecoveryInv
<1>7. Answer(s, d, m) => RecoveryInv' /\ Onward
    BY <1>1, <1>5
<1>8. Compact(s, m) => RecoveryInv' /\ Onward
    BY <1>2, <1>3, <1>4 DEF Compact, RecoveryInv
<1> QED BY <1>6, <1>7, <1>8 DEF Finish

-----------------------------------------------------------------------------
(* Stopping attempts. *)

LEMMA StopFields ==
    ASSUME NEW s \in DurableState, NEW A, NEW F, NEW how
    PROVE  /\ Stop(s, A, F, how).attempts = Stopped(s.attempts, A, how)
           /\ Stop(s, A, F, how).fences = s.fences \cup AttemptFences(s, F)
           /\ Stop(s, A, F, how).authority = s.authority
           /\ Stop(s, A, F, how).policy = s.policy
           /\ Stop(s, A, F, how).obligations = s.obligations
           /\ Stop(s, A, F, how).sets = s.sets
           /\ Stop(s, A, F, how).lineage = s.lineage
BY DEF Stop, DurableState

LEMMA LogStopFields ==
    ASSUME NEW s \in DurableState, NEW d \in DurableState, NEW W, NEW F, NEW how
    PROVE  /\ LogStop(d, s, W, F, how).attempts =
                 [i \in AttemptIds |->
                    IF i \in W THEN Stopped(s.attempts, W, how)[i] ELSE d.attempts[i]]
           /\ LogStop(d, s, W, F, how).fences = d.fences \cup AttemptFences(s, F)
           /\ LogStop(d, s, W, F, how).authority = d.authority
           /\ LogStop(d, s, W, F, how).policy = d.policy
           /\ LogStop(d, s, W, F, how).obligations = d.obligations
           /\ LogStop(d, s, W, F, how).sets = d.sets
           /\ LogStop(d, s, W, F, how).lineage = d.lineage
BY DEF LogStop, LogFences, LogAttempts, DurableState

LEMMA EntriesType ==
    ASSUME NEW s \in DurableState
    PROVE  Entries(s.lineage) \subseteq LineageEntry
<1>1. s.lineage \in Seq(LineageEntry)
    BY Fields
<1> QED BY <1>1 DEF Entries

\* The attempts in A stop in memory and those in W on disk; the two differ only
\* when an append is refused.
LEMMA StopPaired ==
    ASSUME NEW s \in DurableState, NEW d \in DurableState, Paired(s, d),
           NEW A \in SUBSET ActiveIds(s.attempts), NEW W \in SUBSET A,
           ~Refusals => W = A,
           NEW F \in SUBSET AttemptIds, NEW how \in {"fenced", "interrupted"}
    PROVE  /\ Stop(s, A, F, how) \in DurableState
           /\ LogStop(d, s, W, F, how) \in DurableState
           /\ Paired(Stop(s, A, F, how), LogStop(d, s, W, F, how))
           /\ Final(d.attempts, Stop(s, A, F, how).attempts,
                    LogStop(d, s, W, F, how).attempts)
           /\ d.fences \subseteq LogStop(d, s, W, F, how).fences
           /\ LogStop(d, s, W, F, how).authority = d.authority
<1> DEFINE t == Stop(s, A, F, how)
           e == LogStop(d, s, W, F, how)
           epoch == s.authority.epoch
           L == Entries(d.lineage)
<1>a. A \in SUBSET AttemptIds /\ W \in SUBSET AttemptIds
    BY ActiveIdsType
<1>t. t \in DurableState /\ e \in DurableState
    BY <1>a, StopType, LogStopType
<1>1. /\ t.attempts = Stopped(s.attempts, A, how)
      /\ t.fences = s.fences \cup AttemptFences(s, F)
      /\ t.authority = s.authority /\ t.policy = s.policy
      /\ t.obligations = s.obligations /\ t.sets = s.sets /\ t.lineage = s.lineage
    BY StopFields
<1>2. /\ e.attempts = [i \in AttemptIds |->
                         IF i \in W THEN Stopped(s.attempts, W, how)[i] ELSE d.attempts[i]]
      /\ e.fences = d.fences \cup AttemptFences(s, F)
      /\ e.authority = d.authority /\ e.policy = d.policy
      /\ e.obligations = d.obligations /\ e.sets = d.sets /\ e.lineage = d.lineage
    BY LogStopFields
<1>3. t.attempt_sequence >= s.attempt_sequence /\ t.attempt_sequence \in Nat
    <2>1. t.attempt_sequence = Max({s.attempt_sequence} \cup A)
        BY DEF Stop, DurableState
    <2> HIDE DEF t
    <2> QED BY <1>a, <2>1, Fields, SequenceMax
<1> HIDE DEF t, e
<1>4. ASSUME NEW i \in AttemptIds
      PROVE  /\ i \in A => /\ s.attempts[i].state \in ActiveState
                           /\ t.attempts[i].state \in TerminalState
                           /\ t.attempts[i].basis = s.attempts[i].basis
             /\ i \notin A => t.attempts[i] = s.attempts[i]
    <2>1. s.attempts[i] \in Attempt
        BY Fields
    <2>2. i \in A => s.attempts[i].state \in ActiveState
        BY DEF ActiveIds
    <2>3. i \in A => t.attempts[i] = [s.attempts[i] EXCEPT !.state = how]
        BY <1>1 DEF Stopped
    <2>4. i \notin A => t.attempts[i] = s.attempts[i]
        BY <1>1 DEF Stopped
    <2> QED BY <2>1, <2>2, <2>3, <2>4 DEF Attempt, TerminalState
<1>5. ASSUME NEW i \in AttemptIds
      PROVE  /\ i \in W => e.attempts[i] = t.attempts[i]
             /\ i \notin W => e.attempts[i] = d.attempts[i]
    BY <1>1, <1>2 DEF Stopped
<1>6. /\ s.attempts \in [AttemptIds -> Attempt] /\ d.attempts \in [AttemptIds -> Attempt]
      /\ t.attempts \in [AttemptIds -> Attempt] /\ e.attempts \in [AttemptIds -> Attempt]
      /\ epoch \in Nat /\ s.attempt_sequence \in Nat /\ L \subseteq LineageEntry
    BY <1>t, Fields, VectorFields, EntriesType
<1>7. InStep(epoch, s.attempt_sequence, s.attempts, d.attempts, L)
    BY DEF Paired
<1>8. /\ InStep(epoch, t.attempt_sequence, t.attempts, e.attempts, L)
      /\ Final(d.attempts, t.attempts, e.attempts)
    <2> DEFINE sa == s.attempts
               da == d.attempts
               sb == t.attempts
               db == e.attempts
               seq == s.attempt_sequence
               more == t.attempt_sequence
    <2>1. Closes(sa, da, sb, db)
        BY <1>4, <1>5 DEF Closes
    <2>3. /\ sa \in [AttemptIds -> Attempt] /\ da \in [AttemptIds -> Attempt]
          /\ sb \in [AttemptIds -> Attempt] /\ db \in [AttemptIds -> Attempt]
          /\ epoch \in Nat /\ seq \in Nat /\ more \in Nat /\ more >= seq
          /\ L \subseteq LineageEntry /\ InStep(epoch, seq, sa, da, L)
        BY <1>3, <1>6, <1>7
    <2> HIDE DEF epoch, L, sa, da, sb, db, seq, more
    <2>4. InStep(epoch, more, sb, db, L) /\ Final(da, sb, db)
        BY <2>1, <2>3, CloseSome
    <2> QED BY <2>4 DEF da, sb, db, more
<1>9. Same(t, e) /\ Coherent(t) /\ Coherent(e)
    BY <1>1, <1>2 DEF Paired, Same, Coherent
<1>10. ASSUME ~Refusals
       PROVE  Exact(t, e)
    <2>1. t.authority = e.authority
        BY <1>1, <1>2, <1>10 DEF Paired, Exact
    <2>2. Closes(s.attempts, d.attempts, t.attempts, e.attempts)
        BY <1>4, <1>5 DEF Closes
    <2>3. \A i \in AttemptIds : t.attempts[i] # s.attempts[i] => e.attempts[i] = t.attempts[i]
        BY <1>4, <1>5, <1>10
    <2>4. Agree(s.attempts, d.attempts)
        BY <1>10 DEF Paired, Exact
    <2>5. Agree(t.attempts, e.attempts)
        BY <2>2, <2>3, <2>4, CloseAgrees
    <2> QED BY <2>1, <2>5 DEF Exact
<1>11. Paired(t, e)
    BY <1>1, <1>2, <1>8, <1>9, <1>10 DEF Paired
<1> QED BY <1>2, <1>8, <1>11, <1>t DEF t, e

LEMMA FenceAttemptsPaired ==
    ASSUME NEW s \in DurableState, NEW d \in DurableState, NEW compacts,
           Image(disk), Paired(s, d), d.attempts = disk.attempts,
           disk.fences \subseteq d.fences,
           ~Refusals => NoLess(disk.authority, d.authority),
           FenceAttempts(s, d, compacts)
    PROVE  RecoveryInv' /\ Onward
<1> DEFINE ids == ActiveIds(s.attempts)
           released == IF ids = {} THEN mem
                       ELSE [mem EXCEPT !.active = 0, !.grants = @ \ ids]
<1>1. ids \in SUBSET AttemptIds
    BY ActiveIdsType
<1>2. ASSUME NEW A \in SUBSET ids, NEW W \in SUBSET A, NEW F \in SUBSET ids,
             ~Refusals => W = A
      PROVE  LET t == Stop(s, A, F, "fenced")
                 e == LogStop(d, s, W, F, "fenced")
             IN  /\ t \in DurableState /\ e \in DurableState
                 /\ Paired(t, e)
                 /\ Follows(disk, t, e)
    <2>1. F \in SUBSET AttemptIds
        BY <1>1
    <2> HIDE DEF ids
    <2> DEFINE t == Stop(s, A, F, "fenced")
               e == LogStop(d, s, W, F, "fenced")
    <2>2. /\ t \in DurableState /\ e \in DurableState
          /\ Paired(t, e)
          /\ Final(d.attempts, t.attempts, e.attempts)
          /\ d.fences \subseteq e.fences
          /\ e.authority = d.authority
        BY <1>2, <2>1, StopPaired DEF ids
    <2> HIDE DEF t, e
    <2>3. Follows(disk, t, e)
        BY <2>2 DEF Follows
    <2> QED BY <2>2, <2>3 DEF t, e
<1>3. CASE Finish(Stop(s, ids, ids, "fenced"), LogStop(d, s, ids, ids, "fenced"),
                  released, compacts)
    <2> HIDE DEF ids, released
    <2>1. ids \in SUBSET ids
        OBVIOUS
    <2> QED BY <1>2, <1>3, <2>1, EndsPaired
<1>4. ASSUME NEW p \in Progress(ids), NEW W \in SUBSET p[1], ~Refusals => W = p[1],
             Answer(Stop(s, p[1], p[2], "fenced"), LogStop(d, s, W, p[2], "fenced"), mem)
      PROVE  RecoveryInv' /\ Onward
    <2> HIDE DEF ids
    <2>1. p[1] \in SUBSET ids /\ p[2] \in SUBSET ids
        BY <1>1, ProgressType
    <2> QED BY <1>2, <1>4, <2>1, EndsPaired
<1>5. ASSUME NEW p \in Progress(ids), Die(LogStop(d, s, p[1], p[2], "fenced"))
      PROVE  RecoveryInv' /\ Onward
    <2> HIDE DEF ids
    <2>1. p[1] \in SUBSET ids /\ p[2] \in SUBSET ids /\ p[1] \in SUBSET p[1]
        BY <1>1, ProgressType
    <2> QED BY <1>2, <1>5, <2>1, EndsPaired
<1>6. \/ Finish(Stop(s, ids, ids, "fenced"), LogStop(d, s, ids, ids, "fenced"), released, compacts)
      \/ \E p \in Progress(ids) :
            Answer(Stop(s, p[1], p[2], "fenced"), LogStop(d, s, p[1], p[2], "fenced"), mem)
      \/ \E p \in Progress(ids) : Die(LogStop(d, s, p[1], p[2], "fenced"))
      \/ Refusals /\ \E p \in Progress(ids) : \E written \in {p[1], p[2]} :
            Answer(Stop(s, p[1], p[2], "fenced"), LogStop(d, s, written, p[2], "fenced"), mem)
    BY DEF FenceAttempts
<1>7. \A p \in Progress(ids) : p[1] \in SUBSET p[1] /\ p[2] \in SUBSET p[1]
    BY DEF Progress
<1> HIDE DEF ids, released
<1> QED BY <1>3, <1>4, <1>5, <1>6, <1>7

-----------------------------------------------------------------------------
(* Life cycle and ingest. *)

LEMMA NoLessFields ==
    ASSUME NEW a, NEW b
    PROVE  NoLess(a, b) <=> /\ a.topology <= b.topology
                            /\ a.path_authority <= b.path_authority
                            /\ a.policy <= b.policy
                            /\ a.obligations <= b.obligations
                            /\ a.epoch <= b.epoch
                            /\ a.boot <= b.boot
<1>1. DOMAIN NoAuthority = {"topology", "path_authority", "policy", "obligations", "epoch", "boot"}
    BY DEF NoAuthority
<1> QED BY <1>1 DEF NoLess

LEMMA NoLessSame ==
    ASSUME NEW a \in AuthorityVector
    PROVE  NoLess(a, a)
BY VectorFields, NoLessFields

LEMMA RecoveryInit == Init => RecoveryInv
<1> SUFFICES ASSUME Init
             PROVE  RecoveryInv
    OBVIOUS
<1>1. disk = EmptyState /\ ~up
    BY DEF Init
<1>2. /\ EmptyState.authority = NoAuthority
      /\ EmptyState.policy = [generation |-> 0, max_revalidations |-> 0]
      /\ EmptyState.obligations = 0
      /\ EmptyState.sets = [i \in SetIds |-> NoSet]
      /\ EmptyState.attempts = [i \in AttemptIds |-> NoAttempt]
      /\ EmptyState.lineage = <<>>
    BY DEF EmptyState, NoSet
<1>3. Coherent(EmptyState)
    BY <1>2, ConstantsAssumption DEF Coherent, NoAuthority
<1>4. Entries(<<>>) = {}
    BY DEF Entries
<1>5. Sound(EmptyState.authority.epoch, EmptyState.attempts, Entries(EmptyState.lineage))
    BY <1>2, <1>4 DEF Sound, Known, NoAttempt, NoAuthority
<1> QED BY <1>1, <1>3, <1>5 DEF RecoveryInv, Image

LEMMA LogEpochFields ==
    ASSUME NEW d \in DurableState, NEW s
    PROVE  /\ LogEpoch(d, s).authority = s.authority
           /\ LogEpoch(d, s).policy = d.policy
           /\ LogEpoch(d, s).obligations = d.obligations
           /\ LogEpoch(d, s).sets = d.sets
           /\ LogEpoch(d, s).fences = d.fences
           /\ LogEpoch(d, s).attempts = d.attempts
           /\ LogEpoch(d, s).lineage = d.lineage
BY DEF LogEpoch, DurableState

LEMMA OpenPaired ==
    ASSUME TypeOK, RecoveryInv, Open
    PROVE  RecoveryInv' /\ Onward
<1> DEFINE epoch == disk.authority.epoch + 1
           a == [disk.authority EXCEPT !.epoch = epoch, !.boot = epoch]
           s == [disk EXCEPT !.authority.epoch = epoch, !.authority.boot = epoch]
           d == LogEpoch(disk, s)
           ids == ActiveIds(s.attempts)
<1>t. disk \in DurableState /\ disk.authority \in AuthorityVector
      /\ disk.authority.epoch \in Nat /\ epoch \in Nat /\ Image(disk)
    BY Fields, VectorFields DEF TypeOK, RecoveryInv
<1>1. a \in AuthorityVector
    BY <1>t, VectorUpdates
<1>2. /\ a.topology = disk.authority.topology
      /\ a.path_authority = disk.authority.path_authority
      /\ a.policy = disk.authority.policy
      /\ a.obligations = disk.authority.obligations
      /\ a.epoch = epoch /\ a.boot = epoch
    BY <1>t DEF AuthorityVector
<1>3. s = [disk EXCEPT !.authority = a]
    OBVIOUS
<1>4. \/ Finish(Stop(s, ids, ids, "interrupted"), LogStop(d, s, ids, ids, "interrupted"),
                EmptyMemory, TRUE)
      \/ \E p \in Progress(ids) : Die(LogStop(d, s, p[1], p[2], "interrupted"))
    BY DEF Open
<1>5. epoch > disk.authority.epoch
    BY <1>t
<1> HIDE DEF a, epoch, s
<1>6. /\ s.authority = a /\ s.policy = disk.policy /\ s.obligations = disk.obligations
      /\ s.sets = disk.sets /\ s.fences = disk.fences /\ s.attempts = disk.attempts
      /\ s.lineage = disk.lineage
    BY <1>t, <1>3 DEF DurableState
<1>7. s \in DurableState
    BY <1>t, <1>1, <1>3, InstallVector
<1>8. d \in DurableState
    BY <1>t, <1>7, LogEpochType
<1>9. /\ d.authority = a /\ d.policy = disk.policy /\ d.obligations = disk.obligations
      /\ d.sets = disk.sets /\ d.fences = disk.fences /\ d.attempts = disk.attempts
      /\ d.lineage = disk.lineage
    BY <1>t, <1>6, LogEpochFields
<1> HIDE DEF d
<1>10. Paired(s, d)
    <2>1. Same(s, d) /\ Exact(s, d)
        BY <1>6, <1>9 DEF Same, Exact, Agree
    <2>2. Coherent(s) /\ Coherent(d)
        BY <1>t, <1>2, <1>6, <1>9 DEF Image, Coherent
    <2>3. /\ Sound(disk.authority.epoch, disk.attempts, Entries(disk.lineage))
          /\ disk.attempts \in [AttemptIds -> Attempt]
          /\ Entries(disk.lineage) \subseteq LineageEntry
        BY <1>t, Fields, EntriesType DEF Image
    <2>4. InStep(epoch, s.attempt_sequence, disk.attempts, disk.attempts, Entries(disk.lineage))
        BY <1>t, <1>5, <2>3, Loaded
    <2> QED BY <1>2, <1>6, <1>9, <2>1, <2>2, <2>4 DEF Paired
<1>11. NoLess(disk.authority, d.authority)
    <2>1. disk.authority.boot = disk.authority.epoch
        BY <1>t DEF Image, Coherent
    <2>2. /\ disk.authority.topology \in Nat /\ disk.authority.path_authority \in Nat
          /\ disk.authority.policy \in Nat /\ disk.authority.obligations \in Nat
        BY <1>t, VectorFields
    <2> QED BY <1>t, <1>2, <1>5, <1>9, <2>1, <2>2, NoLessFields
<1>12. ids \in SUBSET AttemptIds
    BY ActiveIdsType
<1>13. ASSUME NEW A \in SUBSET ids, NEW F \in SUBSET ids
       PROVE  LET t == Stop(s, A, F, "interrupted")
                  e == LogStop(d, s, A, F, "interrupted")
              IN  /\ t \in DurableState /\ e \in DurableState
                  /\ Paired(t, e)
                  /\ Follows(disk, t, e)
    <2> DEFINE t == Stop(s, A, F, "interrupted")
               e == LogStop(d, s, A, F, "interrupted")
    <2>1. F \in SUBSET AttemptIds /\ A \in SUBSET A
        BY <1>12
    <2>2. /\ t \in DurableState /\ e \in DurableState
          /\ Paired(t, e)
          /\ Final(d.attempts, t.attempts, e.attempts)
          /\ d.fences \subseteq e.fences
          /\ e.authority = d.authority
        BY <1>7, <1>8, <1>10, <2>1, StopPaired
    <2> HIDE DEF t, e
    <2>3. Follows(disk, t, e)
        BY <1>9, <1>11, <2>2 DEF Follows
    <2> QED BY <2>2, <2>3 DEF t, e
<1>14. CASE Finish(Stop(s, ids, ids, "interrupted"), LogStop(d, s, ids, ids, "interrupted"),
                   EmptyMemory, TRUE)
    <2> HIDE DEF ids
    <2>1. ids \in SUBSET ids
        OBVIOUS
    <2> QED BY <1>t, <1>13, <1>14, <2>1, EndsPaired
<1>15. ASSUME NEW p \in Progress(ids), Die(LogStop(d, s, p[1], p[2], "interrupted"))
       PROVE  RecoveryInv' /\ Onward
    <2> HIDE DEF ids
    <2>1. p[1] \in SUBSET ids /\ p[2] \in SUBSET ids
        BY <1>12, ProgressType
    <2> QED BY <1>t, <1>13, <1>15, <2>1, EndsPaired
<1> HIDE DEF ids
<1> QED BY <1>4, <1>14, <1>15 DEF d

\* Changes that leave the attempts, the history and the fences alone.
LEMMA Aside ==
    ASSUME NEW s \in DurableState, NEW d \in DurableState, Paired(s, d),
           NEW t \in DurableState, NEW e \in DurableState,
           t.attempts = s.attempts, t.lineage = s.lineage, t.fences = s.fences,
           t.attempt_sequence = s.attempt_sequence,
           t.authority.epoch = s.authority.epoch,
           e.attempts = d.attempts, e.lineage = d.lineage, e.fences = d.fences,
           e.authority.epoch = d.authority.epoch,
           t.policy = e.policy, t.obligations = e.obligations, t.sets = e.sets,
           Coherent(t), Coherent(e), ~Refusals => t.authority = e.authority
    PROVE  Paired(t, e)
<1>1. Same(t, e)
    BY DEF Paired, Same
<1>2. ~Refusals => Exact(t, e)
    BY DEF Paired, Exact
<1> QED BY <1>1, <1>2 DEF Paired

\* A table that did not change: what ended on disk is the same in memory, or is
\* no longer there.
LEMMA Unmoved ==
    ASSUME NEW s, NEW d, Paired(s, d)
    PROVE  Final(d.attempts, s.attempts, d.attempts)
<1> SUFFICES ASSUME NEW i \in AttemptIds, d.attempts[i].state \in TerminalState
             PROVE  Succeeds(d.attempts[i], s.attempts[i])
    BY DEF Final, Succeeds
<1>1. Known(d.attempts[i], s.authority.epoch) /\ s.attempts[i] \in {NoAttempt, d.attempts[i]}
    BY DEF Paired, InStep, Sound, Known
<1> QED BY <1>1, Dropped

LEMMA PolicyPaired ==
    ASSUME TypeOK, RecoveryInv, NEW g \in 1 .. MaxPolicy, NEW b \in 0 .. MaxBudget,
           ApplyPolicy([generation |-> g, max_revalidations |-> b])
    PROVE  RecoveryInv' /\ Onward
<1> DEFINE pol == [generation |-> g, max_revalidations |-> b]
           a == [state.authority EXCEPT !.policy = g]
           c == [disk.authority EXCEPT !.policy = g]
           s == [state EXCEPT !.policy = pol, !.authority.policy = pol.generation]
           d == LogPolicy(disk, pol)
<1>t. /\ state \in DurableState /\ disk \in DurableState
      /\ state.authority \in AuthorityVector /\ disk.authority \in AuthorityVector
      /\ Image(disk) /\ Paired(state, disk)
    BY Fields DEF TypeOK, RecoveryInv, ApplyPolicy
<1>g. g \in Nat /\ b \in Nat /\ g # 0
    BY InputsNat
<1>1. pol \in Policy /\ a \in AuthorityVector /\ c \in AuthorityVector
    BY <1>t, <1>g, VectorUpdates DEF Policy
<1>2. /\ a.policy = g /\ a.obligations = state.authority.obligations
      /\ a.epoch = state.authority.epoch /\ a.boot = state.authority.boot
      /\ c.policy = g /\ c.obligations = disk.authority.obligations
      /\ c.epoch = disk.authority.epoch /\ c.boot = disk.authority.boot
      /\ c.topology = disk.authority.topology /\ c.path_authority = disk.authority.path_authority
      /\ pol.generation = g
    BY <1>t DEF AuthorityVector
<1>3. /\ s = [state EXCEPT !.policy = pol, !.authority = a]
      /\ d = [disk EXCEPT !.policy = pol, !.authority = c]
    BY DEF LogPolicy
<1>4. FenceAttempts(s, d, TRUE) /\ g > state.policy.generation
    BY DEF ApplyPolicy
<1>5. state.authority = disk.authority => a = c
    OBVIOUS
<1> HIDE DEF pol, a, c, s, d
<1>6. /\ s.policy = pol /\ s.authority = a /\ s.obligations = state.obligations
      /\ s.sets = state.sets /\ s.fences = state.fences /\ s.attempts = state.attempts
      /\ s.lineage = state.lineage /\ s.attempt_sequence = state.attempt_sequence
      /\ s \in DurableState
    BY <1>t, <1>1, <1>3 DEF DurableState
<1>7. /\ d.policy = pol /\ d.authority = c /\ d.obligations = disk.obligations
      /\ d.sets = disk.sets /\ d.fences = disk.fences /\ d.attempts = disk.attempts
      /\ d.lineage = disk.lineage
      /\ d \in DurableState
    BY <1>t, <1>1, <1>3 DEF DurableState
<1>8. Coherent(s) /\ Coherent(d)
    BY <1>t, <1>2, <1>6, <1>7, <1>g DEF Paired, Coherent
<1>9. Paired(s, d)
    <2>1. state.obligations = disk.obligations /\ state.sets = disk.sets
          /\ (~Refusals => state.authority = disk.authority)
        BY <1>t DEF Paired, Same, Exact
    <2> QED BY <1>t, <1>2, <1>5, <1>6, <1>7, <1>8, <2>1, Aside
<1>10. NoLess(disk.authority, d.authority)
    <2>1. disk.authority.policy = state.policy.generation
        BY <1>t DEF Paired, Same, Coherent
    <2>2. state.policy.generation \in Nat
        BY <1>t, Fields DEF Policy
    <2>3. disk.authority.policy <= g
        BY <1>4, <1>g, <2>1, <2>2
    <2> QED BY <1>t, <1>2, <1>7, <2>3, VectorFields, NoLessFields
<1> QED BY <1>t, <1>4, <1>6, <1>7, <1>9, <1>10, FenceAttemptsPaired

LEMMA ObligationsPaired ==
    ASSUME TypeOK, RecoveryInv, NEW g \in 1 .. MaxObligations, ApplyObligations(g)
    PROVE  RecoveryInv' /\ Onward
<1> DEFINE a == [state.authority EXCEPT !.obligations = g]
           c == [disk.authority EXCEPT !.obligations = g]
           s == [state EXCEPT !.obligations = g, !.authority.obligations = g]
           d == LogObligations(disk, g)
<1>t. /\ state \in DurableState /\ disk \in DurableState
      /\ state.authority \in AuthorityVector /\ disk.authority \in AuthorityVector
      /\ Image(disk) /\ Paired(state, disk)
    BY Fields DEF TypeOK, RecoveryInv, ApplyObligations
<1>g. g \in Nat
    BY InputsNat
<1>1. a \in AuthorityVector /\ c \in AuthorityVector
    BY <1>t, <1>g, VectorUpdates
<1>2. /\ a.obligations = g /\ a.policy = state.authority.policy
      /\ a.epoch = state.authority.epoch /\ a.boot = state.authority.boot
      /\ c.obligations = g /\ c.policy = disk.authority.policy
      /\ c.epoch = disk.authority.epoch /\ c.boot = disk.authority.boot
      /\ c.topology = disk.authority.topology /\ c.path_authority = disk.authority.path_authority
    BY <1>t DEF AuthorityVector
<1>3. /\ s = [state EXCEPT !.obligations = g, !.authority = a]
      /\ d = [disk EXCEPT !.obligations = g, !.authority = c]
    BY DEF LogObligations
<1>4. FenceAttempts(s, d, TRUE) /\ g > state.obligations
    BY DEF ApplyObligations
<1>5. state.authority = disk.authority => a = c
    OBVIOUS
<1> HIDE DEF a, c, s, d
<1>6. /\ s.policy = state.policy /\ s.authority = a /\ s.obligations = g
      /\ s.sets = state.sets /\ s.fences = state.fences /\ s.attempts = state.attempts
      /\ s.lineage = state.lineage /\ s.attempt_sequence = state.attempt_sequence
      /\ s \in DurableState
    BY <1>t, <1>1, <1>3, <1>g DEF DurableState
<1>7. /\ d.policy = disk.policy /\ d.authority = c /\ d.obligations = g
      /\ d.sets = disk.sets /\ d.fences = disk.fences /\ d.attempts = disk.attempts
      /\ d.lineage = disk.lineage
      /\ d \in DurableState
    BY <1>t, <1>1, <1>3, <1>g DEF DurableState
<1>8. Coherent(s) /\ Coherent(d)
    BY <1>t, <1>2, <1>6, <1>7 DEF Paired, Coherent
<1>9. Paired(s, d)
    <2>1. state.policy = disk.policy /\ state.sets = disk.sets
          /\ (~Refusals => state.authority = disk.authority)
        BY <1>t DEF Paired, Same, Exact
    <2> QED BY <1>t, <1>2, <1>5, <1>6, <1>7, <1>8, <2>1, Aside
<1>10. NoLess(disk.authority, d.authority)
    <2>1. disk.authority.obligations = state.obligations
        BY <1>t DEF Paired, Same, Coherent
    <2>2. state.obligations \in Nat
        BY <1>t, Fields
    <2>3. disk.authority.obligations <= g
        BY <1>4, <1>g, <2>1, <2>2
    <2> QED BY <1>t, <1>2, <1>7, <2>3, VectorFields, NoLessFields
<1> QED BY <1>t, <1>4, <1>6, <1>7, <1>9, <1>10, FenceAttemptsPaired

\* A refused append leaves memory ahead of the disk in these two fields.
LEMMA AuthorityPaired ==
    ASSUME TypeOK, RecoveryInv, NEW top \in 0 .. MaxTopology, NEW pa \in 0 .. MaxPathAuthority,
           SetAuthority(top, pa)
    PROVE  RecoveryInv' /\ Onward
<1> DEFINE a == [state.authority EXCEPT !.topology = top, !.path_authority = pa]
           s == [state EXCEPT !.authority.topology = top, !.authority.path_authority = pa]
           d == LogEpoch(disk, s)
<1>t. /\ state \in DurableState /\ disk \in DurableState
      /\ state.authority \in AuthorityVector /\ disk.authority \in AuthorityVector
      /\ Image(disk) /\ Paired(state, disk)
    BY Fields DEF TypeOK, RecoveryInv, SetAuthority
<1>g. top \in Nat /\ pa \in Nat
    BY InputsNat
<1>1. a \in AuthorityVector
    BY <1>t, <1>g, VectorUpdates
<1>2. /\ a.obligations = state.authority.obligations /\ a.policy = state.authority.policy
      /\ a.epoch = state.authority.epoch /\ a.boot = state.authority.boot
      /\ a.topology = top /\ a.path_authority = pa
    BY <1>t DEF AuthorityVector
<1>3. s = [state EXCEPT !.authority = a]
    OBVIOUS
<1>4. /\ FenceAttempts(s, d, TRUE) \/ (Refusals /\ Answer(s, disk, mem))
      /\ top >= state.authority.topology /\ pa >= state.authority.path_authority
    BY DEF SetAuthority
<1> HIDE DEF a, s
<1>6. /\ s.policy = state.policy /\ s.authority = a /\ s.obligations = state.obligations
      /\ s.sets = state.sets /\ s.fences = state.fences /\ s.attempts = state.attempts
      /\ s.lineage = state.lineage /\ s.attempt_sequence = state.attempt_sequence
      /\ s \in DurableState
    BY <1>t, <1>1, <1>3 DEF DurableState
<1>7. /\ d.policy = disk.policy /\ d.authority = a /\ d.obligations = disk.obligations
      /\ d.sets = disk.sets /\ d.fences = disk.fences /\ d.attempts = disk.attempts
      /\ d.lineage = disk.lineage
      /\ d \in DurableState
    BY <1>t, <1>6, LogEpochFields, LogEpochType
<1> HIDE DEF d
<1>8. /\ state.policy = disk.policy /\ state.obligations = disk.obligations
      /\ state.sets = disk.sets /\ state.authority.epoch = disk.authority.epoch
      /\ ~Refusals => state.authority = disk.authority
    BY <1>t DEF Paired, Same, Exact
<1>9. Coherent(s) /\ Coherent(d) /\ Coherent(disk)
    BY <1>t, <1>2, <1>6, <1>7, <1>8 DEF Paired, Coherent
<1>10. Paired(s, d) /\ (Refusals => Paired(s, disk))
    BY <1>t, <1>2, <1>6, <1>7, <1>8, <1>9, Aside
<1>11. ~Refusals => NoLess(disk.authority, d.authority)
    <2>1. state.authority.topology <= top /\ state.authority.path_authority <= pa
        BY <1>4, <1>g, <1>t, VectorFields
    <2>2. NoLess(state.authority, a)
        BY <1>t, <1>2, <2>1, VectorFields, NoLessFields
    <2> QED BY <1>7, <1>8, <2>2
<1>12. CASE FenceAttempts(s, d, TRUE)
    BY <1>t, <1>6, <1>7, <1>10, <1>11, <1>12, FenceAttemptsPaired
<1>13. CASE Refusals /\ Answer(s, disk, mem)
    <2>1. Follows(disk, s, disk)
        BY <1>6, <1>10, <1>13, Unmoved DEF Follows
    <2> QED BY <1>t, <1>6, <1>10, <1>13, <2>1, EndsPaired
<1> QED BY <1>4, <1>12, <1>13

LEMMA SetPaired ==
    ASSUME TypeOK, RecoveryInv, NEW id \in SetIds, NEW g \in 1 .. MaxSetGeneration,
           NEW ps \in SUBSET Paths,
           ApplyAlternateSet(id, [generation |-> g, members |-> ps,
                                  declared |-> state.authority])
    PROVE  RecoveryInv' /\ Onward
<1> DEFINE set == [generation |-> g, members |-> ps, declared |-> state.authority]
           s == [state EXCEPT !.sets[id] = set]
           d == LogSet(disk, id, set)
<1>t. /\ state \in DurableState /\ disk \in DurableState
      /\ disk.authority \in AuthorityVector /\ disk.sets \in [SetIds -> AlternateSet]
      /\ Image(disk) /\ Paired(state, disk) /\ state.sets = disk.sets
    BY Fields DEF TypeOK, RecoveryInv, ApplyAlternateSet, Paired, Same
<1>1. set \in AlternateSet /\ set.generation # 0
    BY <1>t, Fields, InputsNat DEF AlternateSet
<1>2. Finish(s, d, mem, TRUE)
    BY DEF ApplyAlternateSet
<1> HIDE DEF set
<1>3. /\ s.policy = state.policy /\ s.authority = state.authority
      /\ s.obligations = state.obligations
      /\ s.sets = [state.sets EXCEPT ![id] = set] /\ s.fences = state.fences
      /\ s.attempts = state.attempts
      /\ s.lineage = state.lineage /\ s.attempt_sequence = state.attempt_sequence
      /\ s \in DurableState
    BY <1>t, <1>1 DEF DurableState
<1>4. /\ d.policy = disk.policy /\ d.authority = disk.authority
      /\ d.obligations = disk.obligations
      /\ d.sets = [disk.sets EXCEPT ![id] = set] /\ d.fences = disk.fences
      /\ d.attempts = disk.attempts /\ d.lineage = disk.lineage
      /\ d \in DurableState
    BY <1>t, <1>1 DEF DurableState, LogSet
<1> HIDE DEF s, d
<1>5. Coherent(s) /\ Coherent(d)
    <2>1. \A i \in SetIds : d.sets[i].generation = 0 => d.sets[i] = NoSet
        BY <1>t, <1>1, <1>4 DEF Paired, Coherent
    <2> QED BY <1>t, <1>3, <1>4, <2>1 DEF Paired, Coherent
<1>6. Paired(s, d)
    <2>1. state.policy = disk.policy /\ state.obligations = disk.obligations
          /\ (~Refusals => state.authority = disk.authority)
        BY <1>t DEF Paired, Same, Exact
    <2> QED BY <1>t, <1>3, <1>4, <1>5, <2>1, Aside
<1>7. Follows(disk, s, d)
    BY <1>t, <1>4, <1>6, Unmoved, NoLessSame DEF Follows
<1> QED BY <1>t, <1>2, <1>3, <1>4, <1>6, <1>7, EndsPaired

\* Calls that write nothing.
LEMMA QuietPaired ==
    ASSUME TypeOK, RecoveryInv
    PROVE  /\ \A p, q : ApplyEvidence(p, q) => RecoveryInv' /\ Onward
           /\ Evaluate => RecoveryInv' /\ Onward
           /\ Crash => RecoveryInv' /\ Onward
           /\ FenceAll => RecoveryInv' /\ Onward
<1>t. state \in DurableState /\ disk \in DurableState /\ disk.authority \in AuthorityVector
      /\ Image(disk)
    BY Fields DEF TypeOK, RecoveryInv
<1> SUFFICES ASSUME up
             PROVE  /\ \A p, q : ApplyEvidence(p, q) => RecoveryInv' /\ Onward
                    /\ Evaluate => RecoveryInv' /\ Onward
                    /\ Crash => RecoveryInv' /\ Onward
                    /\ FenceAll => RecoveryInv' /\ Onward
    BY DEF ApplyEvidence, Evaluate, Crash, FenceAll
<1>1. Paired(state, disk) /\ NoLess(disk.authority, disk.authority)
    BY <1>t, NoLessSame DEF RecoveryInv
<1>2. Follows(disk, state, disk)
    BY <1>1, Unmoved DEF Follows
<1>3. \A m : Answer(state, disk, m) => RecoveryInv' /\ Onward
    BY <1>t, <1>1, <1>2, EndsPaired
<1>4. \A p, q : ApplyEvidence(p, q) => RecoveryInv' /\ Onward
    BY <1>3 DEF ApplyEvidence
<1>5. Crash => RecoveryInv' /\ Onward
    BY <1>t, <1>1, <1>2, EndsPaired DEF Crash
<1>6. FenceAll => RecoveryInv' /\ Onward
    BY <1>t, <1>1, FenceAttemptsPaired DEF FenceAll
<1>7. Evaluate => RecoveryInv' /\ Onward
    <2> DEFINE s == [state EXCEPT !.decision_sequence = @ + 1]
    <2>1. /\ s.policy = state.policy /\ s.authority = state.authority
          /\ s.obligations = state.obligations /\ s.sets = state.sets
          /\ s.fences = state.fences /\ s.attempts = state.attempts
          /\ s.lineage = state.lineage /\ s.attempt_sequence = state.attempt_sequence
          /\ s \in DurableState
        <3>1. state.decision_sequence + 1 \in Nat
            BY <1>t, Fields
        <3> QED BY <1>t, <3>1 DEF DurableState
    <2>2. Evaluate => Answer(s, disk, mem)
        BY DEF Evaluate
    <2> HIDE DEF s
    <2>3. Paired(s, disk)
        BY <1>1, <2>1 DEF Paired, Same, Coherent, Exact
    <2>4. Follows(disk, s, disk)
        BY <1>2, <2>1 DEF Follows
    <2> QED BY <1>t, <2>1, <2>2, <2>3, <2>4, EndsPaired
<1> QED BY <1>4, <1>5, <1>6, <1>7

LEMMA FencePathPaired ==
    ASSUME TypeOK, RecoveryInv, NEW path \in Paths, FencePath(path)
    PROVE  RecoveryInv' /\ Onward
<1> DEFINE fence == [id |-> state.fence_sequence + 1, epoch |-> state.authority.epoch,
                     attempt |-> 0, path |-> path]
           s == [state EXCEPT !.fences = @ \cup {fence}, !.fence_sequence = @ + 1]
           d == LogFences(disk, {fence})
           ids == {i \in ActiveIds(s.attempts) : s.attempts[i].selected = path}
           Freed(done) ==
             [mem EXCEPT !.grants = @ \ done, !.active = IF @ \in done THEN 0 ELSE @]
<1>t. /\ state \in DurableState /\ disk \in DurableState
      /\ disk.authority \in AuthorityVector
      /\ Image(disk) /\ Paired(state, disk)
    BY Fields DEF TypeOK, RecoveryInv, FencePath
<1>1. fence \in Fence
    BY <1>t, Fields, VectorFields DEF Fence
<1>2. \/ Finish(Stop(s, ids, {}, "fenced"), LogStop(d, s, ids, {}, "fenced"), Freed(ids), TRUE)
      \/ \E done \in Prefixes(ids) : Die(LogStop(d, s, done, {}, "fenced"))
      \/ Refusals /\ \E p \in Progress(ids) :
            Answer(Stop(s, p[1], {}, "fenced"), LogStop(d, s, p[2], {}, "fenced"), Freed(p[2]))
    BY DEF FencePath
<1> HIDE DEF fence
<1>3. /\ s.policy = state.policy /\ s.authority = state.authority
      /\ s.obligations = state.obligations /\ s.sets = state.sets
      /\ s.fences = state.fences \cup {fence} /\ s.attempts = state.attempts
      /\ s.lineage = state.lineage /\ s.attempt_sequence = state.attempt_sequence
      /\ s \in DurableState
    <2>1. state.fences \cup {fence} \in SUBSET Fence /\ state.fence_sequence + 1 \in Nat
        BY <1>t, <1>1, Fields
    <2> QED BY <1>t, <2>1 DEF DurableState
<1>4. /\ d.policy = disk.policy /\ d.authority = disk.authority
      /\ d.obligations = disk.obligations /\ d.sets = disk.sets
      /\ d.fences = disk.fences \cup {fence} /\ d.attempts = disk.attempts
      /\ d.lineage = disk.lineage /\ d \in DurableState
    <2>1. disk.fences \cup {fence} \in SUBSET Fence
        BY <1>t, <1>1, Fields
    <2> QED BY <1>t, <2>1 DEF DurableState, LogFences
<1>5. ids \in SUBSET ActiveIds(s.attempts) /\ {} \in SUBSET AttemptIds
    OBVIOUS
<1> HIDE DEF s, d, ids, Freed
<1>6. Paired(s, d)
    BY <1>t, <1>3, <1>4 DEF Paired, Same, Coherent, Exact
<1>7. ASSUME NEW A \in SUBSET ids, NEW W \in SUBSET A, ~Refusals => W = A
      PROVE  LET t == Stop(s, A, {}, "fenced")
                 e == LogStop(d, s, W, {}, "fenced")
             IN  /\ t \in DurableState /\ e \in DurableState
                 /\ Paired(t, e)
                 /\ Follows(disk, t, e)
    <2> DEFINE F == {}
               t == Stop(s, A, F, "fenced")
               e == LogStop(d, s, W, F, "fenced")
    <2>1. A \in SUBSET ActiveIds(s.attempts) /\ F \in SUBSET AttemptIds
          /\ s \in DurableState /\ d \in DurableState
        BY <1>3, <1>4, <1>5
    <2> HIDE DEF F
    <2>2. /\ t \in DurableState /\ e \in DurableState
          /\ Paired(t, e)
          /\ Final(d.attempts, t.attempts, e.attempts)
          /\ d.fences \subseteq e.fences
          /\ e.authority = d.authority
        BY <1>6, <1>7, <2>1, StopPaired
    <2> HIDE DEF t, e
    <2>3. Follows(disk, t, e)
        BY <1>t, <1>4, <2>2, NoLessSame DEF Follows
    <2> QED BY <2>2, <2>3 DEF t, e, F
<1>8. CASE Finish(Stop(s, ids, {}, "fenced"), LogStop(d, s, ids, {}, "fenced"), Freed(ids), TRUE)
    <2>1. ids \in SUBSET ids
        OBVIOUS
    <2> QED BY <1>t, <1>7, <1>8, <2>1, EndsPaired
<1>9. ASSUME NEW done \in Prefixes(ids), Die(LogStop(d, s, done, {}, "fenced"))
      PROVE  RecoveryInv' /\ Onward
    <2>1. done \in SUBSET ids /\ done \in SUBSET done
        BY DEF Prefixes
    <2> QED BY <1>t, <1>7, <1>9, <2>1, EndsPaired
<1>10. ASSUME Refusals, NEW p \in Progress(ids),
              Answer(Stop(s, p[1], {}, "fenced"), LogStop(d, s, p[2], {}, "fenced"), Freed(p[2]))
       PROVE  RecoveryInv' /\ Onward
    <2>1. p[1] \in SUBSET ids /\ p[2] \in SUBSET p[1]
        BY DEF Progress, Prefixes
    <2> QED BY <1>t, <1>7, <1>10, <2>1, EndsPaired
<1> QED BY <1>2, <1>8, <1>9, <1>10

-----------------------------------------------------------------------------
(* Writing an attempt record and a lineage entry. *)

LEMMA KeepFields ==
    ASSUME NEW s \in DurableState, NEW id \in AttemptIds, NEW record \in Attempt
    PROVE  LET k == Keep(s, id, record)
           IN  /\ k.attempts = [WithRoom(s.attempts, id) EXCEPT ![id] = record]
               /\ k.attempt_sequence = Larger(s.attempt_sequence, id)
               /\ k.authority = s.authority /\ k.policy = s.policy
               /\ k.obligations = s.obligations /\ k.sets = s.sets
               /\ k.fences = s.fences /\ k.lineage = s.lineage
               /\ k.decision_sequence = s.decision_sequence
BY DEF Keep, DurableState

LEMMA LogAttemptFields ==
    ASSUME NEW d \in DurableState, NEW id \in AttemptIds, NEW record \in Attempt
    PROVE  LET e == LogAttempt(d, id, record)
           IN  /\ e.attempts = [i \in AttemptIds |->
                     IF i = id THEN record
                     ELSE IF i \in Evicted(d, id) THEN NoAttempt ELSE d.attempts[i]]
               /\ e.attempts[id] = record
               /\ e.authority = d.authority /\ e.policy = d.policy
               /\ e.obligations = d.obligations /\ e.sets = d.sets
               /\ e.fences = d.fences /\ e.lineage = d.lineage
BY DEF LogAttempt, DurableState

\* t and s differ in the attempt table and the counters at most.
Elsewhere(t, s) ==
    /\ t.authority = s.authority
    /\ t.policy = s.policy
    /\ t.obligations = s.obligations
    /\ t.sets = s.sets
    /\ t.fences = s.fences
    /\ t.lineage = s.lineage

LEMMA LogAttemptElsewhere ==
    ASSUME NEW d \in DurableState, NEW id \in AttemptIds, NEW record \in Attempt
    PROVE  Elsewhere(LogAttempt(d, id, record), d)
<1>1. LET e == LogAttempt(d, id, record)
      IN  /\ e.authority = d.authority /\ e.policy = d.policy
          /\ e.obligations = d.obligations /\ e.sets = d.sets
          /\ e.fences = d.fences /\ e.lineage = d.lineage
    BY LogAttemptFields
<1> QED BY <1>1 DEF Elsewhere

LEMMA LogAttemptFences ==
    ASSUME NEW d \in DurableState, NEW id \in AttemptIds, NEW record \in Attempt
    PROVE  LogAttempt(d, id, record).fences = d.fences
BY LogAttemptElsewhere DEF Elsewhere

\* A record that is in the table is replaced, and nothing else changes.
LEMMA LogInPlace ==
    ASSUME NEW d \in DurableState, NEW id \in AttemptIds, NEW record \in Attempt,
           d.attempts[id].state # "none"
    PROVE  LogAttempt(d, id, record).attempts = [d.attempts EXCEPT ![id] = record]
<1>1. Evicted(d, id) = {}
    BY DEF Evicted
<1>2. d.attempts \in [AttemptIds -> Attempt]
    BY Fields
<1>3. LogAttempt(d, id, record).attempts =
          [i \in AttemptIds |-> IF i = id THEN record
                               ELSE IF i \in Evicted(d, id) THEN NoAttempt ELSE d.attempts[i]]
    BY LogAttemptFields
<1> QED BY <1>1, <1>2, <1>3

LEMMA EvictedTerminal ==
    ASSUME NEW d, NEW id
    PROVE  /\ \A i \in Evicted(d, id) : /\ i \in AttemptIds
                                       /\ d.attempts[i].state \in TerminalState
                                       /\ i = FirstTerminal(d.attempts)
                                       /\ d.attempts[id].state = "none"
                                       /\ Cardinality(Retained(d.attempts)) >= MaxAttempts
BY DEF Evicted, TerminalIds

\* A table on disk that is full stays full: one record goes for one that comes.
LEMMA StaysFull ==
    ASSUME NEW d \in DurableState, NEW id \in AttemptIds, NEW record \in Attempt,
           record.state # "none", Cardinality(Retained(d.attempts)) >= MaxAttempts
    PROVE  Cardinality(Retained(LogAttempt(d, id, record).attempts)) >= MaxAttempts
<1> DEFINE e == LogAttempt(d, id, record)
           R == Retained(d.attempts)
           x == FirstTerminal(d.attempts)
<1>0. MaxAttempts \in Nat
    BY ConstantsAssumption
<1>1. d.attempts \in [AttemptIds -> Attempt]
    BY Fields
<1>2. e.attempts = [i \in AttemptIds |->
          IF i = id THEN record ELSE IF i \in Evicted(d, id) THEN NoAttempt ELSE d.attempts[i]]
    BY LogAttemptFields
<1>3. IsFiniteSet(R) /\ Cardinality(R) \in Nat
    <2>1. IsFiniteSet(R)
        BY AttemptIdsFinite, FS_Subset DEF Retained
    <2> QED BY <2>1, FS_CardinalityType
<1> HIDE DEF e
<1>4. CASE d.attempts[id].state # "none"
    <2>1. Evicted(d, id) = {}
        BY <1>4, EvictedTerminal
    <2>2. Retained(e.attempts) = R
        BY <1>2, <1>4, <2>1 DEF Retained
    <2> QED BY <2>2 DEF e
<1>5. CASE d.attempts[id].state = "none"
    <2>1. Retained(e.attempts) = (R \ Evicted(d, id)) \cup {id}
        BY <1>2, <1>5, StatesDisjoint, EvictedTerminal DEF Retained
    <2>2. id \notin R /\ Evicted(d, id) \subseteq {x}
        BY <1>5, EvictedTerminal DEF Retained
    <2> DEFINE T == R \ Evicted(d, id)
    <2>3. IsFiniteSet(T) /\ Cardinality(T) \in Nat /\ Cardinality(T) >= Cardinality(R) - 1
        <3>1. CASE T = R
            BY <1>3, <3>1
        <3>2. CASE T # R
            <4>1. T = R \ {x} /\ x \in R
                BY <2>2, <3>2
            <4> HIDE DEF T, R, x
            <4>2. IsFiniteSet(R \ {x}) /\ Cardinality(R \ {x}) = Cardinality(R) - 1
                BY <1>3, <4>1, FS_RemoveElement
            <4> QED BY <1>3, <4>1, <4>2, FS_CardinalityType
        <3> QED BY <3>1, <3>2
    <2>4. id \notin T
        BY <2>2
    <2>5. Retained(e.attempts) = T \cup {id}
        BY <2>1
    <2> HIDE DEF T
    <2>6. Cardinality(T \cup {id}) = Cardinality(T) + 1
        BY <2>3, <2>4, FS_AddElement
    <2> HIDE DEF R
    <2>7. Cardinality(T) + 1 >= MaxAttempts
        BY <1>0, <1>3, <2>3 DEF R
    <2> QED BY <2>5, <2>6, <2>7 DEF e
<1> QED BY <1>4, <1>5

\* Making room drops records, and changes none.
LEMMA RoomDrops ==
    ASSUME NEW attempts \in [AttemptIds -> Attempt], NEW id \in AttemptIds
    PROVE  /\ WithRoom(attempts, id) \in [AttemptIds -> Attempt]
           /\ \A i \in AttemptIds : WithRoom(attempts, id)[i] \in {attempts[i], NoAttempt}
           /\ attempts[id].state # "none" => WithRoom(attempts, id) = attempts
BY EmptyTypes DEF WithRoom

\* What it drops has ended, unless nothing has.
LEMMA RoomDropsEnded ==
    ASSUME NEW attempts \in [AttemptIds -> Attempt], NEW id \in AttemptIds,
           ~TableFull(attempts, id), NEW i \in AttemptIds,
           WithRoom(attempts, id)[i] # attempts[i]
    PROVE  attempts[i].state \in TerminalState
<1> DEFINE S == TerminalIds(attempts)
<1>1. S \in SUBSET Nat
    BY MaxAttemptNat DEF TerminalIds
<1>2. i = Min(S) /\ attempts[id].state = "none" /\ ~(Cardinality(Retained(attempts)) < MaxRetained)
    BY DEF WithRoom
<1>3. Cardinality(Retained(attempts)) >= MaxRetained
    <2>1. IsFiniteSet(Retained(attempts))
        BY AttemptIdsFinite, FS_Subset DEF Retained
    <2>2. Cardinality(Retained(attempts)) \in Nat /\ MaxRetained \in Nat
        BY <2>1, FS_CardinalityType, ConstantsAssumption
    <2> QED BY <1>2, <2>2
<1>4. S # {}
    BY <1>2, <1>3 DEF TableFull
<1>5. \E n \in S : \A k \in S : n <= k
    <2> HIDE DEF S
    <2> QED BY <1>1, <1>4, Smallest
<1>6. Min(S) \in S
    <2> HIDE DEF S
    <2> QED BY <1>5 DEF Min
<1> QED BY <1>2, <1>6 DEF TerminalIds

\* A table in which nothing is in flight has room, or something to drop.
LEMMA NotFull ==
    ASSUME NEW attempts \in [AttemptIds -> Attempt], NEW id,
           ActiveIds(attempts) = {} \/ TerminalIds(attempts) # {}
    PROVE  ~TableFull(attempts, id)
<1>1. CASE TerminalIds(attempts) # {}
    BY <1>1 DEF TableFull
<1>2. CASE ActiveIds(attempts) = {} /\ TerminalIds(attempts) = {}
    <2>1. Retained(attempts) = {}
        BY <1>2, TableFields DEF Retained, ActiveIds, TerminalIds
    <2>2. Cardinality(Retained(attempts)) = 0 /\ MaxRetained \in Nat \ {0}
        BY <2>1, FS_EmptySet, ConstantsAssumption
    <2> QED BY <2>2 DEF TableFull
<1> QED BY <1>1, <1>2

\* Memory and replay both take a new record, each making room in its own way.
LEMMA OpenAgrees ==
    ASSUME NEW s \in DurableState, NEW d \in DurableState, NEW id \in AttemptIds,
           NEW record \in Attempt, record.state # "none",
           ~TableFull(s.attempts, id), Agree(s.attempts, d.attempts)
    PROVE  Agree([WithRoom(s.attempts, id) EXCEPT ![id] = record],
                 LogAttempt(d, id, record).attempts)
<1> DEFINE sa == s.attempts
           da == d.attempts
           room == WithRoom(sa, id)
           sb == [room EXCEPT ![id] = record]
           db == LogAttempt(d, id, record).attempts
<1>1. sa \in [AttemptIds -> Attempt] /\ da \in [AttemptIds -> Attempt]
    BY Fields
<1>2. /\ room \in [AttemptIds -> Attempt]
      /\ \A i \in AttemptIds : room[i] \in {sa[i], NoAttempt}
    BY <1>1, RoomDrops
<1>3. \A i \in AttemptIds : room[i] = sa[i] \/ sa[i].state \in TerminalState
    BY <1>1, RoomDropsEnded
<1>4. /\ sb[id] = record
      /\ \A i \in AttemptIds \ {id} :
            sb[i] = sa[i] \/ (sa[i].state \in TerminalState /\ sb[i] = NoAttempt)
    <2> HIDE DEF room, sa
    <2> QED BY <1>2, <1>3
<1>5. /\ db[id] = record
      /\ \A i \in AttemptIds \ {id} :
            db[i] = IF i \in Evicted(d, id) THEN NoAttempt ELSE da[i]
    <2>1. db = [i \in AttemptIds |->
            IF i = id THEN record ELSE IF i \in Evicted(d, id) THEN NoAttempt ELSE da[i]]
        BY LogAttemptFields
    <2> HIDE DEF db
    <2> QED BY <2>1
<1>6. Cardinality(Retained(da)) >= MaxAttempts => Cardinality(Retained(db)) >= MaxAttempts
    BY StaysFull
<1>7. Agree(sa, da)
    OBVIOUS
<1>8. \A i \in Evicted(d, id) : /\ da[i].state \in TerminalState
                                /\ Cardinality(Retained(da)) >= MaxAttempts
    BY EvictedTerminal
<1> HIDE DEF sa, da, room, sb, db
<1>9. ASSUME NEW i \in AttemptIds, db[i].state \in ActiveState
      PROVE  sb[i] = db[i]
    <2>1. CASE i = id
        BY <1>4, <1>5, <2>1
    <2>2. CASE i # id
        <3>1. db[i] = da[i]
            BY <1>5, <1>9, <2>2, StatesDisjoint
        <3>2. sa[i] = da[i]
            BY <1>7, <1>9, <3>1 DEF Agree
        <3> QED BY <1>4, <1>9, <2>2, <3>1, <3>2, StatesDisjoint
    <2> QED BY <2>1, <2>2
<1>10. ASSUME NEW i \in AttemptIds, sb[i].state # "none", db[i] # sb[i]
       PROVE  /\ sb[i].state \in TerminalState
              /\ db[i] = NoAttempt
              /\ Cardinality(Retained(db)) >= MaxAttempts
    <2>1. i # id /\ sb[i] = sa[i]
        BY <1>4, <1>5, <1>10, StatesDisjoint
    <2>2. CASE i \in Evicted(d, id)
        <3>1. db[i] = NoAttempt /\ Cardinality(Retained(db)) >= MaxAttempts
            BY <1>5, <1>6, <1>8, <2>1, <2>2
        <3>2. sa[i] = da[i] \/ sa[i].state \in TerminalState
            BY <1>7, <1>10, <2>1 DEF Agree
        <3> QED BY <1>8, <2>1, <2>2, <3>1, <3>2
    <2>3. CASE i \notin Evicted(d, id)
        <3>1. db[i] = da[i]
            BY <1>5, <2>1, <2>3
        <3> QED BY <1>6, <1>7, <1>10, <2>1, <3>1 DEF Agree
    <2> QED BY <2>2, <2>3
<1>11. Agree(sb, db)
    BY <1>9, <1>10 DEF Agree
<1> QED BY <1>11 DEF sa, room, sb, db

LEMMA RememberFields ==
    ASSUME NEW s \in DurableState, NEW entry
    PROVE  /\ Remember(s, entry).lineage = Remembered(s.lineage, entry)
           /\ Remember(s, entry).attempts = s.attempts
           /\ Remember(s, entry).attempt_sequence = s.attempt_sequence
           /\ Remember(s, entry).authority = s.authority
           /\ Remember(s, entry).policy = s.policy
           /\ Remember(s, entry).obligations = s.obligations
           /\ Remember(s, entry).sets = s.sets
           /\ Remember(s, entry).fences = s.fences
           /\ LogLineage(s, entry) = Remember(s, entry)
BY DEF Remember, LogLineage, DurableState

\* The history stays bounded, and holds nothing but what it held and the entry.
LEMMA RememberedEntries ==
    ASSUME NEW lineage \in Seq(LineageEntry), NEW entry \in LineageEntry,
           Len(lineage) <= MaxLineage
    PROVE  /\ Entries(Remembered(lineage, entry)) \subseteq Entries(lineage) \cup {entry}
           /\ Len(Remembered(lineage, entry)) <= MaxLineage
<1>m. MaxLineage \in Nat \ {0} /\ Len(lineage) \in Nat
    BY ConstantsAssumption
<1>1. ASSUME NEW q \in Seq(LineageEntry)
      PROVE  /\ Entries(Append(q, entry)) \subseteq Entries(q) \cup {entry}
             /\ Len(Append(q, entry)) = Len(q) + 1
    <2>1. /\ Len(Append(q, entry)) = Len(q) + 1
          /\ \A k \in 1 .. Len(q) : Append(q, entry)[k] = q[k]
          /\ Append(q, entry)[Len(q) + 1] = entry
          /\ DOMAIN Append(q, entry) = 1 .. Len(q) + 1
          /\ DOMAIN q = 1 .. Len(q)
        OBVIOUS
    <2>2. \A k \in 1 .. Len(q) + 1 : k \in 1 .. Len(q) \/ k = Len(q) + 1
        OBVIOUS
    <2> QED BY <2>1, <2>2 DEF Entries
<1>2. CASE Len(lineage) >= MaxLineage
    <2> DEFINE q == Tail(lineage)
    <2>1. lineage # <<>>
        BY <1>2, <1>m
    <2>2. /\ q \in Seq(LineageEntry)
          /\ Len(q) = Len(lineage) - 1
          /\ \A k \in 1 .. Len(q) : q[k] = lineage[k + 1] /\ k + 1 \in 1 .. Len(lineage)
          /\ DOMAIN q = 1 .. Len(q) /\ DOMAIN lineage = 1 .. Len(lineage)
        BY <2>1
    <2>3. Remembered(lineage, entry) = Append(q, entry)
        BY <1>2 DEF Remembered
    <2> HIDE DEF q
    <2>4. Entries(q) \subseteq Entries(lineage)
        BY <2>2 DEF Entries
    <2>5. Len(Append(q, entry)) = Len(lineage)
        BY <1>1, <1>m, <2>2
    <2> QED BY <1>1, <2>2, <2>3, <2>4, <2>5
<1>3. CASE ~(Len(lineage) >= MaxLineage)
    <2>1. Remembered(lineage, entry) = Append(lineage, entry)
        BY <1>3 DEF Remembered
    <2>2. Len(lineage) + 1 <= MaxLineage
        BY <1>3, <1>m
    <2> QED BY <1>1, <2>1, <2>2
<1> QED BY <1>2, <1>3

LEMMA TellPaired ==
    ASSUME NEW s \in DurableState, NEW d \in DurableState, Paired(s, d),
           NEW e \in LineageEntry, e.epoch = s.authority.epoch,
           e.attempt <= s.attempt_sequence,
           Backs(s.attempts, e), Backs(d.attempts, e), Follows(disk, s, d)
    PROVE  /\ Remember(s, e) \in DurableState /\ LogLineage(d, e) \in DurableState
           /\ Paired(Remember(s, e), LogLineage(d, e))
           /\ Follows(disk, Remember(s, e), LogLineage(d, e))
<1> DEFINE t == Remember(s, e)
           f == LogLineage(d, e)
<1>t. t \in DurableState /\ f \in DurableState
    BY RememberType
<1>1. /\ t.lineage = Remembered(s.lineage, e)
      /\ t.attempts = s.attempts /\ t.attempt_sequence = s.attempt_sequence
      /\ t.authority = s.authority /\ t.policy = s.policy
      /\ t.obligations = s.obligations /\ t.sets = s.sets /\ t.fences = s.fences
    BY RememberFields
<1>2. /\ f.lineage = Remembered(d.lineage, e)
      /\ f.attempts = d.attempts
      /\ f.authority = d.authority /\ f.policy = d.policy
      /\ f.obligations = d.obligations /\ f.sets = d.sets /\ f.fences = d.fences
    BY RememberFields
<1> HIDE DEF t, f
<1>3. d.lineage \in Seq(LineageEntry) /\ Len(d.lineage) <= MaxLineage
      /\ s.lineage = d.lineage
    BY Fields DEF Paired, Coherent, Same
<1>4. /\ Entries(f.lineage) \subseteq Entries(d.lineage) \cup {e}
      /\ Len(f.lineage) <= MaxLineage /\ t.lineage = f.lineage
    BY <1>1, <1>2, <1>3, RememberedEntries
<1>5. InStep(t.authority.epoch, t.attempt_sequence, t.attempts, f.attempts, Entries(f.lineage))
    <2>1. s.authority.epoch \in Nat
        BY Fields, VectorFields
    <2>2. InStep(s.authority.epoch, s.attempt_sequence, s.attempts, d.attempts,
                 Entries(f.lineage))
        BY <1>4, <2>1, TellOne DEF Paired
    <2> QED BY <1>1, <1>2, <2>2
<1>6. Same(t, f) /\ Coherent(t) /\ Coherent(f) /\ (~Refusals => Exact(t, f))
    BY <1>1, <1>2, <1>4 DEF Paired, Same, Coherent, Exact
<1>7. Paired(t, f)
    BY <1>5, <1>6 DEF Paired
<1>8. Follows(disk, t, f)
    BY <1>1, <1>2 DEF Follows
<1> QED BY <1>t, <1>7, <1>8 DEF t, f

\* An attempt in flight ends; a refused append leaves the disk as it was.
LEMMA ClosePaired ==
    ASSUME NEW s \in DurableState, NEW d \in DurableState, Paired(s, d),
           NEW id \in AttemptIds, s.attempts[id].state \in ActiveState,
           NEW record \in Attempt, record.state \in TerminalState,
           record.basis = s.attempts[id].basis,
           NEW e \in DurableState, e = LogAttempt(d, id, record) \/ (Refusals /\ e = d)
    PROVE  /\ Paired(Keep(s, id, record), e)
           /\ Final(d.attempts, Keep(s, id, record).attempts, e.attempts)
           /\ Elsewhere(Keep(s, id, record), s)
           /\ Elsewhere(e, d)
           /\ Keep(s, id, record).attempts[id] = record
           /\ e # d => e.attempts[id] = record
           /\ Keep(s, id, record).attempt_sequence >= id
<1> DEFINE k == Keep(s, id, record)
           epoch == s.authority.epoch
           L == Entries(d.lineage)
           sa == s.attempts
           da == d.attempts
           sb == k.attempts
           db == e.attempts
           seq == s.attempt_sequence
           more == k.attempt_sequence
<1>t. k \in DurableState
    BY KeepType
<1>1. /\ sa \in [AttemptIds -> Attempt] /\ da \in [AttemptIds -> Attempt]
      /\ sb \in [AttemptIds -> Attempt] /\ db \in [AttemptIds -> Attempt]
      /\ epoch \in Nat /\ seq \in Nat /\ more \in Nat /\ L \subseteq LineageEntry
    BY <1>t, Fields, VectorFields, EntriesType
<1>2. sa[id].state # "none"
    BY StatesDisjoint
<1>3. /\ sb = [sa EXCEPT ![id] = record]
      /\ more = Larger(seq, id)
      /\ Elsewhere(k, s)
    <2>1. WithRoom(sa, id) = sa
        BY <1>1, <1>2, RoomDrops
    <2> HIDE DEF k
    <2>2. /\ k.attempts = [WithRoom(s.attempts, id) EXCEPT ![id] = record]
          /\ k.attempt_sequence = Larger(s.attempt_sequence, id)
          /\ Elsewhere(k, s)
        BY KeepFields DEF Elsewhere, k
    <2> QED BY <2>1, <2>2
<1>4. more >= seq /\ more >= id
    BY <1>1, <1>3, MaxAttemptNat DEF Larger
<1>5. /\ db = da \/ db = [da EXCEPT ![id] = record]
      /\ e # d => db = [da EXCEPT ![id] = record]
      /\ ~Refusals => db = [da EXCEPT ![id] = record]
      /\ Elsewhere(e, d)
    <2>1. da[id] = sa[id]
        BY DEF Paired, InStep
    <2>2. LogAttempt(d, id, record).attempts = [da EXCEPT ![id] = record]
        BY <1>2, <2>1, LogInPlace
    <2>3. Elsewhere(LogAttempt(d, id, record), d)
        BY LogAttemptElsewhere
    <2> QED BY <2>2, <2>3 DEF Elsewhere
<1> HIDE DEF k
<1>6. Closes(sa, da, sb, db)
    BY <1>1, <1>3, <1>5 DEF Closes
<1>7. InStep(epoch, seq, sa, da, L)
    BY DEF Paired
<1>8. InStep(epoch, more, sb, db, L) /\ Final(da, sb, db)
    <2> HIDE DEF epoch, L, sa, da, sb, db, seq, more
    <2> QED BY <1>1, <1>4, <1>6, <1>7, CloseSome
<1>9. Same(k, e) /\ Coherent(k) /\ Coherent(e)
    BY <1>3, <1>5 DEF Paired, Same, Coherent, Elsewhere
<1>10. ASSUME ~Refusals
       PROVE  Exact(k, e)
    <2>1. k.authority = e.authority
        BY <1>3, <1>5, <1>10 DEF Paired, Exact, Elsewhere
    <2>2. \A i \in AttemptIds : sb[i] # sa[i] => db[i] = sb[i]
        BY <1>1, <1>3, <1>5, <1>10
    <2>3. Agree(sa, da)
        BY <1>10 DEF Paired, Exact
    <2>4. Agree(sb, db)
        <3> HIDE DEF sa, da, sb, db
        <3> QED BY <1>6, <2>2, <2>3, CloseAgrees
    <2> QED BY <2>1, <2>4 DEF Exact
<1>11. Paired(k, e)
    BY <1>3, <1>5, <1>8, <1>9, <1>10 DEF Paired, Elsewhere
<1>12. sb[id] = record /\ (e # d => db[id] = record)
    BY <1>1, <1>3, <1>5
<1> QED BY <1>3, <1>4, <1>5, <1>8, <1>11, <1>12 DEF k

\* A new attempt is written; memory may have no room for it.
LEMMA NewPaired ==
    ASSUME NEW s \in DurableState, NEW d \in DurableState, Paired(s, d),
           NEW id \in AttemptIds, id > s.attempt_sequence,
           NEW record \in Attempt, record.state # "none", record.basis = s.authority,
           NEW t \in DurableState, Elsewhere(t, s), t.attempt_sequence >= id,
           \/ t.attempts = [WithRoom(s.attempts, id) EXCEPT ![id] = record]
           \/ t.attempts = s.attempts /\ TableFull(s.attempts, id),
           ~Refusals => ~TableFull(s.attempts, id)
    PROVE  LET e == LogAttempt(d, id, record)
           IN  /\ e \in DurableState
               /\ Paired(t, e)
               /\ Final(d.attempts, t.attempts, e.attempts)
               /\ Elsewhere(e, d)
               /\ e.attempts[id] = record
<1> DEFINE e == LogAttempt(d, id, record)
           epoch == s.authority.epoch
           L == Entries(d.lineage)
           sa == s.attempts
           da == d.attempts
           sb == t.attempts
           db == e.attempts
           seq == s.attempt_sequence
           more == t.attempt_sequence
<1>t. e \in DurableState
    BY LogAttemptType
<1>1. /\ sa \in [AttemptIds -> Attempt] /\ da \in [AttemptIds -> Attempt]
      /\ sb \in [AttemptIds -> Attempt]
      /\ epoch \in Nat /\ seq \in Nat /\ more \in Nat /\ L \subseteq LineageEntry
    BY Fields, VectorFields, EntriesType
<1>2. /\ db[id] = record
      /\ \A i \in AttemptIds \ {id} :
            db[i] = da[i] \/ (da[i].state \in TerminalState /\ db[i] = NoAttempt)
      /\ Elsewhere(e, d)
    <2>1. db = [i \in AttemptIds |->
            IF i = id THEN record ELSE IF i \in Evicted(d, id) THEN NoAttempt ELSE da[i]]
        BY LogAttemptFields
    <2>2. Elsewhere(e, d)
        BY LogAttemptElsewhere
    <2> HIDE DEF e
    <2> QED BY <2>1, <2>2, EvictedTerminal
<1>o. ASSUME ~Refusals
      PROVE  Agree(sb, db)
    BY <1>o, OpenAgrees DEF Paired, Exact
<1> HIDE DEF e
<1>3. InStep(epoch, seq, sa, da, L)
    BY DEF Paired
<1>4. /\ \A i \in AttemptIds \ {id} : sb[i] \in {sa[i], NoAttempt}
      /\ sb[id] = record \/ (sb[id].state = "none" /\ sb[id] = sa[id])
    <2>1. /\ WithRoom(sa, id) \in [AttemptIds -> Attempt]
          /\ \A i \in AttemptIds : WithRoom(sa, id)[i] \in {sa[i], NoAttempt}
        BY <1>1, RoomDrops
    <2> QED BY <1>1, <2>1 DEF TableFull
<1>5. Opens(epoch, id, record, sa, da, sb, db)
    <2>1. sa[id].state = "none" => sa[id] = NoAttempt
        BY <1>3 DEF InStep, Sound, Known
    <2> QED BY <1>2, <1>4, <2>1 DEF Opens
<1>6. InStep(epoch, more, sb, db, L) /\ Final(da, sb, db)
    <2>1. id > seq /\ more >= id
        OBVIOUS
    <2> HIDE DEF epoch, L, sa, da, sb, db, seq, more
    <2> QED BY <1>1, <1>3, <1>5, <2>1, OpenOne
<1>7. Same(t, e) /\ Coherent(t) /\ Coherent(e)
    BY <1>2 DEF Paired, Same, Coherent, Elsewhere
<1>8. ASSUME ~Refusals
      PROVE  Exact(t, e)
    <2>1. t.authority = e.authority
        BY <1>2, <1>8 DEF Paired, Exact, Elsewhere
    <2> QED BY <1>8, <1>o, <2>1 DEF Exact
<1>9. Paired(t, e)
    BY <1>2, <1>6, <1>7, <1>8 DEF Paired, Elsewhere
<1> QED BY <1>t, <1>2, <1>6, <1>9 DEF e

\* Writing one attempt moves nothing else backwards.
LEMMA AttemptFollows ==
    ASSUME disk \in DurableState, NEW s, NEW e, Elsewhere(e, disk),
           Final(disk.attempts, s.attempts, e.attempts)
    PROVE  Follows(disk, s, e)
<1>1. disk.authority \in AuthorityVector
    BY Fields
<1> QED BY <1>1, NoLessSame DEF Follows, Elsewhere

-----------------------------------------------------------------------------
(* An attempt ends: record_effect, abandon_attempt, rollback. *)

LEMMA SettlePaired ==
    ASSUME TypeOK, RecoveryInv, up, NEW id \in AttemptIds,
           state.attempts[id].state \in ActiveState,
           NEW record \in Attempt, record.state \in TerminalState,
           record.basis = state.attempts[id].basis,
           NEW entry \in LineageEntry, entry.attempt = id,
           entry.epoch = state.authority.epoch,
           entry.outcome \in {"promoted", "reverted"} =>
               record.state = "committed" /\ record.selected = entry.selected,
           NEW released, Settle(id, record, entry, released)
    PROVE  RecoveryInv' /\ Onward
<1> DEFINE s == Keep(state, id, record)
           d == LogAttempt(disk, id, record)
<1>t. state \in DurableState /\ disk \in DurableState /\ Image(disk) /\ Paired(state, disk)
    BY DEF TypeOK, RecoveryInv
<1>1. s \in DurableState /\ d \in DurableState
    BY <1>t, KeepType, LogAttemptType
<1>2. \/ Finish(Remember(s, entry), LogLineage(d, entry), released, TRUE)
      \/ Die(d)
      \/ Refusals /\ Answer(s, disk, mem)
      \/ Refusals /\ Answer(s, d, mem)
    BY DEF Settle
<1>3. /\ Paired(s, d) /\ (Refusals => Paired(s, disk))
      /\ Final(disk.attempts, s.attempts, d.attempts)
      /\ Refusals => Final(disk.attempts, s.attempts, disk.attempts)
      /\ Elsewhere(s, state) /\ Elsewhere(d, disk)
      /\ s.attempts[id] = record /\ s.attempt_sequence >= id
    BY <1>t, <1>1, ClosePaired
<1>4. d.attempts[id] = record
    BY <1>t, LogAttemptFields
<1> HIDE DEF s, d
<1>5. Follows(disk, s, d) /\ (Refusals => Follows(disk, s, disk))
    <2>1. Elsewhere(disk, disk)
        BY DEF Elsewhere
    <2> QED BY <1>t, <1>3, <2>1, AttemptFollows
<1>6. Backs(s.attempts, entry) /\ Backs(d.attempts, entry)
    BY <1>3, <1>4 DEF Backs
<1>7. entry.attempt <= s.attempt_sequence /\ entry.epoch = s.authority.epoch
    <2>1. s.attempt_sequence \in Nat /\ id \in Nat
        BY <1>1, Fields, MaxAttemptNat
    <2> QED BY <1>3, <2>1 DEF Elsewhere
<1>8. /\ Remember(s, entry) \in DurableState /\ LogLineage(d, entry) \in DurableState
      /\ Paired(Remember(s, entry), LogLineage(d, entry))
      /\ Follows(disk, Remember(s, entry), LogLineage(d, entry))
    BY <1>1, <1>3, <1>5, <1>6, <1>7, TellPaired
<1>9. CASE Finish(Remember(s, entry), LogLineage(d, entry), released, TRUE)
    BY <1>t, <1>8, <1>9, EndsPaired
<1>10. CASE Die(d)
    BY <1>t, <1>1, <1>3, <1>5, <1>10, EndsPaired
<1>11. CASE Refusals /\ (Answer(s, disk, mem) \/ Answer(s, d, mem))
    BY <1>t, <1>1, <1>3, <1>5, <1>11, EndsPaired
<1> QED BY <1>2, <1>9, <1>10, <1>11

LEMMA SettlingPaired ==
    ASSUME TypeOK, RecoveryInv, NEW id \in AttemptIds
    PROVE  /\ \A q \in 1 .. MaxObservation, v \in Observed(id) :
                 RecordEffect(id, q, v) => RecoveryInv' /\ Onward
           /\ AbandonAttempt(id) => RecoveryInv' /\ Onward
           /\ \A v \in Observed(id) : Rollback(id, v) => RecoveryInv' /\ Onward
<1> DEFINE record == state.attempts[id]
           decision == state.decision_sequence
<1>t. state \in DurableState
    BY DEF TypeOK
<1>1. record \in Attempt /\ record.selected \in Paths \cup {NoPath}
      /\ record.revalidations + 1 \in Nat
    BY <1>t, AttemptFields
<1>2. decision \in Nat /\ id \in Nat
    BY <1>t, Fields, MaxAttemptNat
<1>3. ASSUME NEW outcome \in Outcome, NEW selected \in Paths \cup {NoPath}
      PROVE  LET e == Entry(state, decision, id, outcome, selected)
             IN  /\ e \in LineageEntry /\ e.attempt = id /\ e.epoch = state.authority.epoch
                 /\ e.outcome = outcome /\ e.selected = selected
    <2>1. Entry(state, decision, id, outcome, selected) \in LineageEntry
        BY <1>t, <1>2, EntryType
    <2> QED BY <2>1 DEF Entry
<1>4. ASSUME NEW q \in 1 .. MaxObservation, NEW v \in Observed(id), RecordEffect(id, q, v)
      PROVE  RecoveryInv' /\ Onward
    <2> DEFINE r == [record EXCEPT !.state = "committed"]
               e == Entry(state, decision, id, "promoted", record.selected)
               m == [Released(id) EXCEPT !.evidence[record.selected] = q]
    <2>1. /\ r \in Attempt /\ r.state = "committed" /\ r.state \in TerminalState
          /\ r.basis = record.basis /\ r.selected = record.selected
        <3> HIDE DEF record
        <3> QED BY <1>1 DEF Attempt, TerminalState
    <2>2. /\ e \in LineageEntry /\ e.attempt = id /\ e.epoch = state.authority.epoch
          /\ e.selected = record.selected
        BY <1>1, <1>3 DEF Outcome
    <2>3. Settle(id, r, e, m) /\ up /\ record.state \in ActiveState
        BY <1>4 DEF RecordEffect
    <2> HIDE DEF r, e, m
    <2> QED BY <2>1, <2>2, <2>3, SettlePaired
<1>5. ASSUME AbandonAttempt(id)
      PROVE  RecoveryInv' /\ Onward
    <2> DEFINE r == [record EXCEPT !.state = "abandoned"]
               e == Entry(state, decision, id, "superseded", NoPath)
               m == Released(id)
    <2>1. r \in Attempt /\ r.state \in TerminalState /\ r.basis = record.basis
        <3> HIDE DEF record
        <3> QED BY <1>1 DEF Attempt, TerminalState
    <2>2. /\ e \in LineageEntry /\ e.attempt = id /\ e.epoch = state.authority.epoch
          /\ e.outcome \notin {"promoted", "reverted"}
        BY <1>3 DEF Outcome
    <2>3. Settle(id, r, e, m) /\ up /\ record.state \in ActiveState
        BY <1>5 DEF AbandonAttempt
    <2> HIDE DEF r, e, m
    <2> QED BY <2>1, <2>2, <2>3, SettlePaired
<1>6. ASSUME NEW v \in Observed(id), Rollback(id, v)
      PROVE  RecoveryInv' /\ Onward
    <2> DEFINE r == [record EXCEPT !.state = "rolled_back", !.revalidations = @ + 1]
               e == Entry(state, decision, id, "rolled_back", record.selected)
               m == Released(id)
    <2>1. r \in Attempt /\ r.state \in TerminalState /\ r.basis = record.basis
        <3> HIDE DEF record
        <3> QED BY <1>1 DEF Attempt, TerminalState
    <2>2. /\ e \in LineageEntry /\ e.attempt = id /\ e.epoch = state.authority.epoch
          /\ e.outcome \notin {"promoted", "reverted"}
        BY <1>1, <1>3 DEF Outcome
    <2>3. Settle(id, r, e, m) /\ up /\ record.state \in ActiveState
        BY <1>6 DEF Rollback
    <2> HIDE DEF r, e, m
    <2> QED BY <2>1, <2>2, <2>3, SettlePaired
<1> QED BY <1>4, <1>5, <1>6

-----------------------------------------------------------------------------
(* A new attempt: begin_promotion and revert. *)

LEMMA BeginPaired ==
    ASSUME NEW s \in DurableState, NEW m, disk \in DurableState,
           Image(disk), Paired(s, disk), Follows(disk, s, disk),
           NEW id \in AttemptIds, id > s.attempt_sequence, NEW incumbent \in Paths,
           NEW path \in Paths \cup {NoPath}, Begin(s, m, id, incumbent, path),
           ~Refusals => ~TableFull(s.attempts, id)
    PROVE  RecoveryInv' /\ Onward
<1> DEFINE Record(st) ==
               [incumbent |-> incumbent, selected |-> path, basis |-> s.authority,
                state |-> st, revalidations |-> 0]
           Numbered(r) == [Keep(s, id, r) EXCEPT !.attempt_sequence = @ + 1]
           claimed == Record("claimed")
           d1 == LogAttempt(disk, id, claimed)
           final == IF path = NoPath THEN Record("refused") ELSE Record("authorized")
           d2 == LogAttempt(d1, id, final)
           entry == Entry(s, s.decision_sequence, id, "refused", NoPath)
           granted == [m EXCEPT !.active = id, !.grants = @ \cup {id}]
           full == [s EXCEPT !.attempt_sequence = Larger(@, id)]
<1>0. id \in Nat /\ s.attempt_sequence \in Nat /\ s.decision_sequence \in Nat
      /\ disk.attempts \in [AttemptIds -> Attempt]
    BY Fields, MaxAttemptNat
<1>1. /\ claimed \in Attempt /\ claimed.state # "none" /\ claimed.basis = s.authority
      /\ final \in Attempt /\ final.state # "none" /\ final.basis = s.authority
    BY Fields DEF Attempt, ActiveState, TerminalState
<1>2. ASSUME NEW r \in Attempt
      PROVE  /\ Numbered(r) \in DurableState
             /\ Elsewhere(Numbered(r), s)
             /\ Numbered(r).attempts = [WithRoom(s.attempts, id) EXCEPT ![id] = r]
             /\ Numbered(r).attempt_sequence >= id
    <2> DEFINE k == Keep(s, id, r)
    <2>1. k \in DurableState
        BY KeepType
    <2>2. /\ k.attempts = [WithRoom(s.attempts, id) EXCEPT ![id] = r]
          /\ k.attempt_sequence = Larger(s.attempt_sequence, id)
          /\ Elsewhere(k, s)
        BY KeepFields DEF Elsewhere
    <2> HIDE DEF k
    <2>3. k.attempt_sequence + 1 \in Nat /\ k.attempt_sequence + 1 >= id
        BY <1>0, <2>1, <2>2 DEF Larger
    <2>4. LET n == [k EXCEPT !.attempt_sequence = @ + 1]
          IN  /\ n \in DurableState /\ Elsewhere(n, k) /\ n.attempts = k.attempts
              /\ n.attempt_sequence = k.attempt_sequence + 1
        BY <2>1, <2>3 DEF DurableState, Elsewhere
    <2> QED BY <2>2, <2>3, <2>4 DEF k, Elsewhere
<1>3. /\ full \in DurableState /\ Elsewhere(full, s) /\ full.attempts = s.attempts
      /\ full.attempt_sequence >= id
    <2>1. Larger(s.attempt_sequence, id) \in Nat /\ Larger(s.attempt_sequence, id) >= id
        BY <1>0 DEF Larger
    <2> QED BY <2>1 DEF DurableState, Elsewhere
<1>4. d2 = LogAttempt(disk, id, final)
    <2> HIDE DEF claimed, final
    <2> DEFINE F(r) == [i \in AttemptIds |->
                   IF i = id THEN r ELSE IF i \in Evicted(disk, id) THEN NoAttempt
                                         ELSE disk.attempts[i]]
    <2>1. d1 \in DurableState /\ d1.attempts = F(claimed)
          /\ d1.attempts[id].state # "none"
        BY <1>1, LogAttemptType, LogAttemptFields
    <2>2. d1 = [disk EXCEPT !.attempts = F(claimed)]
        BY DEF LogAttempt
    <2>3. Evicted(d1, id) = {}
        BY <2>1, EvictedTerminal
    <2> HIDE DEF d1
    <2>4. LogAttempt(d1, id, final) = [d1 EXCEPT !.attempts = F(final)]
        BY <2>1, <2>3 DEF LogAttempt
    <2>5. LogAttempt(disk, id, final) = [disk EXCEPT !.attempts = F(final)]
        BY DEF LogAttempt
    <2>6. [d1 EXCEPT !.attempts = F(final)] = [disk EXCEPT !.attempts = F(final)]
        <3> HIDE DEF F
        <3> QED BY <2>2 DEF DurableState
    <2> QED BY <2>4, <2>5, <2>6
<1>5. /\ entry \in LineageEntry /\ entry.attempt = id /\ entry.epoch = s.authority.epoch
      /\ entry.outcome \notin {"promoted", "reverted"}
    <2>1. entry \in LineageEntry
        BY <1>0, EntryType DEF Outcome
    <2> QED BY <2>1 DEF Entry
<1>6. \/ Refusals /\ Answer(s, disk, m)
      \/ TableFull(s.attempts, id) /\ Answer(full, d1, m)
      \/ Die(d1)
      \/ Answer(Numbered(claimed), d1, m)
      \/ Finish(Numbered(final), d2, granted, TRUE)
      \/ Finish(Remember(Numbered(final), entry), LogLineage(d2, entry), m, TRUE)
      \/ Die(d2)
      \/ Answer(Numbered(final), d2, m)
    BY DEF Begin
<1> HIDE DEF Numbered, claimed, final, entry, granted, full
<1>7. ASSUME NEW r \in Attempt, r.state # "none", r.basis = s.authority,
             NEW t \in DurableState, Elsewhere(t, s), t.attempt_sequence >= id,
             \/ t.attempts = [WithRoom(s.attempts, id) EXCEPT ![id] = r]
             \/ t.attempts = s.attempts /\ TableFull(s.attempts, id)
      PROVE  /\ LogAttempt(disk, id, r) \in DurableState
             /\ Paired(t, LogAttempt(disk, id, r))
             /\ Follows(disk, t, LogAttempt(disk, id, r))
    <2> DEFINE e == LogAttempt(disk, id, r)
    <2>1. /\ e \in DurableState /\ Paired(t, e)
          /\ Final(disk.attempts, t.attempts, e.attempts) /\ Elsewhere(e, disk)
        BY <1>7, NewPaired
    <2> HIDE DEF e
    <2>2. Follows(disk, t, e)
        BY <2>1, AttemptFollows
    <2> QED BY <2>1, <2>2 DEF e
<1>8. /\ d1 \in DurableState /\ Paired(Numbered(claimed), d1)
      /\ Follows(disk, Numbered(claimed), d1)
    BY <1>1, <1>2, <1>7
<1>9. ASSUME TableFull(s.attempts, id)
      PROVE  Paired(full, d1) /\ Follows(disk, full, d1)
    BY <1>1, <1>3, <1>7, <1>9
<1>10. /\ d2 \in DurableState /\ Paired(Numbered(final), d2)
       /\ Follows(disk, Numbered(final), d2)
    BY <1>1, <1>2, <1>4, <1>7
<1>11. Numbered(claimed) \in DurableState /\ Numbered(final) \in DurableState
    BY <1>1, <1>2
<1> HIDE DEF d1, d2
<1>12. /\ Remember(Numbered(final), entry) \in DurableState
       /\ LogLineage(d2, entry) \in DurableState
       /\ Paired(Remember(Numbered(final), entry), LogLineage(d2, entry))
       /\ Follows(disk, Remember(Numbered(final), entry), LogLineage(d2, entry))
    <2> DEFINE n == Numbered(final)
    <2>1. entry.epoch = n.authority.epoch /\ entry.attempt <= n.attempt_sequence
        <3>1. n.authority = s.authority /\ n.attempt_sequence >= id
              /\ n.attempt_sequence \in Nat
            BY <1>1, <1>2, <1>11, Fields DEF Elsewhere
        <3> QED BY <1>0, <1>5, <3>1
    <2>2. Backs(n.attempts, entry) /\ Backs(d2.attempts, entry)
        BY <1>5 DEF Backs
    <2>3. n \in DurableState /\ Paired(n, d2) /\ Follows(disk, n, d2)
        BY <1>10, <1>11
    <2> HIDE DEF n
    <2>4. /\ Remember(n, entry) \in DurableState
          /\ LogLineage(d2, entry) \in DurableState
          /\ Paired(Remember(n, entry), LogLineage(d2, entry))
          /\ Follows(disk, Remember(n, entry), LogLineage(d2, entry))
        BY <1>5, <1>10, <2>1, <2>2, <2>3, TellPaired
    <2> QED BY <2>4 DEF n
<1>13. CASE Answer(s, disk, m)
    BY <1>13, EndsPaired
<1>14. CASE TableFull(s.attempts, id) /\ Answer(full, d1, m)
    BY <1>3, <1>8, <1>9, <1>14, EndsPaired
<1>15. CASE Die(d1) \/ Answer(Numbered(claimed), d1, m)
    BY <1>8, <1>11, <1>15, EndsPaired
<1>16. CASE \/ Finish(Numbered(final), d2, granted, TRUE)
            \/ Die(d2)
            \/ Answer(Numbered(final), d2, m)
    BY <1>10, <1>11, <1>16, EndsPaired
<1>17. CASE Finish(Remember(Numbered(final), entry), LogLineage(d2, entry), m, TRUE)
    BY <1>12, <1>17, EndsPaired
<1> QED BY <1>6, <1>13, <1>14, <1>15, <1>16, <1>17

LEMMA BeginPromotionPaired ==
    ASSUME TypeOK, ~Refusals => SingleOwner, RecoveryInv, NEW incumbent \in Paths, NEW set \in SetIds,
           BeginPromotion(incumbent, set)
    PROVE  RecoveryInv' /\ Onward
<1> DEFINE s == [state EXCEPT !.decision_sequence = @ + 1]
           m == [mem EXCEPT !.active = 0]
           id == state.attempt_sequence + 1
<1>t. /\ state \in DurableState /\ disk \in DurableState
      /\ disk.authority \in AuthorityVector
      /\ Image(disk) /\ Paired(state, disk)
    BY Fields DEF TypeOK, RecoveryInv, BeginPromotion
<1>1. /\ Elsewhere(s, state) /\ s.attempts = state.attempts
      /\ s.attempt_sequence = state.attempt_sequence /\ s \in DurableState
    <2>1. state.decision_sequence + 1 \in Nat
        BY <1>t, Fields
    <2> QED BY <1>t, <2>1 DEF DurableState, Elsewhere
<1>2. id \in AttemptIds /\ id > s.attempt_sequence
    <2>1. state.attempt_sequence < MaxAttempt
        BY DEF BeginPromotion
    <2> QED BY <1>t, <1>1, <2>1, Fields, MaxAttemptNat DEF AttemptIds
<1>3. \/ Answer(s, disk, m)
      \/ \E path \in Promotable(s, set, incumbent) \cup {NoPath} :
            Begin(s, m, id, incumbent, path)
    BY DEF BeginPromotion
<1> HIDE DEF s, m, id
<1>4. Paired(s, disk)
    BY <1>t, <1>1 DEF Paired, Same, Coherent, Exact, Elsewhere
<1>5. Follows(disk, s, disk)
    <2>1. Final(disk.attempts, state.attempts, disk.attempts)
        BY <1>t, Unmoved
    <2> QED BY <1>t, <1>1, <2>1, NoLessSame DEF Follows
<1>6. Promotable(s, set, incumbent) \subseteq Paths
    <2>1. s.sets[set].members \subseteq Paths
        BY <1>1, Fields DEF AlternateSet
    <2> QED BY <2>1 DEF Promotable
<1>7. CASE Answer(s, disk, m)
    BY <1>t, <1>1, <1>4, <1>5, <1>7, EndsPaired
<1>8. ASSUME NEW path \in Paths \cup {NoPath}, Begin(s, m, id, incumbent, path)
      PROVE  RecoveryInv' /\ Onward
    <2>1. ASSUME ~Refusals
          PROVE  ~TableFull(s.attempts, id)
        <3>1. ActiveIds(state.attempts) = {}
            BY <2>1, MaxAttemptNat DEF BeginPromotion, Contended, SingleOwner, ActiveIds, AttemptIds
        <3>2. state.attempts \in [AttemptIds -> Attempt]
            BY <1>t, Fields
        <3> QED BY <1>1, <3>1, <3>2, NotFull
    <2> QED BY <1>t, <1>1, <1>2, <1>4, <1>5, <1>8, <2>1, BeginPaired
<1> QED BY <1>3, <1>6, <1>7, <1>8

LEMMA RevertPaired ==
    ASSUME TypeOK, RecoveryInv, NEW committed \in AttemptIds, NEW target \in Paths, NEW v,
           Revert(committed, target, v)
    PROVE  RecoveryInv' /\ Onward
<1> DEFINE old == state.attempts[committed]
           id == state.attempt_sequence + 1
           decision == state.decision_sequence + 1
           record == [incumbent |-> old.selected, selected |-> target,
                      basis |-> state.authority, state |-> "committed",
                      revalidations |-> old.revalidations + 1]
           k == Keep(state, id, record)
           s == [k EXCEPT !.attempt_sequence = @ + 1, !.decision_sequence = decision]
           d == LogAttempt(disk, id, record)
           entry == Entry(state, decision, id, "reverted", target)
<1>t. state \in DurableState /\ disk \in DurableState /\ Image(disk) /\ Paired(state, disk)
    BY DEF TypeOK, RecoveryInv, Revert
<1>1. /\ id \in AttemptIds /\ id \in Nat /\ decision \in Nat
      /\ state.attempt_sequence \in Nat /\ id > state.attempt_sequence
    <2>1. state.attempt_sequence < MaxAttempt
        BY DEF Revert
    <2> QED BY <1>t, <2>1, Fields, MaxAttemptNat DEF AttemptIds
<1>2. /\ record \in Attempt /\ record.state = "committed" /\ record.state # "none"
      /\ record.selected = target /\ record.basis = state.authority
    BY <1>t, AttemptFields, Fields DEF Attempt, TerminalState
<1>3. \/ Finish(Remember(s, entry), LogLineage(d, entry), mem, TRUE)
      \/ Die(d)
      \/ Answer(s, d, mem)
    BY DEF Revert
<1>4. /\ entry \in LineageEntry /\ entry.attempt = id
      /\ entry.epoch = state.authority.epoch /\ entry.selected = target
    <2> HIDE DEF id, decision
    <2>1. entry \in LineageEntry
        BY <1>t, <1>1, EntryType DEF Outcome
    <2> QED BY <2>1 DEF Entry
<1> HIDE DEF id, decision, record, entry
<1>5. /\ k \in DurableState /\ Elsewhere(k, state)
      /\ k.attempts = [WithRoom(state.attempts, id) EXCEPT ![id] = record]
      /\ k.attempt_sequence = Larger(state.attempt_sequence, id)
    BY <1>t, <1>1, <1>2, KeepType, KeepFields DEF Elsewhere
<1> HIDE DEF k
<1>6. k.attempt_sequence + 1 \in Nat /\ k.attempt_sequence + 1 >= id
    BY <1>1, <1>5 DEF Larger
<1>7. /\ s \in DurableState /\ Elsewhere(s, k) /\ s.attempts = k.attempts
      /\ s.attempt_sequence = k.attempt_sequence + 1
    BY <1>1, <1>5, <1>6 DEF DurableState, Elsewhere
<1> HIDE DEF s
<1>8. Elsewhere(s, state) /\ s.attempt_sequence >= id
    BY <1>5, <1>6, <1>7 DEF Elsewhere
<1>9. /\ d \in DurableState /\ Paired(s, d)
      /\ Final(disk.attempts, s.attempts, d.attempts) /\ Elsewhere(d, disk)
      /\ d.attempts[id] = record
    <2>1. ~TableFull(state.attempts, id)
        <3>1. committed \in TerminalIds(state.attempts)
            BY DEF Revert, TerminalIds, TerminalState
        <3>2. state.attempts \in [AttemptIds -> Attempt]
            BY <1>t, Fields
        <3> QED BY <3>1, <3>2, NotFull
    <2> QED BY <1>t, <1>1, <1>2, <1>5, <1>7, <1>8, <2>1, NewPaired
<1> HIDE DEF d
<1>10. Follows(disk, s, d)
    BY <1>t, <1>9, AttemptFollows
<1>11. Backs(s.attempts, entry) /\ Backs(d.attempts, entry)
    <2>1. WithRoom(state.attempts, id) \in [AttemptIds -> Attempt]
        BY <1>t, <1>1, Fields, RoomDrops
    <2>2. s.attempts[id] = record
        BY <1>1, <1>5, <1>7, <2>1
    <2> QED BY <1>2, <1>4, <1>9, <2>2 DEF Backs
<1>12. entry.epoch = s.authority.epoch /\ entry.attempt <= s.attempt_sequence
    BY <1>1, <1>4, <1>6, <1>7, <1>8 DEF Elsewhere
<1>13. /\ Remember(s, entry) \in DurableState /\ LogLineage(d, entry) \in DurableState
       /\ Paired(Remember(s, entry), LogLineage(d, entry))
       /\ Follows(disk, Remember(s, entry), LogLineage(d, entry))
    BY <1>4, <1>7, <1>9, <1>10, <1>11, <1>12, TellPaired
<1>14. CASE Finish(Remember(s, entry), LogLineage(d, entry), mem, TRUE)
    BY <1>t, <1>13, <1>14, EndsPaired
<1>15. CASE Die(d) \/ Answer(s, d, mem)
    BY <1>t, <1>7, <1>9, <1>10, <1>15, EndsPaired
<1> QED BY <1>3, <1>14, <1>15

-----------------------------------------------------------------------------
(* The invariant, and what follows from it. *)

LEMMA RecoveryStep ==
    TypeOK /\ (~Refusals => SingleOwner) /\ RecoveryInv /\ [Next]_vars => RecoveryInv' /\ Onward
<1> SUFFICES ASSUME TypeOK, ~Refusals => SingleOwner, RecoveryInv, [Next]_vars
             PROVE  RecoveryInv' /\ Onward
    OBVIOUS
<1>1. CASE UNCHANGED vars
    <2>1. up' = up /\ state' = state /\ disk' = disk
        BY <1>1 DEF vars
    <2>2. NoLess(disk.authority, disk.authority)
        BY Fields, NoLessSame DEF TypeOK
    <2> QED BY <2>1, <2>2 DEF RecoveryInv, Onward
<1>2. CASE Next
    BY <1>2, OpenPaired, QuietPaired, PolicyPaired, ObligationsPaired, SetPaired,
       AuthorityPaired, FencePathPaired, BeginPromotionPaired, SettlingPaired,
       RevertPaired DEF Next
<1> QED BY <1>1, <1>2

\* The recovery argument needs to know that nothing is in flight when a
\* promotion begins, which is so as long as no append is refused.
LEMMA OwnersWithoutRefusals == Spec => [](~Refusals => SingleOwner)
<1>1. CASE Refusals
    <2>1. ~Refusals => SingleOwner
        BY <1>1
    <2> QED BY <2>1, PTL
<1>2. CASE ~Refusals
    BY <1>2, ExclusiveOwnership, PTL
<1> QED BY <1>1, <1>2

Recoverable == TypeOK /\ (~Refusals => SingleOwner) /\ RecoveryInv

LEMMA RecoveryHolds == Spec => []Recoverable
<1>1. Init => RecoveryInv
    BY RecoveryInit
<1>2. TypeOK /\ (~Refusals => SingleOwner) /\ RecoveryInv /\ [Next]_vars => RecoveryInv'
    BY RecoveryStep
<1> QED BY <1>1, <1>2, TypeCorrect, OwnersWithoutRefusals, PTL DEF Spec, Recoverable

\* A fence of a path or of an attempt, once it is in memory or on disk, is on
\* disk after every step: appends that the store refuses, crashes in the middle
\* of a handler, restarts and snapshots included.
THEOREM FencesKept == Spec => FencesAreForever
<1>1. Recoverable /\ [Next]_vars
        => [state.fences \cup disk.fences \subseteq disk'.fences]_vars
    <2> SUFFICES ASSUME Recoverable, [Next]_vars
                 PROVE  state.fences \cup disk.fences \subseteq disk'.fences
        OBVIOUS
    <2>1. disk.fences \subseteq disk'.fences
        BY RecoveryStep DEF Onward, Recoverable
    <2>2. CASE up
        BY <2>1, <2>2 DEF Recoverable, RecoveryInv, Paired, Same
    <2>3. CASE ~up
        BY <2>1, <2>3 DEF Recoverable, TypeOK, EmptyState
    <2> QED BY <2>2, <2>3
<1> QED BY <1>1, RecoveryHolds, PTL DEF Spec, FencesAreForever

\* How an attempt ended is never rewritten on disk while its identity is its
\* own, whichever append the store refuses and wherever the process dies.
THEOREM OutcomesKept == Spec => TerminalIsFinal
<1> DEFINE Kept == \A i \in AttemptIds :
                       LET old == disk.attempts[i]
                           new == disk'.attempts[i]
                       IN  old.state \in TerminalState /\ new.basis.epoch = old.basis.epoch
                               => new = old
<1>1. Recoverable /\ [Next]_vars => [Kept]_vars
    BY RecoveryStep DEF Onward, Recoverable
<1> QED BY <1>1, RecoveryHolds, PTL DEF Spec, TerminalIsFinal

\* An entry of the history on disk that tells of a promotion or a reversion is
\* backed by the record of its attempt, whichever append the store refuses.
THEOREM HistoryBacked == Spec => []LineageBacked
<1>1. TypeOK /\ RecoveryInv => LineageBacked
    <2> SUFFICES ASSUME TypeOK, RecoveryInv, NEW k \in DOMAIN disk.lineage
                 PROVE  LET e == disk.lineage[k]
                            r == IF e.attempt \in AttemptIds THEN disk.attempts[e.attempt]
                                 ELSE NoAttempt
                        IN  e.outcome \in {"promoted", "reverted"} /\ r.basis.epoch = e.epoch =>
                                r.state = "committed" /\ r.selected = e.selected
        BY DEF LineageBacked
    <2> DEFINE e == disk.lineage[k]
    <2>1. Backs(disk.attempts, e) /\ e.epoch # 0
        BY DEF RecoveryInv, Image, Sound, Entries
    <2> HIDE DEF e
    <2>2. CASE e.attempt \in AttemptIds
        BY <2>1, <2>2 DEF Backs, e
    <2>3. CASE e.attempt \notin AttemptIds
        BY <2>1, <2>3, StatesDisjoint DEF e
    <2> QED BY <2>2, <2>3
<1> QED BY <1>1, RecoveryHolds, PTL DEF Recoverable

\* While the store accepts every append, the handlers and the replay of their
\* records agree, each with the bounds and evictions of its own code: a restart
\* would recover what memory relies on, but for ended attempts that replay, with
\* max_attempts of them on disk, dropped before memory did.
THEOREM ReplayAgrees ==
    ASSUME ~Refusals
    PROVE  Spec => []RecoveryAgrees
<1>1. RecoveryInv => RecoveryAgrees
    <2> SUFFICES ASSUME RecoveryInv, up
                 PROVE  RecoveryAgrees
        BY DEF RecoveryAgrees
    <2>1. Same(state, disk) /\ Exact(state, disk)
        BY DEF RecoveryInv, Paired
    <2>2. ActiveIds(disk.attempts) = ActiveIds(state.attempts)
        BY <2>1, StatesDisjoint DEF Exact, Agree, ActiveIds
    <2>3. \A i \in Retained(state.attempts) :
              \/ disk.attempts[i] = state.attempts[i]
              \/ /\ i \in TerminalIds(state.attempts)
                 /\ disk.attempts[i] = NoAttempt
                 /\ Cardinality(Retained(disk.attempts)) >= MaxAttempts
        BY <2>1 DEF Exact, Agree, Retained, TerminalIds
    <2> QED BY <2>1, <2>2, <2>3 DEF Same, Exact, RecoveryAgrees
<1> QED BY <1>1, RecoveryHolds, PTL DEF Recoverable

\* While the store accepts every append, no generation, epoch or boot identity
\* that memory or disk held is taken back by a step.
THEOREM AuthorityKept ==
    ASSUME ~Refusals
    PROVE  Spec => AuthorityNeverRegresses
<1> DEFINE Kept == \A f \in DOMAIN NoAuthority :
                       /\ disk.authority[f] <= disk'.authority[f]
                       /\ up => state.authority[f] <= disk'.authority[f]
<1>1. Recoverable /\ [Next]_vars => [Kept]_vars
    <2> SUFFICES ASSUME Recoverable, [Next]_vars
                 PROVE  Kept
        OBVIOUS
    <2>1. NoLess(disk.authority, disk'.authority)
        BY RecoveryStep DEF Onward, Recoverable
    <2>2. up => state.authority = disk.authority
        BY DEF Recoverable, RecoveryInv, Paired, Exact
    <2> QED BY <2>1, <2>2 DEF NoLess
<1> QED BY <1>1, RecoveryHolds, PTL DEF Spec, AuthorityNeverRegresses

-----------------------------------------------------------------------------
(* A snapshot decodes to the state it was taken of.  The induction over the *)
(* history is an argument about the first entry that would be told wrong.   *)

\* The state base, with the first n entries of the history q.
Told(base, q, n) == [base EXCEPT !.lineage = SubSeq(q, 1, n)]

LEMMA ToldEnds ==
    ASSUME NEW base \in DurableState, base.lineage = <<>>, NEW q \in Seq(LineageEntry)
    PROVE  Told(base, q, 0) = base /\ Told(base, q, Len(q)) = [base EXCEPT !.lineage = q]
<1>1. SubSeq(q, 1, 0) = <<>> /\ SubSeq(q, 1, Len(q)) = q
    BY SubSeqFull, SubSeqEmpty
<1>2. [base EXCEPT !.lineage = <<>>] = base
    BY DEF DurableState
<1> QED BY <1>1, <1>2 DEF Told

\* A bounded history drops nothing while it is told.
LEMMA ToldNext ==
    ASSUME NEW base \in DurableState, NEW q \in Seq(LineageEntry), Len(q) <= MaxLineage,
           NEW n \in 1 .. Len(q)
    PROVE  LogLineage(Told(base, q, n - 1), q[n]) = Told(base, q, n)
<1> DEFINE front == SubSeq(q, 1, n - 1)
           p == [base EXCEPT !.lineage = front]
<1>m. MaxLineage \in Nat \ {0} /\ Len(q) \in Nat /\ n \in Nat /\ q[n] \in LineageEntry
    BY ConstantsAssumption
<1>1. front \in Seq(LineageEntry) /\ Len(front) = n - 1
    BY <1>m, SubSeqProperties
<1>2. SubSeq(q, 1, n) = front \o <<q[n]>>
    BY <1>m, SubSeqRecursiveSecond
<1>h. Told(base, q, n - 1) = p
    BY DEF Told
<1> HIDE DEF front
<1>3. Append(front, q[n]) = front \o <<q[n]>>
    BY <1>1, <1>m, AppendIsConcat
<1>4. ~(Len(front) >= MaxLineage)
    BY <1>1, <1>m
<1>5. Remembered(front, q[n]) = SubSeq(q, 1, n)
    BY <1>2, <1>3, <1>4 DEF Remembered
<1>6. p.lineage = front
    BY DEF DurableState
<1>7. LogLineage(p, q[n]) = [p EXCEPT !.lineage = SubSeq(q, 1, n)]
    BY <1>5, <1>6 DEF LogLineage
<1>8. [p EXCEPT !.lineage = SubSeq(q, 1, n)] = Told(base, q, n)
    BY DEF DurableState, Told
<1> QED BY <1>h, <1>7, <1>8

\* Whatever function satisfies the equation of Snapshot's replay of the history
\* rebuilds it, and there is one.
LEMMA HistoryReplays ==
    ASSUME NEW base \in DurableState, base.lineage = <<>>, NEW q \in Seq(LineageEntry),
           Len(q) <= MaxLineage
    PROVE  LET lineage[n \in 0 .. Len(q)] ==
                   IF n = 0 THEN base ELSE LogLineage(lineage[n - 1], q[n])
           IN  lineage[Len(q)] = [base EXCEPT !.lineage = q]
<1> DEFINE g == [n \in 0 .. Len(q) |-> Told(base, q, n)]
           F(f) == [n \in 0 .. Len(q) |-> IF n = 0 THEN base ELSE LogLineage(f[n - 1], q[n])]
           h == CHOOSE f : f = F(f)
<1>0. Len(q) \in Nat
    OBVIOUS
<1>1. g = F(g)
    <2>1. ASSUME NEW n \in 0 .. Len(q)
          PROVE  g[n] = IF n = 0 THEN base ELSE LogLineage(g[n - 1], q[n])
        <3>1. CASE n = 0
            BY <3>1, ToldEnds
        <3>2. CASE n # 0
            <4>1. n \in 1 .. Len(q) /\ n - 1 \in 0 .. Len(q)
                BY <1>0, <3>2
            <4> QED BY <3>2, <4>1, ToldNext
        <3> QED BY <3>1, <3>2
    <2> QED BY <2>1
<1>2. h = F(h)
    <2> HIDE DEF F, g
    <2> QED BY <1>1
<1>3. \A n \in 0 .. Len(q) : h[n] = IF n = 0 THEN base ELSE LogLineage(h[n - 1], q[n])
    <2> HIDE DEF h
    <2> QED BY <1>2
<1>4. ASSUME NEW n \in 0 .. Len(q), h[n] # Told(base, q, n)
      PROVE  FALSE
    <2> DEFINE Bad == {i \in 0 .. Len(q) : h[i] # Told(base, q, i)}
    <2> HIDE DEF h
    <2>1. Bad \in SUBSET Nat /\ Bad # {}
        BY <1>4
    <2>2. PICK i \in Bad : \A j \in Bad : i <= j
        <3> HIDE DEF Bad
        <3> QED BY <2>1, Smallest
    <2>3. i # 0
        BY <1>0, <1>3, <2>2, ToldEnds
    <2>4. i \in 1 .. Len(q) /\ i - 1 \in 0 .. Len(q) /\ ~(i <= i - 1)
        BY <1>0, <2>2, <2>3
    <2>5. h[i - 1] = Told(base, q, i - 1)
        BY <2>2, <2>4
    <2>6. h[i] = LogLineage(h[i - 1], q[i])
        BY <1>3, <2>2, <2>3
    <2>7. h[i] = Told(base, q, i)
        BY <2>4, <2>5, <2>6, ToldNext
    <2> QED BY <2>2, <2>7
<1>5. Len(q) \in 0 .. Len(q)
    BY <1>0
<1>6. h[Len(q)] = [base EXCEPT !.lineage = q]
    <2> HIDE DEF h
    <2> QED BY <1>4, <1>5, ToldEnds
<1> QED BY <1>6

LEMMA SnapshotIsState ==
    ASSUME NEW s \in DurableState, Coherent(s),
           \A i \in AttemptIds : s.attempts[i].state = "none" => s.attempts[i] = NoAttempt
    PROVE  Snapshot(s) = s
<1> DEFINE counters == LogEpoch(EmptyState, s)
           policy == IF s.policy.generation = 0 THEN counters ELSE LogPolicy(counters, s.policy)
           obligations == IF s.obligations = 0 THEN policy
                          ELSE LogObligations(policy, s.obligations)
           sets == [obligations EXCEPT !.sets = [i \in SetIds |->
                      IF s.sets[i].generation = 0 THEN @[i] ELSE s.sets[i]]]
           attempts == LogAttempts(LogFences(sets, s.fences), s.attempts, Retained(s.attempts))
<1>1. Snapshot(s) = LET lineage[n \in 0 .. Len(s.lineage)] ==
                            IF n = 0 THEN attempts ELSE LogLineage(lineage[n - 1], s.lineage[n])
                    IN  lineage[Len(s.lineage)]
    BY DEF Snapshot
<1>2. EmptyState \in DurableState
    BY EmptyTypes
<1>3. counters = [EmptyState EXCEPT !.authority = s.authority,
                                    !.attempt_sequence = s.attempt_sequence,
                                    !.fence_sequence = s.fence_sequence,
                                    !.decision_sequence = s.decision_sequence]
    <2>1. \A n \in Nat : Larger(0, n) = n
        BY DEF Larger
    <2>2. EmptyState.attempt_sequence = 0 /\ EmptyState.fence_sequence = 0
          /\ EmptyState.decision_sequence = 0
        BY DEF EmptyState
    <2> QED BY <2>1, <2>2, Fields DEF LogEpoch
<1> HIDE DEF counters
<1>4. counters \in DurableState /\ counters.authority = s.authority
      /\ counters.policy = [generation |-> 0, max_revalidations |-> 0]
      /\ counters.obligations = 0 /\ counters.sets = [i \in SetIds |-> NoSet]
      /\ counters.fences = {} /\ counters.attempts = [i \in AttemptIds |-> NoAttempt]
      /\ counters.lineage = <<>> /\ counters.attempt_sequence = s.attempt_sequence
      /\ counters.fence_sequence = s.fence_sequence
      /\ counters.decision_sequence = s.decision_sequence
    <2>1. counters \in DurableState
        BY <1>2, LogEpochType DEF counters
    <2> QED BY <1>3, <2>1 DEF EmptyState, NoSet
<1>5. policy = [counters EXCEPT !.policy = s.policy]
    <2>1. CASE s.policy.generation = 0
        <3>1. s.policy = counters.policy
            BY <1>4, <2>1, Fields DEF Coherent, Policy
        <3> QED BY <1>4, <2>1, <3>1 DEF DurableState
    <2>2. CASE s.policy.generation # 0
        <3>1. [counters.authority EXCEPT !.policy = s.policy.generation] = counters.authority
            BY <1>4, Fields DEF Coherent, AuthorityVector
        <3> QED BY <1>4, <2>2, <3>1 DEF LogPolicy, DurableState
    <2> QED BY <2>1, <2>2
<1> HIDE DEF policy
<1>6. obligations = [counters EXCEPT !.policy = s.policy, !.obligations = s.obligations]
    <2>1. CASE s.obligations = 0
        BY <1>4, <1>5, <2>1 DEF DurableState
    <2>2. CASE s.obligations # 0
        <3>1. policy.authority = s.authority
            BY <1>4, <1>5 DEF DurableState
        <3>2. [policy.authority EXCEPT !.obligations = s.obligations] = policy.authority
            BY <3>1, Fields DEF Coherent, AuthorityVector
        <3>3. LogObligations(policy, s.obligations) =
                [policy EXCEPT !.obligations = s.obligations, !.authority = policy.authority]
            BY <3>2 DEF LogObligations
        <3> QED BY <1>4, <1>5, <2>2, <3>3 DEF DurableState
    <2> QED BY <2>1, <2>2
<1> HIDE DEF obligations
<1>7. sets = [counters EXCEPT !.policy = s.policy, !.obligations = s.obligations,
                              !.sets = s.sets]
    <2>1. obligations.sets = [i \in SetIds |-> NoSet]
        BY <1>4, <1>6 DEF DurableState
    <2>2. [i \in SetIds |-> IF s.sets[i].generation = 0 THEN obligations.sets[i]
                            ELSE s.sets[i]] = s.sets
        BY <2>1, Fields DEF Coherent
    <2>3. sets = [obligations EXCEPT !.sets = s.sets]
        BY <2>2
    <2> QED BY <1>4, <1>6, <2>3 DEF DurableState
<1> HIDE DEF sets
<1>8. attempts = [counters EXCEPT !.policy = s.policy, !.obligations = s.obligations,
                                  !.sets = s.sets, !.fences = s.fences, !.attempts = s.attempts]
    <2> DEFINE fences == LogFences(sets, s.fences)
    <2>1. fences = [counters EXCEPT !.policy = s.policy, !.obligations = s.obligations,
                                    !.sets = s.sets, !.fences = s.fences]
        <3>1. sets.fences = {}
            BY <1>4, <1>7 DEF DurableState
        <3>2. fences = [sets EXCEPT !.fences = s.fences]
            BY <3>1 DEF LogFences
        <3> QED BY <1>4, <1>7, <3>2 DEF DurableState
    <2> HIDE DEF fences
    <2>2. fences.attempts = [i \in AttemptIds |-> NoAttempt]
        BY <1>4, <2>1 DEF DurableState
    <2>3. [i \in AttemptIds |-> IF i \in Retained(s.attempts) THEN s.attempts[i]
                                ELSE fences.attempts[i]] = s.attempts
        BY <2>2, Fields DEF Retained
    <2>4. attempts = [fences EXCEPT !.attempts = s.attempts]
        BY <2>3 DEF LogAttempts, fences
    <2> QED BY <1>4, <2>1, <2>4 DEF DurableState
<1> HIDE DEF attempts
<1>9. attempts \in DurableState /\ attempts.lineage = <<>>
      /\ [attempts EXCEPT !.lineage = s.lineage] = s
    BY <1>4, <1>8, Fields DEF DurableState
<1>10. s.lineage \in Seq(LineageEntry) /\ Len(s.lineage) <= MaxLineage
    BY Fields DEF Coherent
<1>11. LET lineage[n \in 0 .. Len(s.lineage)] ==
               IF n = 0 THEN attempts ELSE LogLineage(lineage[n - 1], s.lineage[n])
       IN  lineage[Len(s.lineage)] = [attempts EXCEPT !.lineage = s.lineage]
    BY <1>9, <1>10, HistoryReplays
<1> QED BY <1>1, <1>9, <1>11

\* Compaction changes nothing, whichever append was refused before it.
THEOREM SnapshotsFaithful == Spec => []SnapshotFaithful
<1>1. TypeOK /\ RecoveryInv => SnapshotFaithful
    <2> SUFFICES ASSUME TypeOK, RecoveryInv, up
                 PROVE  Snapshot(state) = state
        BY DEF SnapshotFaithful
    <2>1. Coherent(state) /\ state \in DurableState
        BY DEF TypeOK, RecoveryInv, Paired
    <2>2. \A i \in AttemptIds : state.attempts[i].state = "none" => state.attempts[i] = NoAttempt
        BY DEF RecoveryInv, Paired, InStep, Sound, Known
    <2> QED BY <2>1, <2>2, SnapshotIsState
<1> QED BY <1>1, RecoveryHolds, PTL DEF Recoverable

-----------------------------------------------------------------------------
(* The transition and the grant.  Whatever ends an attempt also releases   *)
(* them, except where a full fence table ends fence_attempts_locked early. *)

\* The transition is owned by an attempt in flight or by nobody, and the only
\* grant is the owner's.
Free(s, m) ==
    /\ m.active # 0 => m.active \in ActiveIds(s.attempts)
    /\ m.grants = {m.active} \ {0}

\* The inductive invariant, next to Ownership.  Fences can be counted, so that
\* a table that is full stays full.
ReleaseInv ==
    /\ IsFiniteSet(state.fences)
    /\ IsFiniteSet(disk.fences)
    /\ Cardinality(state.fences) < MaxFences => Free(state, mem)

\* The fences of s and d are those there were, and finitely many more.
MoreFences(s, d) ==
    /\ IsFiniteSet(s.fences)
    /\ IsFiniteSet(d.fences)
    /\ state.fences \subseteq s.fences

LEMMA MaxFencesNat == MaxFences \in Nat
BY ConstantsAssumption

LEMMA EndsReleased ==
    ASSUME ReleaseInv, NEW s, NEW d, NEW m, NEW compacts, MoreFences(s, d),
           \/ Free(state, mem) => Free(s, m)
           \/ Cardinality(s.fences) >= MaxFences
    PROVE  /\ Answer(s, d, m) => ReleaseInv'
           /\ Finish(s, d, m, compacts) => ReleaseInv'
<1>1. Cardinality(s.fences) \in Nat /\ Cardinality(state.fences) \in Nat
      /\ Cardinality(state.fences) <= Cardinality(s.fences)
    BY FS_Subset, FS_CardinalityType DEF MoreFences, ReleaseInv
<1>2. Cardinality(s.fences) < MaxFences => Free(s, m)
    BY <1>1, MaxFencesNat DEF ReleaseInv
<1>3. ASSUME NEW e, IsFiniteSet(e.fences), Answer(s, e, m)
      PROVE  ReleaseInv'
    <2>1. state' = s /\ disk' = e /\ mem' = m
        BY <1>3 DEF Answer
    <2> QED BY <1>2, <1>3, <2>1 DEF MoreFences, ReleaseInv, Free
<1>4. Compact(s, m) => ReleaseInv'
    <2>1. Compact(s, m) => state' = s /\ disk' = s /\ mem' = m
        BY DEF Compact
    <2> QED BY <1>2, <2>1 DEF MoreFences, ReleaseInv, Free
<1> QED BY <1>3, <1>4 DEF Finish, MoreFences

LEMMA DeathReleases ==
    ASSUME NEW d, IsFiniteSet(d.fences)
    PROVE  Die(d) => ReleaseInv'
<1>1. Free(EmptyState, EmptyMemory)
    BY DEF Free, EmptyMemory
<1>2. IsFiniteSet(EmptyState.fences)
    BY FS_EmptySet DEF EmptyState
<1>3. Die(d) => state' = EmptyState /\ mem' = EmptyMemory /\ disk' = d
    BY DEF Die
<1> QED BY <1>1, <1>2, <1>3 DEF ReleaseInv, Free

-----------------------------------------------------------------------------
(* Stopping attempts. *)

LEMMA AttemptFencesFinite ==
    ASSUME NEW s \in DurableState, NEW F \in SUBSET AttemptIds
    PROVE  IsFiniteSet(AttemptFences(s, F))
<1> DEFINE Num(i) == [id |-> s.fence_sequence + Cardinality({j \in F : j <= i}),
                      epoch |-> s.authority.epoch, attempt |-> i, path |-> NoPath]
           f == [i \in F |-> Num(i)]
           T == AttemptFences(s, F)
<1>1. IsFiniteSet(F)
    BY AttemptIdsFinite
<1>2. T = {Num(i) : i \in F}
    BY DEF AttemptFences
<1> HIDE DEF Num, T
<1>3. f \in Surjection(F, T)
    BY <1>2 DEF Surjection
<1> HIDE DEF f
<1>4. IsFiniteSet(T)
    BY <1>1, <1>3, FS_Surjection
<1> QED BY <1>4 DEF T

LEMMA StopFences ==
    ASSUME NEW s \in DurableState, NEW d \in DurableState, MoreFences(s, d),
           NEW A, NEW W, NEW F \in SUBSET AttemptIds, NEW how
    PROVE  MoreFences(Stop(s, A, F, how), LogStop(d, s, W, F, how))
<1>1. IsFiniteSet(AttemptFences(s, F))
    BY AttemptFencesFinite
<1>2. /\ IsFiniteSet(s.fences \cup AttemptFences(s, F))
      /\ IsFiniteSet(d.fences \cup AttemptFences(s, F))
    BY <1>1, FS_Union DEF MoreFences
<1>3. Stop(s, A, F, how).fences = s.fences \cup AttemptFences(s, F)
    BY StopFields
<1>4. LogStop(d, s, W, F, how).fences = d.fences \cup AttemptFences(s, F)
    BY DEF LogStop, LogFences, LogAttempts, DurableState
<1> QED BY <1>2, <1>3, <1>4 DEF MoreFences

LEMMA FenceAttemptsReleased ==
    ASSUME ~Refusals, TypeOK, ReleaseInv, NEW s \in DurableState, NEW d \in DurableState,
           NEW compacts, MoreFences(s, d), s.attempts = state.attempts,
           ActiveIds(state.attempts) \subseteq {mem.active}, FenceAttempts(s, d, compacts)
    PROVE  ReleaseInv'
<1> DEFINE ids == ActiveIds(s.attempts)
           released == IF ids = {} THEN mem
                       ELSE [mem EXCEPT !.active = 0, !.grants = @ \ ids]
<1>t. mem \in Memory /\ ids \in SUBSET AttemptIds
    BY ActiveIdsType DEF TypeOK
<1>1. \/ Finish(Stop(s, ids, ids, "fenced"), LogStop(d, s, ids, ids, "fenced"), released, compacts)
      \/ /\ Cardinality(ids) > Room(s)
         /\ \E p \in Progress(ids) :
              Answer(Stop(s, p[1], p[2], "fenced"), LogStop(d, s, p[1], p[2], "fenced"), mem)
      \/ \E p \in Progress(ids) : Die(LogStop(d, s, p[1], p[2], "fenced"))
    BY DEF FenceAttempts
<1>2. ids \subseteq {mem.active}
    OBVIOUS
<1>3. ASSUME Free(state, mem), NEW t
      PROVE  Free(t, released)
    <2>1. released.active = 0 /\ released.grants = {}
        <3>1. CASE ids = {}
            BY <1>3, <3>1 DEF Free
        <3>2. CASE ids # {}
            <4>1. ids = {mem.active}
                BY <1>2, <3>2
            <4> HIDE DEF ids
            <4> QED BY <1>3, <1>t, <3>2, <4>1 DEF Free, Memory
        <3> QED BY <3>1, <3>2
    <2> HIDE DEF released
    <2> QED BY <2>1 DEF Free
<1> HIDE DEF ids, released
<1>4. ASSUME NEW A, NEW F \in SUBSET AttemptIds
      PROVE  MoreFences(Stop(s, A, F, "fenced"), LogStop(d, s, A, F, "fenced"))
    BY StopFences
<1>5. CASE Finish(Stop(s, ids, ids, "fenced"), LogStop(d, s, ids, ids, "fenced"),
                  released, compacts)
    BY <1>t, <1>3, <1>4, <1>5, EndsReleased
\* With one attempt in flight the table must have been full before.
<1>6. ASSUME Cardinality(ids) > Room(s), NEW p \in Progress(ids),
             Answer(Stop(s, p[1], p[2], "fenced"), LogStop(d, s, p[1], p[2], "fenced"), mem)
      PROVE  ReleaseInv'
    <2> DEFINE t == Stop(s, p[1], p[2], "fenced")
               e == LogStop(d, s, p[1], p[2], "fenced")
    <2>1. Cardinality(ids) \in Nat /\ Cardinality(ids) <= 1
        <3>1. IsFiniteSet({mem.active}) /\ Cardinality({mem.active}) = 1
            BY FS_Singleton
        <3>2. ids \in SUBSET {mem.active}
            BY <1>2
        <3> QED BY <1>t, <3>1, <3>2, FS_Subset, AttemptIdsFinite
    <2>2. IsFiniteSet(s.fences) /\ Cardinality(s.fences) \in Nat
        BY FS_CardinalityType DEF MoreFences
    <2>3. Cardinality(s.fences) >= MaxFences
        BY <1>6, <2>1, <2>2, MaxFencesNat DEF Room
    <2>4. p[2] \in SUBSET AttemptIds
        BY <1>t, ProgressType
    <2>5. MoreFences(t, e)
        BY <1>4, <2>4
    <2>6. s.fences \subseteq t.fences
        BY StopFields
    <2> HIDE DEF t, e
    <2>7. Cardinality(t.fences) >= MaxFences
        <3>1. IsFiniteSet(t.fences)
            BY <2>5 DEF MoreFences
        <3>2. Cardinality(t.fences) \in Nat /\ Cardinality(s.fences) <= Cardinality(t.fences)
            BY <2>6, <3>1, FS_Subset, FS_CardinalityType
        <3> QED BY <2>2, <2>3, <3>2, MaxFencesNat
    <2>8. Answer(t, e, mem)
        BY <1>6 DEF t, e
    <2> QED BY <2>5, <2>7, <2>8, EndsReleased
<1>7. ASSUME NEW p \in Progress(ids), Die(LogStop(d, s, p[1], p[2], "fenced"))
      PROVE  ReleaseInv'
    <2>1. p[2] \in SUBSET AttemptIds
        BY <1>t, ProgressType
    <2>2. IsFiniteSet(LogStop(d, s, p[1], p[2], "fenced").fences)
        BY <1>4, <2>1 DEF MoreFences
    <2> QED BY <1>7, <2>2, DeathReleases
<1> QED BY <1>1, <1>5, <1>6, <1>7

\* What leaves the fences and the attempt table alone.
LEMMA AsideReleased ==
    ASSUME ReleaseInv, NEW s, NEW d, NEW compacts, NEW m,
           s.fences = state.fences, d.fences = disk.fences, s.attempts = state.attempts,
           m.active = mem.active, m.grants = mem.grants
    PROVE  /\ MoreFences(s, d)
           /\ Answer(s, d, m) => ReleaseInv'
           /\ Finish(s, d, m, compacts) => ReleaseInv'
<1>1. MoreFences(s, d)
    BY DEF MoreFences, ReleaseInv
<1>2. Free(state, mem) => Free(s, m)
    BY DEF Free
<1> QED BY <1>1, <1>2, EndsReleased

LEMMA OpenReleased ==
    ASSUME TypeOK, ReleaseInv, Open
    PROVE  ReleaseInv'
<1> DEFINE epoch == disk.authority.epoch + 1
           a == [disk.authority EXCEPT !.epoch = epoch, !.boot = epoch]
           s == [disk EXCEPT !.authority.epoch = epoch, !.authority.boot = epoch]
           d == LogEpoch(disk, s)
           ids == ActiveIds(s.attempts)
<1>t. disk \in DurableState
    BY DEF TypeOK
<1>1. s \in DurableState /\ s.fences = disk.fences
    <2>1. disk.authority \in AuthorityVector /\ epoch \in Nat
        BY <1>t, Fields, VectorFields
    <2>2. a \in AuthorityVector
        <3> HIDE DEF epoch
        <3> QED BY <2>1, VectorUpdates
    <2>3. s = [disk EXCEPT !.authority = a]
        OBVIOUS
    <2> HIDE DEF s, a
    <2> QED BY <1>t, <2>2, <2>3 DEF DurableState
<1>2. \/ Finish(Stop(s, ids, ids, "interrupted"), LogStop(d, s, ids, ids, "interrupted"),
                EmptyMemory, TRUE)
      \/ \E p \in Progress(ids) : Die(LogStop(d, s, p[1], p[2], "interrupted"))
    BY DEF Open
<1> HIDE DEF s
<1>3. d \in DurableState /\ d.fences = disk.fences
    BY <1>t, <1>1, LogEpochType, LogEpochFields
<1>4. MoreFences(s, d) /\ ids \in SUBSET AttemptIds
    <2>1. state.fences = {}
        BY DEF Open, TypeOK, EmptyState
    <2> QED BY <1>1, <1>3, <2>1, ActiveIdsType DEF MoreFences, ReleaseInv
<1> HIDE DEF d, ids
<1>5. ASSUME NEW A, NEW F \in SUBSET AttemptIds
      PROVE  MoreFences(Stop(s, A, F, "interrupted"), LogStop(d, s, A, F, "interrupted"))
    BY <1>1, <1>3, <1>4, StopFences
<1>6. CASE Finish(Stop(s, ids, ids, "interrupted"), LogStop(d, s, ids, ids, "interrupted"),
                  EmptyMemory, TRUE)
    <2>1. \A t : Free(t, EmptyMemory)
        BY DEF Free, EmptyMemory
    <2> QED BY <1>4, <1>5, <1>6, <2>1, EndsReleased
<1>7. ASSUME NEW p \in Progress(ids), Die(LogStop(d, s, p[1], p[2], "interrupted"))
      PROVE  ReleaseInv'
    <2>1. p[2] \in SUBSET AttemptIds
        BY <1>4, ProgressType
    <2>2. IsFiniteSet(LogStop(d, s, p[1], p[2], "interrupted").fences)
        BY <1>5, <2>1 DEF MoreFences
    <2> QED BY <1>7, <2>2, DeathReleases
<1> QED BY <1>2, <1>6, <1>7

LEMMA IngestReleased ==
    ASSUME ~Refusals, TypeOK, Ownership, ReleaseInv
    PROVE  /\ \A g \in 1 .. MaxPolicy, b \in 0 .. MaxBudget :
                ApplyPolicy([generation |-> g, max_revalidations |-> b]) => ReleaseInv'
           /\ \A g \in 1 .. MaxObligations : ApplyObligations(g) => ReleaseInv'
           /\ \A id \in SetIds : \A set : ApplyAlternateSet(id, set) => ReleaseInv'
           /\ \A p \in Paths, q \in 1 .. MaxObservation : ApplyEvidence(p, q) => ReleaseInv'
           /\ \A top \in 0 .. MaxTopology, a \in 0 .. MaxPathAuthority :
                SetAuthority(top, a) => ReleaseInv'
           /\ FenceAll => ReleaseInv'
           /\ Crash => ReleaseInv'
           /\ Evaluate => ReleaseInv'
<1>t. state \in DurableState /\ disk \in DurableState /\ mem \in Memory
    BY DEF TypeOK
<1>o. ActiveIds(state.attempts) \subseteq {mem.active}
    BY DEF Ownership, SingleOwner
<1>f. ASSUME NEW s \in DurableState, NEW d \in DurableState, NEW compacts,
             s.fences = state.fences, d.fences = disk.fences, s.attempts = state.attempts,
             FenceAttempts(s, d, compacts)
      PROVE  ReleaseInv'
    <2>1. MoreFences(s, d)
        BY <1>f DEF MoreFences, ReleaseInv
    <2> QED BY <1>f, <1>o, <2>1, FenceAttemptsReleased
<1>1. ASSUME NEW g \in 1 .. MaxPolicy, NEW b \in 0 .. MaxBudget,
             ApplyPolicy([generation |-> g, max_revalidations |-> b])
      PROVE  ReleaseInv'
    <2> DEFINE pol == [generation |-> g, max_revalidations |-> b]
               a == [state.authority EXCEPT !.policy = g]
               c == [disk.authority EXCEPT !.policy = g]
               s == [state EXCEPT !.policy = pol, !.authority.policy = pol.generation]
               d == LogPolicy(disk, pol)
    <2>1. a \in AuthorityVector /\ c \in AuthorityVector
        BY <1>t, Fields, InputsNat, VectorUpdates
    <2>2. pol \in Policy
        BY InputsNat DEF Policy
    <2>3. /\ s = [state EXCEPT !.policy = pol, !.authority = a]
          /\ d = [disk EXCEPT !.policy = pol, !.authority = c]
        BY DEF LogPolicy
    <2>4. FenceAttempts(s, d, TRUE)
        BY <1>1 DEF ApplyPolicy
    <2> HIDE DEF a, c, pol, s, d
    <2>5. s \in DurableState /\ s.attempts = state.attempts /\ s.fences = state.fences
        BY <1>t, <2>1, <2>2, <2>3 DEF DurableState
    <2>6. d \in DurableState /\ d.fences = disk.fences
        BY <1>t, <2>1, <2>2, <2>3 DEF DurableState
    <2> QED BY <1>f, <2>4, <2>5, <2>6
<1>2. ASSUME NEW g \in 1 .. MaxObligations, ApplyObligations(g)
      PROVE  ReleaseInv'
    <2> DEFINE a == [state.authority EXCEPT !.obligations = g]
               c == [disk.authority EXCEPT !.obligations = g]
               s == [state EXCEPT !.obligations = g, !.authority.obligations = g]
               d == LogObligations(disk, g)
    <2>1. a \in AuthorityVector /\ c \in AuthorityVector /\ g \in Nat
        BY <1>t, Fields, InputsNat, VectorUpdates
    <2>2. /\ s = [state EXCEPT !.obligations = g, !.authority = a]
          /\ d = [disk EXCEPT !.obligations = g, !.authority = c]
        BY DEF LogObligations
    <2>3. FenceAttempts(s, d, TRUE)
        BY <1>2 DEF ApplyObligations
    <2> HIDE DEF a, c, s, d
    <2>4. s \in DurableState /\ s.attempts = state.attempts /\ s.fences = state.fences
        BY <1>t, <2>1, <2>2 DEF DurableState
    <2>5. d \in DurableState /\ d.fences = disk.fences
        BY <1>t, <2>1, <2>2 DEF DurableState
    <2> QED BY <1>f, <2>3, <2>4, <2>5
<1>3. ASSUME NEW id \in SetIds, NEW set, ApplyAlternateSet(id, set)
      PROVE  ReleaseInv'
    <2> DEFINE s == [state EXCEPT !.sets[id] = set]
               d == LogSet(disk, id, set)
    <2>1. s.attempts = state.attempts /\ s.fences = state.fences /\ d.fences = disk.fences
        BY <1>t DEF DurableState, LogSet
    <2>2. Finish(s, d, mem, TRUE)
        BY <1>3 DEF ApplyAlternateSet
    <2> HIDE DEF s, d
    <2> QED BY <2>1, <2>2, AsideReleased
<1>4. ASSUME NEW p \in Paths, NEW q \in 1 .. MaxObservation, ApplyEvidence(p, q)
      PROVE  ReleaseInv'
    <2> DEFINE m == [mem EXCEPT !.evidence[p] = q]
    <2>1. m.active = mem.active /\ m.grants = mem.grants
        BY <1>t DEF Memory
    <2>2. Answer(state, disk, m)
        BY <1>4 DEF ApplyEvidence
    <2> HIDE DEF m
    <2> QED BY <2>1, <2>2, AsideReleased
<1>5. ASSUME NEW top \in 0 .. MaxTopology, NEW pa \in 0 .. MaxPathAuthority,
             SetAuthority(top, pa)
      PROVE  ReleaseInv'
    <2> DEFINE a == [state.authority EXCEPT !.topology = top, !.path_authority = pa]
               s == [state EXCEPT !.authority.topology = top, !.authority.path_authority = pa]
               d == LogEpoch(disk, s)
    <2>1. a \in AuthorityVector
        BY <1>t, Fields, InputsNat, VectorUpdates
    <2>2. s = [state EXCEPT !.authority = a]
        OBVIOUS
    <2>3. FenceAttempts(s, d, TRUE)
        BY <1>5 DEF SetAuthority
    <2> HIDE DEF a, s
    <2>4. s \in DurableState /\ s.attempts = state.attempts /\ s.fences = state.fences
        BY <1>t, <2>1, <2>2 DEF DurableState
    <2>5. d \in DurableState /\ d.fences = disk.fences
        BY <1>t, <2>4, LogEpochType, LogEpochFields
    <2> HIDE DEF d
    <2> QED BY <1>f, <2>3, <2>4, <2>5
<1>6. FenceAll => ReleaseInv'
    BY <1>t, <1>f DEF FenceAll
<1>7. Crash => ReleaseInv'
    BY DeathReleases DEF Crash, ReleaseInv
<1>8. Evaluate => ReleaseInv'
    <2> DEFINE s == [state EXCEPT !.decision_sequence = @ + 1]
    <2>1. s.attempts = state.attempts /\ s.fences = state.fences
        BY <1>t DEF DurableState
    <2>2. Evaluate => Answer(s, disk, mem)
        BY DEF Evaluate
    <2> HIDE DEF s
    <2> QED BY <2>1, <2>2, AsideReleased
<1> QED BY <1>1, <1>2, <1>3, <1>4, <1>5, <1>6, <1>7, <1>8

LEMMA FencePathReleased ==
    ASSUME ~Refusals, TypeOK, Ownership, ReleaseInv, NEW path \in Paths, FencePath(path)
    PROVE  ReleaseInv'
<1> DEFINE fence == [id |-> state.fence_sequence + 1, epoch |-> state.authority.epoch,
                     attempt |-> 0, path |-> path]
           s == [state EXCEPT !.fences = @ \cup {fence}, !.fence_sequence = @ + 1]
           d == LogFences(disk, {fence})
           ids == {i \in ActiveIds(s.attempts) : s.attempts[i].selected = path}
           Freed(done) ==
             [mem EXCEPT !.grants = @ \ done, !.active = IF @ \in done THEN 0 ELSE @]
           F == {}
           t == Stop(s, ids, F, "fenced")
<1>t. state \in DurableState /\ disk \in DurableState /\ mem \in Memory
    BY DEF TypeOK
<1>1. fence \in Fence
    BY <1>t, Fields, VectorFields DEF Fence
<1>2. \/ Finish(t, LogStop(d, s, ids, F, "fenced"), Freed(ids), TRUE)
      \/ \E done \in Prefixes(ids) : Die(LogStop(d, s, done, F, "fenced"))
    BY DEF FencePath
<1> HIDE DEF fence
<1>3. s \in DurableState /\ s.fences = state.fences \cup {fence} /\ s.attempts = state.attempts
    <2>1. state.fences \cup {fence} \in SUBSET Fence /\ state.fence_sequence + 1 \in Nat
        BY <1>t, <1>1, Fields
    <2> QED BY <1>t, <2>1 DEF DurableState
<1>4. d \in DurableState /\ d.fences = disk.fences \cup {fence}
    <2>1. disk.fences \cup {fence} \in SUBSET Fence
        BY <1>t, <1>1, Fields
    <2> QED BY <1>t, <2>1 DEF DurableState, LogFences
<1>5. ids \subseteq ActiveIds(state.attempts) /\ ActiveIds(state.attempts) \subseteq {mem.active}
    BY <1>3 DEF Ownership, SingleOwner
<1>6. /\ Freed(ids).grants = mem.grants \ ids
      /\ Freed(ids).active = IF mem.active \in ids THEN 0 ELSE mem.active
    BY <1>t DEF Memory
<1> HIDE DEF s, d, ids, Freed
<1>7. MoreFences(s, d)
    BY <1>3, <1>4, FS_AddElement DEF MoreFences, ReleaseInv
<1>8. F \in SUBSET AttemptIds
    OBVIOUS
<1> HIDE DEF F
<1>9. ASSUME NEW A, NEW W
      PROVE  MoreFences(Stop(s, A, F, "fenced"), LogStop(d, s, W, F, "fenced"))
    BY <1>3, <1>4, <1>7, <1>8, StopFences
<1>10. Free(state, mem) => Free(t, Freed(ids))
    <2> SUFFICES ASSUME Free(state, mem)
                 PROVE  Free(t, Freed(ids))
        OBVIOUS
    <2>1. CASE mem.active \in ids
        BY <1>6, <2>1 DEF Free
    <2>2. CASE mem.active \notin ids
        <3>1. ids = {}
            BY <1>5, <2>2
        <3>2. t.attempts = Stopped(s.attempts, ids, "fenced")
            BY <1>3, StopFields
        <3>3. s.attempts \in [AttemptIds -> Attempt]
            BY <1>3, Fields
        <3>4. Stopped(s.attempts, ids, "fenced") = s.attempts
            BY <3>1, <3>3 DEF Stopped
        <3> HIDE DEF t
        <3> QED BY <1>3, <1>6, <2>2, <3>1, <3>2, <3>4 DEF Free
    <2> QED BY <2>1, <2>2
<1>11. CASE Finish(t, LogStop(d, s, ids, F, "fenced"), Freed(ids), TRUE)
    BY <1>9, <1>10, <1>11, EndsReleased
<1>12. ASSUME NEW done \in Prefixes(ids), Die(LogStop(d, s, done, F, "fenced"))
       PROVE  ReleaseInv'
    <2>1. IsFiniteSet(LogStop(d, s, done, F, "fenced").fences)
        BY <1>9 DEF MoreFences
    <2> QED BY <1>12, <2>1, DeathReleases
<1> QED BY <1>2, <1>11, <1>12

-----------------------------------------------------------------------------
(* Decisions. *)

LEMMA BeginReleased ==
    ASSUME ~Refusals, ReleaseInv, disk \in DurableState,
           NEW s \in DurableState, NEW m \in Memory,
           s.fences = state.fences, Free(state, mem) => m.active = 0 /\ m.grants = {},
           NEW id \in AttemptIds, NEW incumbent \in Paths, NEW path \in Paths \cup {NoPath},
           Begin(s, m, id, incumbent, path)
    PROVE  ReleaseInv'
<1> DEFINE Record(st) ==
               [incumbent |-> incumbent, selected |-> path, basis |-> s.authority,
                state |-> st, revalidations |-> 0]
           Numbered(r) == [Keep(s, id, r) EXCEPT !.attempt_sequence = @ + 1]
           claimed == Record("claimed")
           d1 == LogAttempt(disk, id, claimed)
           final == IF path = NoPath THEN Record("refused") ELSE Record("authorized")
           d2 == LogAttempt(d1, id, final)
           entry == Entry(s, s.decision_sequence, id, "refused", NoPath)
           granted == [m EXCEPT !.active = id, !.grants = @ \cup {id}]
           full == [s EXCEPT !.attempt_sequence = Larger(@, id)]
           k == Keep(s, id, final)
           n == Numbered(final)
           r == Remember(n, entry)
           e == LogLineage(d2, entry)
<1>1. claimed \in Attempt /\ final \in Attempt /\ id # 0
    BY Fields, MaxAttemptNat DEF Attempt, ActiveState, TerminalState, AttemptIds
<1>2. path # NoPath => final.state \in ActiveState
    BY DEF ActiveState
<1>3. \/ Answer(full, d1, m)
      \/ Die(d1)
      \/ path # NoPath /\ Finish(n, d2, granted, TRUE)
      \/ path = NoPath /\ Finish(r, e, m, TRUE)
      \/ Die(d2)
    BY DEF Begin
<1>4. full.fences = s.fences
    BY DEF DurableState
<1>5. granted.active = id /\ granted.grants = m.grants \cup {id}
    BY DEF Memory
<1> HIDE DEF claimed, final
<1>6. d1 \in DurableState /\ d1.fences = disk.fences
    BY <1>1, LogAttemptType, LogAttemptFences
<1> HIDE DEF d1
<1>7. d2 \in DurableState /\ d2.fences = disk.fences
    BY <1>1, <1>6, LogAttemptType, LogAttemptFences
<1> HIDE DEF d2
<1>8. e.fences = disk.fences
    BY <1>7, RememberFields
<1>9. k \in DurableState /\ k.fences = s.fences /\ k.attempts[id] = final
    <2>1. k.attempts = [WithRoom(s.attempts, id) EXCEPT ![id] = final] /\ k.fences = s.fences
        BY <1>1, KeepFields
    <2>2. WithRoom(s.attempts, id) \in [AttemptIds -> Attempt]
        BY Fields, RoomDrops
    <2> QED BY <1>1, <2>1, <2>2, KeepType
<1>10. n \in DurableState /\ n.attempts = k.attempts /\ n.fences = k.fences
    <2> HIDE DEF k
    <2>1. k.attempt_sequence + 1 \in Nat
        BY <1>9, Fields
    <2>2. n = [k EXCEPT !.attempt_sequence = @ + 1]
        BY DEF k
    <2> QED BY <1>9, <2>1, <2>2 DEF DurableState
<1> HIDE DEF k, n
<1>11. r.fences = n.fences
    BY <1>10, RememberFields
<1> HIDE DEF full, granted, r, entry, e
<1>12. MoreFences(full, d1) /\ MoreFences(n, d2) /\ MoreFences(r, e)
    BY <1>4, <1>6, <1>7, <1>8, <1>9, <1>10, <1>11 DEF MoreFences, ReleaseInv
<1>13. Free(state, mem) => Free(full, m) /\ Free(r, m)
    BY DEF Free
<1>14. path # NoPath => (Free(state, mem) => Free(n, granted))
    BY <1>1, <1>2, <1>5, <1>9, <1>10 DEF Free, ActiveIds
<1>15. IsFiniteSet(d1.fences) /\ IsFiniteSet(d2.fences)
    BY <1>12 DEF MoreFences
<1>16. CASE Answer(full, d1, m)
    BY <1>12, <1>13, <1>16, EndsReleased
<1>17. CASE path # NoPath /\ Finish(n, d2, granted, TRUE)
    BY <1>12, <1>14, <1>17, EndsReleased
<1>18. CASE Finish(r, e, m, TRUE)
    BY <1>12, <1>13, <1>18, EndsReleased
<1>19. CASE Die(d1) \/ Die(d2)
    BY <1>15, <1>19, DeathReleases
<1> QED BY <1>3, <1>16, <1>17, <1>18, <1>19

LEMMA BeginPromotionReleased ==
    ASSUME ~Refusals, TypeOK, ReleaseInv, NEW incumbent \in Paths, NEW set \in SetIds,
           BeginPromotion(incumbent, set)
    PROVE  ReleaseInv'
<1> DEFINE s == [state EXCEPT !.decision_sequence = @ + 1]
           m == [mem EXCEPT !.active = 0]
           id == state.attempt_sequence + 1
<1>t. state \in DurableState /\ disk \in DurableState /\ mem \in Memory
    BY DEF TypeOK
<1>1. s \in DurableState /\ s.fences = state.fences
    <2>1. state.decision_sequence + 1 \in Nat
        BY <1>t, Fields
    <2> QED BY <1>t, <2>1 DEF DurableState
<1>2. m \in Memory /\ m.active = 0 /\ m.grants = mem.grants
    BY <1>t DEF Memory
<1>3. Free(state, mem) => m.active = 0 /\ m.grants = {}
    <2>1. ~Contended
        BY DEF BeginPromotion
    <2>2. Free(state, mem) => mem.active = 0
        BY <2>1 DEF Free, Contended, ActiveIds
    <2> QED BY <1>2, <2>2 DEF Free
<1>4. id \in AttemptIds
    <2>1. state.attempt_sequence < MaxAttempt
        BY DEF BeginPromotion
    <2> QED BY <1>t, <2>1, Fields, MaxAttemptNat DEF AttemptIds
<1>5. \/ Answer(s, disk, m)
      \/ \E path \in Promotable(s, set, incumbent) \cup {NoPath} :
            Begin(s, m, id, incumbent, path)
    BY DEF BeginPromotion
<1> HIDE DEF s, m, id
<1>6. Promotable(s, set, incumbent) \subseteq Paths
    <2>1. s.sets[set].members \subseteq Paths
        BY <1>1, Fields DEF AlternateSet
    <2> QED BY <2>1 DEF Promotable
<1>7. CASE Answer(s, disk, m)
    <2>1. MoreFences(s, disk)
        BY <1>1 DEF MoreFences, ReleaseInv
    <2>2. Free(state, mem) => Free(s, m)
        BY <1>3 DEF Free
    <2> QED BY <1>7, <2>1, <2>2, EndsReleased
<1>8. ASSUME NEW path \in Paths \cup {NoPath}, Begin(s, m, id, incumbent, path)
      PROVE  ReleaseInv'
    BY <1>t, <1>1, <1>2, <1>3, <1>4, <1>8, BeginReleased
<1> QED BY <1>5, <1>6, <1>7, <1>8

LEMMA SettleReleased ==
    ASSUME ~Refusals, TypeOK, Ownership, ReleaseInv,
           NEW id \in ActiveIds(state.attempts), NEW record \in Attempt,
           NEW entry, NEW released,
           released.active = (IF mem.active = id THEN 0 ELSE mem.active),
           released.grants = mem.grants \ {id},
           Settle(id, record, entry, released)
    PROVE  ReleaseInv'
<1> DEFINE s == Keep(state, id, record)
           d == LogAttempt(disk, id, record)
           r == Remember(s, entry)
           e == LogLineage(d, entry)
<1>t. state \in DurableState /\ disk \in DurableState /\ id \in AttemptIds
    BY DEF TypeOK, ActiveIds
<1>1. Finish(r, e, released, TRUE) \/ Die(d)
    BY DEF Settle
<1>2. s \in DurableState /\ s.fences = state.fences
    BY <1>t, KeepType, KeepFields
<1>3. d \in DurableState /\ d.fences = disk.fences
    BY <1>t, LogAttemptType, LogAttemptFences
<1> HIDE DEF s, d
<1>4. r.fences = state.fences /\ e.fences = disk.fences
    BY <1>2, <1>3, RememberFields
<1> HIDE DEF r, e
<1>5. MoreFences(r, e) /\ IsFiniteSet(d.fences)
    BY <1>3, <1>4 DEF MoreFences, ReleaseInv
<1>6. mem.active = id /\ id # 0
    BY <1>t, MaxAttemptNat DEF Ownership, SingleOwner, AttemptIds
<1>7. Free(state, mem) => Free(r, released)
    BY <1>6 DEF Free
<1> QED BY <1>1, <1>5, <1>7, EndsReleased, DeathReleases

LEMMA SettlingReleased ==
    ASSUME ~Refusals, TypeOK, Ownership, ReleaseInv, NEW id \in AttemptIds
    PROVE  /\ \A q, v : RecordEffect(id, q, v) => ReleaseInv'
           /\ AbandonAttempt(id) => ReleaseInv'
           /\ \A v : Rollback(id, v) => ReleaseInv'
<1> DEFINE record == state.attempts[id]
<1>t. state \in DurableState /\ mem \in Memory
    BY DEF TypeOK
<1>1. record \in Attempt /\ record.revalidations + 1 \in Nat
    BY <1>t, AttemptFields
<1>2. /\ Released(id) \in Memory
      /\ Released(id).active = IF mem.active = id THEN 0 ELSE mem.active
      /\ Released(id).grants = mem.grants \ {id}
    BY <1>t DEF Released, Memory
<1>3. record.state \in ActiveState => id \in ActiveIds(state.attempts)
    BY DEF ActiveIds
<1> HIDE DEF record
<1>4. ASSUME NEW q, NEW v, RecordEffect(id, q, v)
      PROVE  ReleaseInv'
    <2> DEFINE r == [record EXCEPT !.state = "committed"]
               e == Entry(state, state.decision_sequence, id, "promoted", record.selected)
               m == [Released(id) EXCEPT !.evidence[record.selected] = q]
    <2>1. r \in Attempt
        BY <1>1 DEF Attempt, TerminalState
    <2>2. m.active = Released(id).active /\ m.grants = Released(id).grants
        BY <1>2 DEF Memory
    <2>3. Settle(id, r, e, m) /\ record.state \in ActiveState
        BY <1>4 DEF RecordEffect, record
    <2> HIDE DEF r, e, m
    <2> QED BY <1>2, <1>3, <2>1, <2>2, <2>3, SettleReleased
<1>5. ASSUME AbandonAttempt(id)
      PROVE  ReleaseInv'
    <2> DEFINE r == [record EXCEPT !.state = "abandoned"]
               e == Entry(state, state.decision_sequence, id, "superseded", NoPath)
    <2>1. r \in Attempt
        BY <1>1 DEF Attempt, TerminalState
    <2>2. Settle(id, r, e, Released(id)) /\ record.state \in ActiveState
        BY <1>5 DEF AbandonAttempt, record
    <2> HIDE DEF r, e
    <2> QED BY <1>2, <1>3, <2>1, <2>2, SettleReleased
<1>6. ASSUME NEW v, Rollback(id, v)
      PROVE  ReleaseInv'
    <2> DEFINE r == [record EXCEPT !.state = "rolled_back", !.revalidations = @ + 1]
               e == Entry(state, state.decision_sequence, id, "rolled_back", record.selected)
    <2>1. r \in Attempt
        BY <1>1 DEF Attempt, TerminalState
    <2>2. Settle(id, r, e, Released(id)) /\ record.state \in ActiveState
        BY <1>6 DEF Rollback, record
    <2> HIDE DEF r, e
    <2> QED BY <1>2, <1>3, <2>1, <2>2, SettleReleased
<1> QED BY <1>4, <1>5, <1>6

LEMMA RevertReleased ==
    ASSUME ~Refusals, TypeOK, ReleaseInv, NEW committed \in AttemptIds,
           NEW target \in Paths, NEW v, Revert(committed, target, v)
    PROVE  ReleaseInv'
<1> DEFINE old == state.attempts[committed]
           id == state.attempt_sequence + 1
           decision == state.decision_sequence + 1
           record == [incumbent |-> old.selected, selected |-> target,
                      basis |-> state.authority, state |-> "committed",
                      revalidations |-> old.revalidations + 1]
           k == Keep(state, id, record)
           s == [k EXCEPT !.attempt_sequence = @ + 1, !.decision_sequence = decision]
           d == LogAttempt(disk, id, record)
           entry == Entry(state, decision, id, "reverted", target)
           r == Remember(s, entry)
           e == LogLineage(d, entry)
<1>t. state \in DurableState /\ disk \in DurableState
    BY DEF TypeOK
<1>1. id \in AttemptIds /\ decision \in Nat
    <2>1. state.attempt_sequence < MaxAttempt
        BY DEF Revert
    <2> QED BY <1>t, <2>1, Fields, MaxAttemptNat DEF AttemptIds
<1>2. record \in Attempt
    BY <1>t, AttemptFields, Fields DEF Attempt, TerminalState
<1>3. mem.active = 0 /\ (Finish(r, e, mem, TRUE) \/ Die(d))
    BY DEF Revert
<1> HIDE DEF id, decision, record, entry
<1>4. k \in DurableState /\ k.fences = state.fences
    BY <1>t, <1>1, <1>2, KeepType, KeepFields
<1>5. d \in DurableState /\ d.fences = disk.fences
    BY <1>t, <1>1, <1>2, LogAttemptType, LogAttemptFences
<1> HIDE DEF k, d
<1>6. s \in DurableState /\ s.fences = k.fences
    <2>1. k.attempt_sequence + 1 \in Nat
        BY <1>4, Fields
    <2> QED BY <1>1, <1>4, <2>1 DEF DurableState
<1> HIDE DEF s
<1>7. r.fences = state.fences /\ e.fences = disk.fences
    BY <1>4, <1>5, <1>6, RememberFields
<1> HIDE DEF r, e
<1>8. MoreFences(r, e) /\ IsFiniteSet(d.fences)
    BY <1>5, <1>7 DEF MoreFences, ReleaseInv
<1>9. Free(state, mem) => Free(r, mem)
    BY <1>3 DEF Free
<1> QED BY <1>3, <1>8, <1>9, EndsReleased, DeathReleases

-----------------------------------------------------------------------------

LEMMA ReleaseStep ==
    ASSUME ~Refusals
    PROVE  TypeOK /\ Ownership /\ ReleaseInv /\ [Next]_vars => ReleaseInv'
<1> SUFFICES ASSUME TypeOK, Ownership, ReleaseInv, [Next]_vars
             PROVE  ReleaseInv'
    OBVIOUS
<1>1. CASE UNCHANGED vars
    BY <1>1 DEF vars, ReleaseInv, Free
<1>2. CASE Next
    BY <1>2, OpenReleased, IngestReleased, FencePathReleased, BeginPromotionReleased,
       SettlingReleased, RevertReleased DEF Next
<1> QED BY <1>1, <1>2

\* While the store accepts every append, the transition and the grant are held
\* by the attempt in flight and by nothing else, through every crash and as long
\* as the fence table has room: no handler ends an attempt and leaves its grant,
\* or leaves active_attempt_ naming an attempt that is over.
THEOREM OwnersReleased ==
    ASSUME ~Refusals
    PROVE  Spec => []OwnerReleased
<1>1. Init => ReleaseInv
    <2> SUFFICES ASSUME Init
                 PROVE  ReleaseInv
        OBVIOUS
    <2>1. IsFiniteSet(EmptyState.fences)
        BY FS_EmptySet DEF EmptyState
    <2>2. Free(EmptyState, EmptyMemory)
        BY DEF Free, EmptyMemory
    <2> QED BY <2>1, <2>2 DEF Init, ReleaseInv
<1>2. ReleaseInv => OwnerReleased
    BY DEF ReleaseInv, OwnerReleased, Free, ActiveIds
<1>3. Spec => []Ownership
    <2>1. SingleOwner /\ BasisCurrent /\ OwnerNotFenced => Ownership
        BY DEF Ownership
    <2> QED BY <2>1, ExclusiveOwnership, PTL
<1> QED BY <1>1, <1>2, <1>3, TypeCorrect, ReleaseStep, PTL DEF Spec
=============================================================================
