-------------------------------- MODULE Store --------------------------------
(***************************************************************************)
(* The durable store, src/src/store.cpp: a snapshot, an append-only        *)
(* journal of framed records, and a lock that admits one writer.           *)
(*                                                                         *)
(* Runtimes are processes that open the directory for writing, Inspectors  *)
(* processes that open it with inspection_only (pffctl inspect).  A        *)
(* runtime's own calls are serialised by Fabric's mutex, but a crash may   *)
(* fall, and an inspector may read, between any two of the system calls a  *)
(* call makes, so load, append and write_snapshot are several steps.       *)
(*                                                                         *)
(* Abstractions.  A record carries a payload from a small set; the state   *)
(* it is applied to is the sequence of payloads applied so far.  The bytes *)
(* of a record are counted in units: Header of them are the frame header,  *)
(* the rest payload and trailer.  Checksums always tell a whole record     *)
(* from anything else.  The journal file exists from the start, the        *)
(* staging file is never read and is left out, and an inspector's scan of  *)
(* the journal is one step.                                                *)
(***************************************************************************)
EXTENDS Naturals, SequencesExt

CONSTANTS
    Runtimes,     \* processes that write
    Inspectors,   \* processes that only read
    Nobody,       \* the owner of a lock nobody holds
    Payload,      \* record payloads
    Header,       \* units of a frame header
    Body,         \* units of payload and trailer, per payload
    MaxJournal,   \* limits::max_journal_bytes, in units
    Threshold,    \* options_.compaction_journal_bytes, in units
    MaxSequence,  \* bound on journal sequence numbers
    MaxPieces,    \* bound on the records and debris a journal holds
    AppendFaults,   \* may writing or flushing a record fail?
    SnapshotFaults  \* may writing a snapshot or resetting the journal fail?

ASSUME StoreAssumption ==
    /\ Runtimes \cap Inspectors = {}
    /\ Nobody \notin Runtimes
    /\ Header \in Nat \ {0}
    /\ Body \in [Payload -> Nat \ {0}]
    /\ MaxJournal \in Nat
    /\ Threshold \in Nat
    /\ MaxSequence \in Nat
    /\ MaxPieces \in Nat
    /\ AppendFaults \in BOOLEAN
    /\ SnapshotFaults \in BOOLEAN

VARIABLES
    lock,      \* the runtime holding fabric.lock
    snapshot,  \* fabric.snapshot; sequence 0 when there is none
    journal,   \* fabric.journal: the pieces of records written to it
    proc,      \* what each process knows and where it stands
    acked      \* the records acknowledged to a client, or recovered for it

vars == <<lock, snapshot, journal, proc, acked>>

-----------------------------------------------------------------------------
(* Data. *)

Processes == Runtimes \cup Inspectors

Units(p) == Header + Body[p]

\* A record of which only the first `written` units reached the file.
Piece == [sequence : Nat, payload : Payload, written : Nat]

Whole(piece) == piece.written = Units(piece.payload)

\* closed, opened and loading lead to ready (between two calls of the client)
\* and busy (inside one).  An append is writing until it returns.  A compaction
\* is staged, then replaced.  headless: journal_ is null after a failed reset.
\* reported is an inspector that printed what it loaded.
Stage == {"closed", "opened", "loading", "ready", "busy", "writing", "staged",
          "replaced", "headless", "reported"}

\* log is the materialised state, last_sequence_ its sequence.
Process == [stage : Stage, log : Seq(Payload), last_sequence : Nat,
            journal_bytes : Nat]

ClosedProcess ==
    [stage |-> "closed", log |-> <<>>, last_sequence |-> 0, journal_bytes |-> 0]

Bytes(pieces) ==
    LET upTo[n \in 0 .. Len(pieces)] ==
            IF n = 0 THEN 0 ELSE upTo[n - 1] + pieces[n].written
    IN  upTo[Len(pieces)]

-----------------------------------------------------------------------------
(* Recovery. *)

\* The position of the first piece that is not a whole record.
FirstBroken(pieces) ==
    SelectInSeq(pieces, LAMBDA piece : ~Whole(piece))

\* A broken piece is a torn tail when the file ends before the header does, or
\* before the length a complete header announces.
Torn(pieces, k) ==
    LET remaining == Bytes(SubSeq(pieces, k, Len(pieces)))
    IN  remaining < IF pieces[k].written < Header THEN Header
                    ELSE Units(pieces[k].payload)

\* What replay keeps of the file: everything, or what precedes a torn tail.
Intact(pieces) ==
    LET k == FirstBroken(pieces)
    IN  IF k = 0 THEN pieces ELSE SubSeq(pieces, 1, k - 1)

\* Mutant of ApplyPiece: a gap in the sequence is not noticed.
ApplyPieceAcrossGap(piece, r) ==
    IF ~r.ok \/ piece.sequence <= r.last_sequence THEN r
    ELSE [r EXCEPT !.log = Append(@, piece.payload),
                   !.last_sequence = piece.sequence]

\* One record: covered by the snapshot, next in line, or a gap, which ends it.
ApplyPiece(piece, r) ==
    IF ~r.ok \/ piece.sequence <= r.last_sequence THEN r
    ELSE IF piece.sequence = r.last_sequence + 1
    THEN [r EXCEPT !.log = Append(@, piece.payload),
                   !.last_sequence = piece.sequence]
    ELSE [r EXCEPT !.ok = FALSE]

\* replay_journal, starting from the state of a snapshot.
Replay(base, pieces) ==
    LET k == FirstBroken(pieces)
        whole == Intact(pieces)
        after[n \in 0 .. Len(whole)] ==
            IF n = 0 THEN [ok |-> TRUE, log |-> base.log,
                           last_sequence |-> base.last_sequence]
            ELSE ApplyPiece(whole[n], after[n - 1])
    IN  [after[Len(whole)] EXCEPT !.ok = @ /\ (k # 0 => Torn(pieces, k))]

\* What a runtime opening the directory now would recover.
Recovered == Replay(snapshot, journal)

-----------------------------------------------------------------------------
(* Actions. *)

Init ==
    /\ lock = Nobody
    /\ snapshot = [log |-> <<>>, last_sequence |-> 0]
    /\ journal = <<>>
    /\ proc = [x \in Processes |-> ClosedProcess]
    /\ acked = <<>>

\* Mutant of OpenFiles: the lock file is opened but not locked.
OpenFilesUnlocked(x) ==
    /\ proc[x].stage = "closed"
    /\ proc' = [proc EXCEPT ![x].stage = "opened"]
    /\ lock' = IF x \in Runtimes THEN x ELSE lock
    /\ UNCHANGED <<snapshot, journal, acked>>

\* Store::open: only a writer takes the lock.
OpenFiles(x) ==
    /\ proc[x].stage = "closed"
    /\ x \in Runtimes => lock = Nobody
    /\ proc' = [proc EXCEPT ![x].stage = "opened"]
    /\ lock' = IF x \in Runtimes THEN x ELSE lock
    /\ UNCHANGED <<snapshot, journal, acked>>

\* Mutant of LoadSnapshot: recovery starts from the journal alone.
LoadSnapshotNever(x) ==
    /\ proc[x].stage = "opened"
    /\ proc' = [proc EXCEPT ![x].stage = "loading"]
    /\ UNCHANGED <<lock, snapshot, journal, acked>>

\* load_snapshot: an absent snapshot is the empty state at sequence 0.
LoadSnapshot(x) ==
    /\ proc[x].stage = "opened"
    /\ proc' = [proc EXCEPT ![x] =
                  [@ EXCEPT !.stage = "loading", !.log = snapshot.log,
                            !.last_sequence = snapshot.last_sequence]]
    /\ UNCHANGED <<lock, snapshot, journal, acked>>

\* The process ends, or its Store is destroyed: the lock goes with it.
Gone(x) ==
    /\ proc' = [proc EXCEPT ![x] = ClosedProcess]
    /\ lock' = IF lock = x THEN Nobody ELSE lock

\* Mutant of ReplayJournal: a torn tail is skipped but left in the file.
ReplayJournalKeepingTail(x) ==
    /\ proc[x].stage = "loading"
    /\ LET r == Replay(proc[x], journal)
       IN  IF r.ok
           THEN /\ proc' = [proc EXCEPT ![x] =
                       [stage |-> IF x \in Runtimes THEN "busy" ELSE "reported",
                        log |-> r.log, last_sequence |-> r.last_sequence,
                        journal_bytes |-> Bytes(Intact(journal))]]
                /\ acked' = IF x \in Runtimes THEN r.log ELSE acked
                /\ UNCHANGED <<lock, journal>>
           ELSE Gone(x) /\ UNCHANGED <<journal, acked>>
    /\ UNCHANGED snapshot

\* A writer cuts a torn tail off, an inspector leaves the file alone.  A store
\* that cannot be replayed is not opened.
ReplayJournal(x) ==
    /\ proc[x].stage = "loading"
    /\ LET r == Replay(proc[x], journal)
       IN  IF r.ok
           THEN /\ proc' = [proc EXCEPT ![x] =
                       [stage |-> IF x \in Runtimes THEN "busy" ELSE "reported",
                        log |-> r.log, last_sequence |-> r.last_sequence,
                        journal_bytes |-> Bytes(Intact(journal))]]
                /\ journal' = IF x \in Runtimes THEN Intact(journal) ELSE journal
                /\ acked' = IF x \in Runtimes THEN r.log ELSE acked
                /\ UNCHANGED lock
           ELSE Gone(x) /\ UNCHANGED <<journal, acked>>
    /\ UNCHANGED snapshot

\* The first units of a record reach the end of the file.
StartAppend(x, p) ==
    /\ proc[x].stage \in {"ready", "busy"}
    /\ proc[x].last_sequence < MaxSequence
    /\ Len(journal) < MaxPieces
    /\ proc[x].journal_bytes + Units(p) <= MaxJournal
    /\ \E w \in 1 .. Units(p) :
         journal' = Append(journal, [sequence |-> proc[x].last_sequence + 1,
                                     payload |-> p, written |-> w])
    /\ proc' = [proc EXCEPT ![x].stage = "writing"]
    /\ UNCHANGED <<lock, snapshot, acked>>

\* The rest of it does.
CompleteAppend(x) ==
    /\ proc[x].stage = "writing"
    /\ ~Whole(Last(journal))
    /\ journal' = [journal EXCEPT ![Len(journal)].written =
                                      Units(Last(journal).payload)]
    /\ UNCHANGED <<lock, snapshot, proc, acked>>

\* The record is flushed to stable storage, and only then counted and reported.
Acknowledge(x) ==
    /\ proc[x].stage = "writing"
    /\ Whole(Last(journal))
    /\ acked' = Append(acked, Last(journal).payload)
    /\ proc' = [proc EXCEPT ![x] =
                  [stage |-> "busy", log |-> Append(@.log, Last(journal).payload),
                   last_sequence |-> @.last_sequence + 1,
                   journal_bytes |-> @.journal_bytes + Units(Last(journal).payload)]]
    /\ UNCHANGED <<lock, snapshot, journal>>

\* fwrite, fflush or fsync fails.  What was written stays in the file and is
\* not counted.  The client returns, or goes on with its other records.
FailAppend(x) ==
    /\ AppendFaults
    /\ proc[x].stage = "writing"
    /\ \E next \in {"ready", "busy"} : proc' = [proc EXCEPT ![x].stage = next]
    /\ UNCHANGED <<lock, snapshot, journal, acked>>

\* The journal bound refuses a record; the client's call ends with an error.
RefuseAppend(x, p) ==
    /\ proc[x].stage = "busy"
    /\ proc[x].journal_bytes + Units(p) > MaxJournal
    /\ proc' = [proc EXCEPT ![x].stage = "ready"]
    /\ UNCHANGED <<lock, snapshot, journal, acked>>

\* Mutant of EndCall: the journal is reset before the snapshot is in place.
EndCallResetting(x) ==
    /\ proc[x].stage = "busy"
    /\ proc' = [proc EXCEPT ![x].stage =
                  IF proc[x].journal_bytes < Threshold THEN "ready" ELSE "staged"]
    /\ journal' = IF proc[x].journal_bytes < Threshold THEN journal ELSE <<>>
    /\ UNCHANGED <<lock, snapshot, acked>>

\* The client's call ends with compact_if_needed, which writes the staging file.
EndCall(x) ==
    /\ proc[x].stage = "busy"
    /\ proc' = [proc EXCEPT ![x].stage =
                  IF proc[x].journal_bytes < Threshold THEN "ready" ELSE "staged"]
    /\ UNCHANGED <<lock, snapshot, journal, acked>>

\* The staging file atomically becomes the snapshot.
ReplaceSnapshot(x) ==
    /\ proc[x].stage = "staged"
    /\ snapshot' = [log |-> proc[x].log, last_sequence |-> proc[x].last_sequence]
    /\ proc' = [proc EXCEPT ![x].stage = "replaced"]
    /\ UNCHANGED <<lock, journal, acked>>

\* Mutant of ResetJournal: the byte count survives the reset.
ResetJournalUncounted(x) ==
    /\ proc[x].stage = "replaced"
    /\ journal' = <<>>
    /\ proc' = [proc EXCEPT ![x].stage = "ready"]
    /\ UNCHANGED <<lock, snapshot, acked>>

ResetJournal(x) ==
    /\ proc[x].stage = "replaced"
    /\ journal' = <<>>
    /\ proc' = [proc EXCEPT ![x] = [@ EXCEPT !.stage = "ready", !.journal_bytes = 0]]
    /\ UNCHANGED <<lock, snapshot, acked>>

\* The staging file cannot be written or moved, or the journal cannot be
\* reopened: then journal_ stays null, and the next append is the process's end.
FailCompaction(x) ==
    /\ SnapshotFaults
    /\ \/ /\ proc[x].stage = "staged"
          /\ proc' = [proc EXCEPT ![x].stage = "ready"]
       \/ /\ proc[x].stage = "replaced"
          /\ proc' = [proc EXCEPT ![x].stage = "headless"]
    /\ UNCHANGED <<lock, snapshot, journal, acked>>

\* A crash at any point; Store::close between two calls does the same.
Exit(x) ==
    /\ proc[x].stage # "closed"
    /\ Gone(x)
    /\ UNCHANGED <<snapshot, journal, acked>>

Next ==
    \E x \in Processes :
        \/ OpenFiles(x) \/ LoadSnapshot(x) \/ ReplayJournal(x)
        \/ \E p \in Payload : StartAppend(x, p) \/ RefuseAppend(x, p)
        \/ CompleteAppend(x) \/ Acknowledge(x) \/ FailAppend(x)
        \/ EndCall(x) \/ ReplaceSnapshot(x) \/ ResetJournal(x)
        \/ FailCompaction(x) \/ Exit(x)

Spec == Init /\ [][Next]_vars

-----------------------------------------------------------------------------
(* Properties. *)

\* Every variable stays in its domain, and only a runtime owns the lock.
TypeOK ==
    /\ lock \in Runtimes \cup {Nobody}
    /\ snapshot \in [log : Seq(Payload), last_sequence : Nat]
    /\ journal \in Seq(Piece)
    /\ proc \in [Processes -> Process]
    /\ acked \in Seq(Payload)

\* The store implements a log that never loses an acknowledged record: what
\* replay would recover (Replay over the snapshot and the journal, torn tail
\* cut off) only ever grows, by the one record being appended.  This covers a
\* crash between any two steps of append, write_snapshot and load.
Log == INSTANCE DurableLog WITH log <- Recovered.log
DurableLogSpec == Log!Spec

\* Whatever the point of a crash, the files it leaves can be opened again: the
\* integrity and contiguity checks of replay_journal, which refuse for good,
\* never fire on what append and write_snapshot themselves wrote.
AlwaysOpens == Recovered.ok

\* Between two calls last_sequence_ and journal_bytes_ agree with the files.
\* The bound of the journal, the contiguity of the next record and the guard of
\* write_snapshot all rest on these cached values.
CountersMatchFiles ==
    \A x \in Runtimes :
        proc[x].stage = "ready" =>
            /\ proc[x].journal_bytes = Bytes(journal)
            /\ proc[x].last_sequence = Recovered.last_sequence

\* The runtime that holds the lock is the only one whose store is open, from
\* before it reads the files until after it has closed them.
LockExcludes == \A x \in Runtimes : proc[x].stage # "closed" <=> lock = x

\* Even when appends fail and leave debris in the journal, and whatever a later
\* incarnation makes of it, a snapshot only ever extends the one before it.
SnapshotOnlyAdvances ==
    [][IsPrefix(snapshot.log, snapshot'.log)]_vars

\* Whoever inspects a directory while a runtime appends to it and compacts it
\* is shown a state the runtime really was in, if perhaps an old one: the
\* snapshot it read and the journal it read later never mix.
InspectionIsPast ==
    \A x \in Inspectors :
        proc[x].stage = "reported" => IsPrefix(proc[x].log, Recovered.log)

-----------------------------------------------------------------------------
(* A claim of the repository that the code does not keep. *)

\* "the journal record is fully flushed before the operation it describes is
\* acknowledged" (src/include/pff/store.hpp): an acknowledged record is there
\* after a restart.  After an append that failed the next one reuses its
\* sequence, and replay takes the first of the two.
AcknowledgedSurvives == Recovered.ok => IsPrefix(acked, Recovered.log)
==============================================================================
