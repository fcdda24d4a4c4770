# Verification of the path failover fabric

TLA+ specifications of the path failover runtime in `src/`, TLC configurations
that check them on small instances, and TLAPS proofs of the results that matter
most. Source references below are to `src/src/*.cpp` unless a directory is given.

## 1. The system

A *fabric* decides to which alternate path a service may be moved when its
incumbent fails, and grants that move to one caller at a time. It never observes
or switches a path itself: an upstream supplies sets of alternates with evidence,
a caller asks for a promotion, applies it, and reports the effect.

| Component | State | Operations | Correct when |
|---|---|---|---|
| Authority vectors (`authority.cpp`) | none | `classify` | a vector is current only when every field is |
| Fabric (`fabric.cpp`, `records.cpp`) | policy, obligations, sets, fences, attempts, lineage, counters (durable); owner, grants, evidence (volatile) | open, ingest (policy, obligations, set, evidence, authority), fence path / all, evaluate, begin, effect, abandon, rollback, revert | one owner; every grant under the current vector; fences and terminal attempts final; recovery equals memory |
| Store (`store.cpp`, `platform.cpp`) | lock, snapshot, journal, cached counters | open, load, append, write_snapshot, close | nothing acknowledged is lost; what it wrote it can read |
| Selector (`selector.cpp`, `model.cpp`) | none | `evaluate`, `compute_score`, `deterministic_sort`, validation | fails closed; a refusal that claims proof has one; the order of supply does not matter; no overflow |
| Server (`server.cpp`, `net.cpp`) | stop flag, listener, session table, thread count | run, session threads, request_stop, destructor | a stop always ends, and leaves no thread behind |
| Client (`client.cpp`) | connection, session identity, frame and request sequence, decoder | connect, the calls, shutdown, destructor | a call is carried out at most once, gets its own answer, and returns |
| Frame decoder (`protocol.cpp`) | a buffer of one maximal frame, a sticky failure | feed, pop | understands every stream of whole frames a waiting caller produces; never resynchronises |
| Codec and messages (`canonical.cpp`, `wire.cpp`, payloads of `protocol.cpp` and `store.cpp`) | none | one writer and one reader per document | what is written is read back; one spelling per value; every document fits its carrier |
| Checksums, decision rendering, identities, limits, applications | none | conversions | round trips |

Interaction. `pffd` opens one Fabric on one store directory and serves it.
Session threads call Fabric, whose handlers each hold one mutex from the first to
the last line; a handler calls the Selector (pure) and then Store, one record per
append. A restart replays the journal over the snapshot through `apply_record`,
which is code separate from the handlers. `pffctl inspect` reads the files of a
running service without its lock.

What is hard: a crash, or an error, between two appends of one handler (up to two
per fenced attempt); volatile ownership against durable records; code that relies
on another handler having fenced (`record_effect` compares an effect with the
current vector and never with the attempt's basis); torn records and the gap
between replacing the snapshot and resetting the journal; an inspector racing a
compaction; a stop racing an accept; sessions blocked in calls only another
thread can end; a client object that is used again after a call failed, with half
a frame sent or an answer still to come; a session that carries out a call whose
client has long gone; a server that restarts and numbers its sessions afresh; writer
and reader of each document being two pieces of code. `PROJECT.json` lists these hazards at their lines.

## 2. Modules

| Module | Models | Extends |
|---|---|---|
| `Authority` | vectors and `classify` | |
| `Fabric` | the coordinator and what each journal record does on replay | `Authority` |
| `MCFabric` | images earlier incarnations leave, and the path symmetry | `Fabric` |
| `FabricProofs` | theorems about `Fabric`: types, ownership | `Fabric` |
| `FabricRecoveryProofs` | theorems about memory and the image on disk, and about what releases the transition | `FabricProofs` |
| `DurableLog` | abstract: what the store promises | |
| `Store` | the store, refining `DurableLog` | |
| `MCStore` | two payloads of different length | `Store` |
| `StoreProofs` | theorems about `Store`, the refinement among them | `Store` |
| `Selector` | validation, objective, sort, gates, outcome | `Authority` |
| `MCSelector` | bounded requests | `Selector` |
| `SelectorProofs` | theorems about `Selector` | `Selector` |
| `Server` | accept loop, session threads, stop | |
| `MCServer` | three servers | `Server` |
| `ServerProofs` | theorems about `Server` | `Server` |
| `FrameDecoder` | framing and the streaming decoder | |
| `Rpc` | abstract: what a caller is promised | |
| `Session` | client, connections, session threads, restarts, refining `Rpc` | `FrameDecoder` |
| `MCSession` | budgets of connections, calls and faults | `Session` |
| `SessionProofs` | theorems about `Session` | `Session` |
| `SessionRpcProofs` | `Session` implements `Rpc` | `SessionProofs` |
| `Wire` | every document's writer and reader, and its size | |
| `MCWire` | four forms of every document | `Wire` |
| `WireProofs` | theorems about `Wire` | `Wire` |

### Fabric

`state` is `state_` with the maps that mirror it (`attempts_`, `sets_`,
`path_fences_`), `mem` is what is never persisted (`active_attempt_`, `grants_`,
`evidence_`), `disk` is what `Store::load` would return, and `up` says whether a
process has completed `open`. The `Log...` operators are the cases of
`apply_record`; a handler applies them to `disk` in the order of its appends.
Replay has an attempt table of its own, a vector bounded by `limits::max_attempts`,
from which it drops the first terminal record (`Evicted`), while memory drops the
lowest terminal identity at `max_retained_attempts` (`WithRoom`). `arrival` holds the
order of that vector. Where replay would answer `table_full` the image goes past the
bound until a snapshot replaces it; `Open` needs an image that is `Loadable`.

Since a handler is one critical section it is one action. `Finish` is its normal
end (with `compact_if_needed_locked`, which may replace the image on disk by a
snapshot of memory, its attempts in the order of the map: `Compact`), `Die(d)` a crash
that leaves the image `d`, one per gap between two appends, and the disjuncts guarded
by `Refusals` are appends that `Store::append` refuses before it writes anything (the
journal's bound, a closed store, a failed encoding: `store.cpp:741-764`), after which
memory keeps whatever the handler had already changed. `FenceAttempts` is a loop of
appends: `Progress` enumerates the prefixes it may be cut off after, and `Room` the case
that the fence table is full.
`Snapshot` is `encode_snapshot` followed by the replay of what it wrote: the records
in its order, applied to an empty state.

Abstractions: reasons, statistics, provenance, `restart_count` and texts are
dropped; calls that are refused without effect are stuttering steps; the
selector is represented by the paths it may return (`Promotable`); a set keeps its
usable members and one declared vector; a boot identity is fresh and random, so
the epoch stands for it; there are at most `limits::max_alternate_sets` set identities.
An append that fails in `fwrite` or in the flush is not in `Fabric`: it may leave its
record behind under a sequence that is used again, and `store_fault_loss` shows that
the record acknowledged next is then lost, whatever the handlers do. What the Fabric
runs and theorems say is said of stores on which that has not happened.

### Store

A record is a `Piece` of which the first `written` units are in the file, so a
torn record is one whose `written` is short, and later bytes fill it up: what
follows a torn header can be swallowed by it. `load`, `append` and
`write_snapshot` are split at their system calls (`OpenFiles`, `LoadSnapshot`,
`ReplayJournal`; `StartAppend`, `CompleteAppend`, `Acknowledge`; `ReplaceSnapshot`,
`ResetJournal`), and `Exit` may fall anywhere. `Recovered` is the pure function
`load` computes from the files. Payloads stand for records; the state they build
is the sequence of payloads applied. Checksums are assumed to tell a whole record
from anything else.

`DurableLog` is the promise: a log that grows by one record at a time and keeps
what was acknowledged. `DurableLogSpec` is the refinement, with
`log <- Recovered.log`.

### Selector

`Evaluate` is `Selector::evaluate`, top to bottom: structural refusals, generation
mismatches, validation, `Sorted` (the bottom-up merge sort, `MergePass` by
`MergePass`, `Take` by `Take`), `Verdict` (the gates), and the outcome. The only state is the request,
to which the upstream adds a candidate at a time. Integers are mathematical;
`Fits` says which fit in 64 bits and `ScoreOk` whether a checked operation failed.

### Server

A step is what a thread does between two points where another can interfere: a
critical section of `mu_`, an atomic access, a blocking call. `run` is the accept
thread, `session[c]` the thread of connection `c`, `stopper` the one call of
`request_stop` that won the exchange of `stop_`. `table`, `threads` and the notification
of `wait_cv_` are three separate steps of a leaving session, as in the code. The
decoder is abstracted to what a session thread sees: a receive completes no frame,
some frames, or spoils the decoder for good. A dispatched request is answered,
closes its session, or stops the server. `setup` says which server it is (session
limit, whether shutdown is allowed, whether threads can fail to start), so that one
run covers several.

### Session

The two ends of a connection, where `Server` has only one. A byte stream is a
sequence of units, each of which remembers the frame it was cut from; that is all
the magic number and the checksums establish (`FrameDecoder`). `client` is the client
object with the position of its current call, `link[c]` a connection with the units
in flight each way, `session[c]` the thread that serves it, `server` the process with
its incarnation and its count of sessions. `told` and `applied` are histories: what
each call returned and which request the answer belonged to; what was handed to the
fabric.

`Connect`, `Call`, `ClientPop`, `ClientRecv`, `ClientEof` are `connect`, `transact` and the loop
of `round_trip`; every `send_all` may stop after any number of units and every `recv`
returns any piece. As in the code an object survives a failed call and may be used
again, with its request sequence advanced and its frame sequence not. `SessionRecv`,
`SessionPop` (`Greet`, `Dispatch`), `SessionSend` are `serve_session`; `Dispatch` keeps the
order of the checks of `dispatch`. Peers that do not use the library send frames with
any session identity, incarnation and sequence, frames of the wrong type, and bytes
that are no frame. `Crash`, `Exit` and `Restart` end and begin a process of the server.
Epoch and boot identity change together, so one number stands for both. The session
limit and the release of blocked threads are `Server`'s subject; a stop here makes
every `recv` return.

`Rpc` is the promise: an operation is carried out at most once, after it was
called, and before it is reported as done; a failed call says nothing. Its `done` is
the sequence of operations carried out, those of other peers as 0 (`DoForOthers`), so
that carrying a call out a second time is a step, and one `Rpc` does not have.
`RpcSpec` is the refinement, with `done` the calls of `applied` in their order.

### Wire

`put_x` and `get_x` are tables, one for the writer and one for the reader of
each document, with the fields in the order and the widths of the code, and on the
reader's side the values it lets pass. A document inside another one has no bytes of
its own, so `Under` puts its fields among the others, under the part's name.
`PutPlain` and `GetPlain` write and read numbers as `ByteWriter` and `ByteReader` do,
`PutRow` and `GetRow` the elements of lists, `PutField` and `GetField` also strings and
lists, `PutDoc` and `GetDoc` whole documents, `Written` and `decode` a header with its
body. `decode` ends with `at_end`, except for a request that is a header and nothing
else (`HeaderOnly`: `status_req`, `shutdown_req`), where `dispatch` has no such check. A reader that has failed reads nothing more (`After`); `Valid` is the `validate()`
a reader ends with (`Checked`). A document is written, may be cut off, altered or
extended, and is read. `MaxSize` computes from the reader's tables and given limits how
large a field can be, `KindSize` how large a payload.

## 3. Runs

| Run | Checks | Shows |
|---|---|---|
| `fabric_fencing` | `TypeOK` `RecoveryAgrees` `SingleOwner` `BasisCurrent` `OwnerNotFenced` `OwnerReleased` `Reopens` `LineageBacked` `FencesAreForever` `AuthorityNeverRegresses` `TerminalIsFinal` | restarts that find an attempt in flight, a fence or full tables, crashes in every handler, and policy, obligations, topology and fences that change under a promotion: ownership, what was decided, and an image that a restart can load and that agrees with memory although the two drop different attempts |
| `fabric_refusals` | `SnapshotFaithful` `LineageBacked` `FencesAreForever` `TerminalIsFinal` | what the image on disk still guarantees when the store refuses appends in the middle of a handler, with crashes, compaction and full tables; a snapshot is the memory it was taken of |
| `store_crash` | `InspectionIsPast` `AlwaysOpens` `CountersMatchFiles` `LockExcludes` `DurableLogSpec` | two runtimes that crash anywhere and an inspector; refinement of `DurableLog` |
| `store_faults` | `SnapshotOnlyAdvances` | snapshots stay an extension of one another whatever failed appends leave behind |
| `selector_decisions` | `FailClosed` `ProofOfAbsence` `SelectionIsBest` `NoOverflow` `OrderIndependent` `SortIsCanonical` | what a decision means, and that it does not depend on the order of supply |
| `server_stop` | `Drained` `StopTerminates` | stopping with a full table, silent peers, blocked sends, from outside or from a session, and after `accept` or a thread start failed |
| `session_calls` | `TypeOK` `AnswerMatches` `RequestNamedOnce` `NoResynchronisation` `StopAndWaitIsUnderstood` `CallReturns` `RpcSpec` | calls over connections that are cut, torn, left behind, reset and reused, beside foreign peers and through restarts; refinement of `Rpc` |
| `wire_codecs` | `WrittenIsRead` `CutIsRefused` `AcceptedIsCanonical` `EverythingFits` | every record and message, whole, cut at every byte, with every byte changed to every other value, and with one byte too many |
| `fabric_identity` | `AttemptIdentityUnique` violated | section 5 |
| `store_fault_loss` | `AcknowledgedSurvives` violated | section 5 |
| `server_return` | `RunOutlivesSessions` violated | section 5 |
| `wire_trailing` | `TrailingBytesRefused` violated | section 5 |

`TypeOK` of `Store` and of `Server` are proved (section 4) and hold in their runs; they are
not listed, having nothing to say that the other properties do not. Ownership
through crashes is checked in `fabric_fencing`, which has one or two restarts, and
proved for any number of them.

Every property of a passing run is paired with a mutated definition (named
`Mutant of ...` where it is defined) under which TLC refutes it.

### Bounds

*Fabric.* Two paths and one set: an incumbent and an alternate, each of which may
be fenced. Two decisions (three in `fabric_identity`), so a promotion meets a revert
or a second promotion. Identities go to 3, or to 5, for two or three attempts of one
incarnation, because a promotion moves the counter by two. Tables hold one or two
entries, so that they fill up. Paths are interchangeable (`PathSymmetry`): no definition
orders them.

Runs start from images that earlier incarnations leave: the program reaches them,
starting there only saves the way. `fabric_refusals` and `fabric_identity` start from the
image of an incarnation that was given every definition once. `fabric_fencing` starts
from three images with attempts. From `Fenced` it restarts twice, so that an attempt
meets a later incarnation that recovered a lagging counter and hands its identity out
again. In `InFlight` the last process died with an attempt in flight: `open` has to
interrupt and fence it, and may die in between. In `Worn` more attempts have ended than
a table of two holds and an identity was taken again, so that replay's vector is not
in the order of the identities: two promotions later memory and replay have dropped
different records. Generations go to 2 and each image has used up some of them, so
that topology moves together with the policy or with the obligations; all of them
together is what the proofs are for.

*Store.* Units 2 for a header, bodies of 1 and 5: a torn long record is longer
than a whole short one, so what is appended after it can fall inside it. A
journal of 12 units with a threshold of 6 makes compactions happen in the middle
of a run and the bound reachable.

*Selector.* One candidate per gate and outcome of that gate, in pairs, on three
paths, against policies that do and do not allow skipping, a search limit of 1
and 4, complete and partial sets, with and without a fence; and three and four
members in every order with ties in the score and in the rank (four is the first
size with a second merge pass over two full runs, three the first with a last run
that has no neighbour). Scales of 2 with `MaxInt = 12` are tight: the assumption
of the proof holds, and one unit more would overflow.

*Server.* Two connections and the three servers of `MCSetups`: a table of one (so
that it is full and a place is reused) with two frames in a receive (so that a
request can wait behind another); a table of two (so that a stopping session has a
neighbour) with failing threads; a server that may not be stopped by a session.

*Session.* `MaxFrame` 3 and a chunk of 2 units with sizes 1 and 2: a frame can be the
largest one, two can lie in one stream, and a chunk can overflow the buffer. Two
requests per session, so that the budget is exhausted by the third call. The
`MCBudgets` each make some cases possible: a fault or a crash under two calls on two
connections; three calls with one fault, the last past the budget; another peer
beside the library's client; another peer across a restart.

*Wire.* A byte has 14 values (the widest enumeration that fits one byte), so every
byte can be given every other value; widths are the real ones. `SmallLimits` keeps
lists at two and strings at three. The forms of `MCWire` are: zeros; fields that all
differ, with full lists; negative numbers and full strings; the top of every range,
with lists and strings one too long. `EverythingFits` uses the real numbers of
`limits.hpp`.

Deadlock is not checked in Fabric and Session (the bounds end a behaviour), Selector
(a full request is done), Wire (a document that was read is done) and Server (a
returned server stays). It is checked in Store.

### Fairness

`Server` and `Session` have liveness. In `Server` each thread that can take a step eventually does (weak
fairness per thread: the operating system's scheduler). Nothing is assumed of the
peers: they may never send, never read and never leave, so `Receive` and `Send` are
not fair. The connection `request_stop` makes to its own listener is assumed to
succeed.

In `Session` the client's thread and every session thread run when they can (what was
sent on a live connection arrives, and the end of a connection is noticed), the
server accepts, and a stopped server exits. Nobody is obliged to call, to connect, to
fail or to restart the server. `CallReturns` is about connections on which no call
has failed: after a failed one the session may have given up on the stream and stay
open without reading it (section 5).

## 4. Proofs

Every theorem is about `Spec` for every value of the constants, from the assumption its
module names and nothing else: the numbers of paths, attempts, connections,
processes, restarts and records, and the bounds of the tables, are parameters. Where
one needs `~Refusals` or `~AppendFaults` it says so, and section 5 says what happens
without. The theorems about `Fabric` hold where every append is written whole, is
refused before anything is written, or is cut off by a crash; one that fails after it
has written is outside that module (section 2).

### `FabricProofs`

From `ConstantsAssumption` (counts are naturals, the attempt and lineage tables have
room for one entry, memory retains no more attempts than replay, `NoPath` is no path).
`Fabric::open` refuses other values of `max_retained_attempts` (`fabric.cpp:47`).

- `TypeCorrect`: `[]TypeOK`, with and without refused appends. One lemma per helper
  (`KeepType`, `RememberType`, `StopType`, ...) and per group of handlers.
- `ExclusiveOwnership`: assuming `~Refusals`, `[](SingleOwner /\ BasisCurrent /\
  OwnerNotFenced)`. None of the three is inductive by itself: what is committed,
  released or refused is the attempt `active_attempt_` names, so that a handler that
  ends it leaves no active attempt only if there was one (`SingleOwner`), and a handler
  that moves the vector or fences a path keeps the others only because it stops
  every active attempt bound to it. The inductive invariant is `Ownership /\ TypeOK`;
  `Owned(s, m)` is `Ownership` for a state and a memory that are not yet the current
  ones, so that the lemmas can follow a handler through its intermediate states. The
  assumption is needed: see `set_authority` in section 5.
- `EffectUnderGrant`: an effect `record_effect` accepts was observed under exactly
  the vector the attempt was granted under, although the code compares it only
  with the current vector. From `BasisCurrent` and `CurrentMeansEqual` (two vectors
  classified current are equal).

### `FabricRecoveryProofs`

Handlers and `apply_record` are separate code, so the argument is about pairs of a
state in memory and an image on disk. `RecoveryInv` says that the image is sound by
itself and, while a process is up, that the two are in step (`Paired`): fences,
history, policy, obligations, sets and epoch are the same whatever is refused; the
attempts of this epoch are behind the counter, so that the next identity is new;
and what ended on disk ended the same way in memory or was evicted there. Each
handler is shown to end with such a pair, and each prefix of its appends to leave
such an image, once; crash, completion and compaction then follow for all of them.

Of the attempts, `Agree` says what is the same while nothing is refused: those in
flight, and every ended one that both keep. What memory keeps and replay has dropped
had ended, and was dropped with `MaxAttempts` in the table. It is inductive because a
new attempt begins only when none is in flight, so that replay drops a record that
ended, and because a full image stays full until a snapshot makes the two equal.

- `FencesKept`, `OutcomesKept`, `HistoryBacked`, `SnapshotsFaithful`: `FencesAreForever`,
  `TerminalIsFinal`, `LineageBacked` and `SnapshotFaithful`, whichever append the store
  refuses.
- `ReplayAgrees`, `AuthorityKept`: `RecoveryAgrees` and `AuthorityNeverRegresses`, assuming
  `~Refusals` (handlers that assign before they append leave memory ahead of disk).
- `OwnersReleased`: `OwnerReleased`, assuming `~Refusals`. `ReleaseInv` is about the fence
  table having room (`fence_attempts_locked` returns early when it is full, and then
  the grant does stay) and therefore has to know that fences are finitely many and
  never fewer.

### `StoreProofs`

From `StoreAssumption`.

- `LockHeld`: `[]LockExcludes`; `StoreTyped`: `[]TypeOK`; `SnapshotsAdvance`:
  `SnapshotOnlyAdvances`. These hold whatever fails. `AdvanceInv` says that a runtime that
  has read the snapshot holds everything in it: whatever it later makes of the debris
  in the journal, it only adds to that.
- `OpensAlways`, `CountersKept`, `InspectorsSeeThePast`: `AlwaysOpens`, `CountersMatchFiles`,
  `InspectionIsPast`; and `StoreIsDurableLog`: `Spec => DurableLogSpec`, the refinement. All
  assume `~AppendFaults` (a compaction may fail, a process may die anywhere).
  `StoreInv` says that there is one history `H` of which the snapshot is a prefix, the
  journal a stretch that begins somewhere inside the snapshot or where it ends, with
  at most one torn record at its very end; and what each runtime and inspector holds
  of it at each of its steps. `Carried` shows that a step leaves `H` alone or adds the
  record being written, which is what `DurableLog` allows.
- `Bytes` and `Replay` are recursive functions. What they compute is shown without
  the induction theorems (see below): `LeastMember` gives the first position at which
  a claim would fail, and the claim is refuted there.

### `ServerProofs`

From `ServerAssumption` (finitely many connections).

- `ServerCounts`: `active_threads_` is the number of threads that were started and have
  not counted themselves out, and everyone in the table has a thread that will take
  it out.
- `RunDrains`: `[]Drained`. `ServerInv` adds that the connection that wakes `accept` is never
  served, that a connection is accepted once, and that `run` returns at zero.

### `SessionProofs`

From `SessionAssumption` and `FrameAssumption`: foreign peers, torn streams, failed calls
and restarts in any number. Every step has one of six forms (`StepForms`: the side of
a session, the client, a foreign peer, the server going down, a restart, nothing),
each saying what moved between buffers and what did not; the invariants are shown of
the forms, not of the actions.

- `SessionTyped`: `[]TypeOK`, with the bound on both decoders' buffers.
- `RequestsNamedOnce`: `[]RequestNamedOnce`. `NameInv`: a live session has an identity of its
  own that was issued, and a request that was applied is behind the session that
  applied it. `KeyInv`: over everything a connection holds (in flight, buffered,
  applied) requests and calls are numbered in the same order, and no call appears on
  two connections.
- `AnswersMatch`: `[]AnswerMatches`. `TagInv` follows the frame sequence that answers echo, from
  the units the client wrote to the units it reads: none is above the client's, and
  the one that equals it during a call belongs to that call.
- `NeverResynchronises`: `[]NoResynchronisation`. `TornInv`: once a frame was cut, the rest
  of the stream has a barrier in it which no `pop` passes, for it would have to take
  the missing units from the next frame.
- `StopAndWaitUnderstood`: `[]StopAndWaitIsUnderstood`. `CalmInv`: on a connection without failed
  calls at most one of three exists, the request on its way, the answer at the
  session, the answer on its way, and none while no call waits; what is on its way is
  the beginning of one frame that fits the buffer (`Piece`). Such a stream is never
  refused (`PieceFeed`) and never malformed, and nothing follows the frame that `pop`
  returns (`PiecePop`).

### `SessionRpcProofs`

- `CallsAtMostOnce`: `Spec => RpcSpec`, the refinement. What the caller was told and the calls
  handed over are all that `Rpc` sees, and each of the six forms is a step of it or a
  stutter. That needs, on top of `KeyInv`, `TagInv` and `RequestNamedOnce`, four invariants.
  `StreamInv`: what a session has yet to understand is in the order of the calls, so
  that `pop` leaves nothing of the call it returns. `RawInv`: foreign peers make no calls.
  `OpenInv`: a call is open exactly while the client waits for its answer.
  `AnsweredInv`: of a call whose answer exists anywhere (at the session, on the wire, in
  the client's buffer, with the caller) nothing is left to understand, and if the
  answer says done the call was handed over. A request cannot therefore be carried out
  after its caller was told, nor reported done before it was carried out. Nor is
  it carried out a second time: what a connection applies is in the strict order of
  the calls (`RequestNamedOnce`), and no call is on two connections (`KeyInv`).

### `SelectorProofs`

From `ScalesAssumption` (the four products of weight and scale add up within `MaxInt`;
with the numbers of `limits.hpp`, four times at most 10^15) and `SurfaceAssumption` (what
is supplied is well formed).

- `ScoreNeverOverflows`: `[]NoOverflow`, for weights of either sign and all scales:
  `ProductBound` bounds one term, `ScoreFits` every partial sum.
- `SortsCanonically`: `[]SortIsCanonical`. The loops of the sort are recursive functions over
  `0 .. N`. `Recursion` shows that such a function exists, `Climb` carries an invariant of
  a loop to its end, each by the least number at which it would fail. The
  invariants: `Merging` (after k steps the scratch holds the k smallest of two runs, in
  order), `Passing` (after b pairs the output is the start of the input, in longer
  runs), `Sorting` (after k passes the runs are 2^k long, or the whole). That leaves a list
  in which no element is less than an earlier one; it is strictly ordered because the
  list has the members of a set without repeated paths and its length.
- `SelectsTheBest`: `[]SelectionIsBest`. `Scan` and `Decided` say which candidate `Decide` takes:
  the first promotable one of those examined, with no conflict among them.
- `AuthorizesFailClosed`: `[]FailClosed`, and `AbsenceIsProven`: `[]ProofOfAbsence`. `Settles` relates a
  candidate to itself with some doubts resolved. Its score does not change, so the
  order does not (`SortSettled`); a verdict that is not a doubt stands (`VerdictSettled`);
  an exclusion that is not for staleness stands under any authority (`StillExcluded`).
- `DecidesRegardlessOfOrder`: `[]OrderIndependent`. Two strictly ordered lists of the same
  members are equal (`SortUnique`), and the list is all `Decide` sees of the candidates.

### `WireProofs`

From `WireAssumption` (a byte has at least 14 values, so that two of them hold every
reason; lengths fit the two or four bytes they are written in), `DocumentsAssumption`
(the documents are ones that the variables of the program can hold) and
`RoomAssumption` (the largest payload the limits admit fits a writer; for the numbers
of `limits.hpp` that is what `EverythingFits` says). The code's own bytes, with 256
values, are an instance.

- `WrittenDocumentsAreReadBack`: `[]WrittenIsRead`.
- `AcceptedBytesAreCanonical`: `[]AcceptedIsCanonical`, whatever the bytes are. For the
  requests that are only a header it says what the code does: the value determines
  the bytes up to what follows them (section 5).
- `CutDocumentsAreRefused`: `[]CutIsRefused`.

The argument climbs the layers of the code. `Digits` and `Number` are inverse to one
another; every type of field is read back, has one spelling and, where the bytes end
too soon, is read as far as it reaches or refused. `Chain` carries these three facts
from the fields to a row, from rows to a list, from fields to a document and from its
parts to a payload (`DecodeBack`, `DecodeCanonical`, `DecodeCut`). What they need of a
document is `AgreeDoc`: its two tables name the same fields in the same order, none
twice, with types that agree. `EveryDocument` shows that of every pair of tables,
part by part (`EachTable`, `UnderTable`, `JoinTable`): this is where two fields that
change places would be found. `WireInv` says which bytes there are at each step.

The definitions recurse over functions on `0 .. n`. Each is characterised once by
the least number at which the statement would fail (`Climb`, `Recursion`), since the
library's induction theorems cannot be instantiated.

### Only model-checked

- `StopTerminates` and `CallReturns`: liveness under fairness is out of the prover's reach.
- `Reopens`: that no handler appends what replay has no room for.
- `EverythingFits`: it is about the numbers of `limits.hpp` and the tables, with no
  parameter and no state but the kind of document, so that TLC's evaluation for every
  kind is the whole of it.

## 5. Disagreements between the code and its documentation

Shown by a run:

1. `fabric_identity`. `begin_promotion` takes `attempt_sequence + 1`
   (`fabric.cpp:775`), and replaying attempt and lineage records does not raise
   that counter; only an epoch record or a snapshot carries it. After a crash an
   identity that is already in the lineage is handed out again and its record
   overwritten. `docs/AUTHORITY_MODEL.md:67` calls the identity monotonic.
2. `store_fault_loss`. A failed flush leaves a record in the file that
   `last_sequence_` does not count. The next append reuses the sequence, is
   acknowledged, and is skipped by replay in favour of the first.
3. `server_return`. A session thread notifies `wait_cv_` after it has released the
   mutex (`server.cpp:570`), so `run` may return, and the server be destroyed, before
   the last use of it.
4. `wire_trailing`. `dispatch` answers `status_req` and `shutdown_req` without asking
   `at_end` (`server.cpp:217`, `server.cpp:407`), so a header followed by anything is
   accepted; `include/pff/wire.hpp:4` says every decoder rejects trailing bytes.

Met while modelling, without a run of their own:

- `set_authority` assigns the new generations before it appends (`fabric.cpp:648`); a
  refused append leaves the vector moved in memory and the old grant in force.
  `BasisCurrent` fails under `FabricRefusals.cfg` for that reason, and is not checked there.
- A decoder failure ends a handshake but not a session past it (`server.cpp:523`):
  the session reads on and understands nothing. A client that goes on after a failed
  call can therefore wait for ever, for there is no timeout (`client.cpp:108`).
- `open` appends the interrupted record and then the fence (`fabric.cpp:131`). A
  crash between them leaves an attempt that is terminal at the next open and is
  never fenced; `README.md:159-161` and `docs/AUTHORITY_MODEL.md:85` say every one is.
- `record_effect` appends the committed record and then the lineage entry; a crash
  between them is not repaired, and `README.md:312-313` counts on both.
- `revert` commits an attempt without an effect, to any path that validates;
  `README.md:146` says the only way to `committed` is a verified effect, and
  `include/pff/fabric.hpp:98` speaks of a previously displaced path. Its
  revalidation count is that of the attempt it starts from, so `max_revalidations`
  does not bound how often one attempt is reverted.
- When the second append of `begin_promotion` fails the attempt stays claimed
  without an owner (`fabric.cpp:856`) and the next promotion is admitted next to it;
  when the append of `record_effect` fails the record reads as committed in memory
  (`fabric.cpp:927`), against `include/pff/records.hpp:21` ("complete and durable").
- With the default `compaction_journal_bytes = limits::max_journal_bytes` no
  compaction is due before the journal is full (`include/pff/fabric.hpp:33`); from then
  on `open` cannot append its epoch record.
- No gate of the selector reads `observed_under` of a member's evidence
  (`selector.cpp:101`), against `include/pff/model.hpp:49-50`; evidence given to
  `apply_evidence` does not reach the selector at all.
- Memory evicts the lowest ended identity (`fabric.cpp:186`), replay the earliest ended
  record (`store.cpp:295`), so once `max_attempts` are on disk a restart may have
  forgotten an ended attempt that was still in memory, and remember one that was not.
  Replay is bounded by `limits::max_attempts` alone, so a restart may load more than
  `max_retained_attempts`; `retain_attempt_locked` makes room for one record at a time.
- `begin_promotion` appends the attempt before it asks whether the table has room
  (`fabric.cpp:186` is reached from `persist_attempt_locked`); a table can only be full of
  attempts in flight after refused appends have left some, which is why `Reopens` is
  checked without them.
- A session leaves the table before its thread is counted out (`server.cpp:565`), so
  more than `max_sessions` threads can be alive, against `docs/ARCHITECTURE.md:115-116`.
- `send_all` passes no `MSG_NOSIGNAL` (`net.cpp:186`) and nothing ignores `SIGPIPE`: on
  POSIX the `shutdown()` that is to release a blocked send can end the process.
- A set supplied again under the same generation with other evidence is
  acknowledged and dropped (`fabric.cpp:552`). A full lineage evicts its oldest
  entry, against `docs/EVIDENCE.md:137` ("refuse rather than evict"). `require_verified_effect` and the policy's `max_retained_attempts` are read by
  nothing.

## 6. Not modelled

- The values of checksums and digests (`crc32c.cpp`, the digest of a decision): a
  checksum that matches is taken to mean that the bytes are the ones written. A
  zero-filled or bit-flipped journal after a power failure is therefore outside
  `Store`; what a reader does with altered bytes is in `Wire`.
- An inspector whose scan of the journal is itself interrupted by a compaction
  (it may report a journal that is not contiguous), and `reset_journal_for_test`.
- The text rendering of decisions, statuses and identities (formatting); statistics,
  which nothing reads back into a decision.
- The argument handling and output of `pffd`, `pffctl` and `pff_host`: they compose calls
  of the library that the modules take in any order.
- Appends of a Fabric handler that fail after they have written (section 2).
- The ranges of `max_retained_attempts`, `max_revalidations` and `min_score` in
  `ValidPolicy`, and the identity, the number of candidates and the path of the evidence
  in `ValidSet`: checks that refuse more, and about values the model does not hold.
- Evidence per member in the sets of `Fabric`, and with it a set supplied again under
  its generation (`fabric.cpp:552`).
- A wakeup of `accept` that fails (`server.cpp:79`).

## 7. Plan

Order of work, most important behaviour first.

1. Done: `Authority`, `Fabric`, `Store` with `DurableLog`, `Selector`, `Server`;
   ownership and types of `Fabric` and the selector's arithmetic proved.
2. Done: the session protocol (`FrameDecoder`, `Session`, `Rpc`), every document
   (`Wire`), the snapshot (`Snapshot` of `Fabric`).
3. Done: proofs of every safety property of `Fabric`, `Store` (with its refinement of
   `DurableLog`), `Selector`, `Server` and `Session` (with its refinement of `Rpc`), and
   of the codecs of `Wire`.
4. `Reopens` for every value of the constants. It needs, beside `RecoveryInv`, that the
   fences in memory are finitely many and within their bound (as in `ReleaseInv`), and
   that replay finds a terminal record whenever an attempt begins.
5. Composition: `Promotable` of `Fabric` replaced by `Evaluate` of `Selector` over sets
   with evidence per member; `Fabric`'s records carried by `DurableLog`.
