-------------------------------- MODULE Server --------------------------------
(***************************************************************************)
(* The life of the service, src/src/server.cpp: one accept thread, one     *)
(* detached thread per session, and a stop that any thread may request and *)
(* that must release whoever is blocked in accept, recv or send.           *)
(*                                                                         *)
(* A step is what a thread does between two points at which another thread *)
(* can interfere: a critical section of mu_, an atomic access, a blocking  *)
(* call.  The peers are the environment: they connect, talk, stop reading  *)
(* and disconnect as they like.  What a request does to the fabric is one  *)
(* critical section of Fabric and is not repeated here; a request answers, *)
(* closes its session, or stops the server.  Statistics are left out, and  *)
(* a send on a dead connection returns an error (it raises SIGPIPE on a    *)
(* POSIX build whose process does not ignore that signal).                 *)
(***************************************************************************)
EXTENDS Naturals, FiniteSets

CONSTANTS
    Conns,         \* connections that peers may open
    Wake,          \* the connection a stopping thread makes to the listener
    Owner,         \* a thread outside the server: the caller of run and stop
    Setups         \* the servers considered, each with
                   \*   max_sessions, allow_shutdown  of options_
                   \*   max_frames     bound on the frames one recv completes
                   \*   thread_faults  may accept or the creation of a thread fail?

ASSUME ServerAssumption ==
    /\ Wake \notin Conns /\ Owner \notin Conns
    /\ IsFiniteSet(Conns)
    /\ Setups \subseteq [max_sessions : Nat \ {0}, max_frames : Nat \ {0},
                        allow_shutdown : BOOLEAN, thread_faults : BOOLEAN]

VARIABLES
    setup,     \* which server it is
    stop,      \* stop_
    listening, \* is listener_ open?
    backlog,   \* connections waiting to be accepted
    run,       \* where the accept thread stands, and the connection it holds
    table,     \* sessions_
    threads,   \* active_threads_
    session,   \* where each session thread stands
    stopper,   \* the one call of request_stop that does the work
    shut,      \* sockets on which shutdown() was called
    peer       \* the other end of each connection

vars == <<setup, stop, listening, backlog, run, table, threads, session, stopper,
          shut, peer>>

-----------------------------------------------------------------------------
(* Data. *)

\* failed: run returned an error and ~Server is to follow.
RunStep == {"loop", "accept", "accepted", "admit", "spawn", "start", "close",
            "failed", "stopping", "wait", "asleep", "returned"}

SessionStep == {"none", "loop", "recv", "serve", "send", "stop", "stopping",
                "forget", "leave", "notify", "done"}

\* frames are decoded requests not yet popped; then is where a send leads.
\* A decoder that failed in the request loop never yields a frame again.
Session ==
    [at : SessionStep, phase : {"handshake", "requests", "failed"},
     frames : Nat, then : {"loop", "serve", "stop", "forget"}]

NoSession ==
    [at |-> "none", phase |-> "handshake", frames |-> 0, then |-> "forget"]

Stopper ==
    [by : Conns \cup {Owner}, at : {"none", "wake", "snapshot", "shutdown", "done"},
     handles : SUBSET Conns]

Init ==
    /\ setup \in Setups
    /\ stop = FALSE
    /\ listening = TRUE
    /\ backlog = {}
    /\ run = [at |-> "loop", conn |-> Wake]
    /\ table = {}
    /\ threads = 0
    /\ session = [c \in Conns |-> NoSession]
    /\ stopper = [by |-> Owner, at |-> "none", handles |-> {}]
    /\ shut = {}
    /\ peer = [c \in Conns |-> "absent"]

-----------------------------------------------------------------------------
(* The peers. *)

Connect(c) ==
    /\ peer[c] = "absent"
    /\ listening
    /\ peer' = [peer EXCEPT ![c] = "connected"]
    /\ backlog' = backlog \cup {c}
    /\ UNCHANGED <<setup, stop, listening, run, table, threads, session, stopper,
                   shut>>

Disconnect(c) ==
    /\ peer[c] = "connected"
    /\ peer' = [peer EXCEPT ![c] = "gone"]
    /\ UNCHANGED <<setup, stop, listening, backlog, run, table, threads, session,
                   stopper, shut>>

-----------------------------------------------------------------------------
(* The accept thread. *)

Goto(step) == run' = [run EXCEPT !.at = step]

RunLoop ==
    /\ run.at = "loop"
    /\ Goto(IF stop THEN "close" ELSE "accept")
    /\ UNCHANGED <<setup, stop, listening, backlog, table, threads, session,
                   stopper, shut, peer>>

Accept ==
    /\ run.at = "accept"
    /\ \E c \in backlog :
         /\ run' = [at |-> "accepted", conn |-> c]
         /\ backlog' = backlog \ {c}
    /\ UNCHANGED <<setup, stop, listening, table, threads, session, stopper, shut,
                   peer>>

\* An error of accept ends run at once, without waiting for any session.
AcceptFails ==
    /\ setup.thread_faults
    /\ run.at = "accept"
    /\ Goto(IF stop THEN "close" ELSE "failed")
    /\ UNCHANGED <<setup, stop, listening, backlog, table, threads, session,
                   stopper, shut, peer>>

\* stop_ is read again before the connection becomes a session.
Accepted ==
    /\ run.at = "accepted"
    /\ Goto(IF stop THEN "close" ELSE "admit")
    /\ UNCHANGED <<setup, stop, listening, backlog, table, threads, session,
                   stopper, shut, peer>>

\* The first critical section: a full table rejects the connection.
Admit ==
    /\ run.at = "admit"
    /\ IF Cardinality(table) >= setup.max_sessions
       THEN Goto("loop") /\ UNCHANGED table
       ELSE Goto("spawn") /\ table' = table \cup {run.conn}
    /\ UNCHANGED <<setup, stop, listening, backlog, threads, session, stopper, shut,
                   peer>>

\* The second critical section counts the thread.
Spawn ==
    /\ run.at = "spawn"
    /\ Goto("start")
    /\ threads' = threads + 1
    /\ UNCHANGED <<setup, stop, listening, backlog, table, session, stopper, shut,
                   peer>>

\* The thread starts, or cannot: then both of its entries are taken back (two
\* critical sections, between which nobody depends on the entries) and run fails.
Start ==
    /\ run.at = "start"
    /\ \/ /\ session' = [session EXCEPT ![run.conn].at = "loop"]
          /\ Goto("loop")
          /\ UNCHANGED <<table, threads>>
       \/ /\ setup.thread_faults
          /\ threads' = threads - 1
          /\ table' = table \ {run.conn}
          /\ Goto("failed")
          /\ UNCHANGED session
    /\ UNCHANGED <<setup, stop, listening, backlog, stopper, shut, peer>>

\* Only this thread closes the listener; what is still queued is refused.
CloseListener ==
    /\ run.at = "close"
    /\ Goto("wait")
    /\ listening' = FALSE
    /\ backlog' = {}
    /\ UNCHANGED <<setup, stop, table, threads, session, stopper, shut, peer>>

\* Mutant of WaitForSessions: an empty table is taken for no threads.
WaitForTable ==
    /\ run.at = "wait"
    /\ Goto(IF table = {} THEN "returned" ELSE "asleep")
    /\ UNCHANGED <<setup, stop, listening, backlog, table, threads, session,
                   stopper, shut, peer>>

\* The predicate of the condition variable; a false one puts the thread to sleep.
WaitForSessions ==
    /\ run.at = "wait"
    /\ Goto(IF threads = 0 THEN "returned" ELSE "asleep")
    /\ UNCHANGED <<setup, stop, listening, backlog, table, threads, session,
                   stopper, shut, peer>>

-----------------------------------------------------------------------------
(* request_stop. *)

\* The first caller does the work, any other returns at once.
RequestStop(who) ==
    /\ stop' = TRUE
    /\ stopper' = IF stop THEN stopper ELSE [stopper EXCEPT !.by = who, !.at = "wake"]

\* A thread that is not part of the server stops it.
OwnerStops ==
    /\ ~stop
    /\ RequestStop(Owner)
    /\ UNCHANGED <<setup, listening, backlog, run, table, threads, session, shut,
                   peer>>

\* ~Server after a run that returned an error: request_stop, then the wait.
Destroy ==
    /\ run.at = "failed"
    /\ RequestStop(Owner)
    /\ Goto(IF stop THEN "wait" ELSE "stopping")
    /\ UNCHANGED <<setup, listening, backlog, table, threads, session, shut, peer>>

WakeAcceptor ==
    /\ stopper.at = "wake"
    /\ stopper' = [stopper EXCEPT !.at = "snapshot"]
    /\ backlog' = IF listening THEN backlog \cup {Wake} ELSE backlog
    /\ UNCHANGED <<setup, stop, listening, run, table, threads, session, shut,
                   peer>>

\* release_blocked_io takes the handles under mu_ and uses them outside it.
Snapshot ==
    /\ stopper.at = "snapshot"
    /\ stopper' = [stopper EXCEPT !.at = "shutdown", !.handles = table]
    /\ UNCHANGED <<setup, stop, listening, backlog, run, table, threads, session,
                   shut, peer>>

\* request_stop returns to the session or to the destructor that called it.
Resume ==
    /\ session' = [c \in Conns |-> IF c = stopper.by
                                   THEN [session[c] EXCEPT !.at = "forget"] ELSE session[c]]
    /\ run' = IF run.at = "stopping" THEN [run EXCEPT !.at = "wait"] ELSE run

\* Mutant of ShutdownHandles: the caller's own session is all that is released.
ShutdownOwnHandle ==
    /\ stopper.at = "shutdown"
    /\ stopper' = [stopper EXCEPT !.at = "done", !.handles = {}]
    /\ shut' = shut \cup (stopper.handles \cap {stopper.by})
    /\ Resume
    /\ UNCHANGED <<setup, stop, listening, backlog, table, threads, peer>>

ShutdownHandles ==
    /\ stopper.at = "shutdown"
    /\ stopper' = [stopper EXCEPT !.at = "done", !.handles = {}]
    /\ shut' = shut \cup stopper.handles
    /\ Resume
    /\ UNCHANGED <<setup, stop, listening, backlog, table, threads, peer>>

-----------------------------------------------------------------------------
(* A session thread. *)

Local(c, s) ==
    /\ session' = [session EXCEPT ![c] = s]
    /\ UNCHANGED <<setup, stop, listening, backlog, run, table, threads, stopper,
                   shut, peer>>

\* Mutant of SessionLoop: the loop relies on shutdown() alone.
SessionLoopBlind(c) ==
    /\ session[c].at = "loop"
    /\ Local(c, [session[c] EXCEPT !.at = "recv"])

\* Both loops read stop_ before they block in recv.
SessionLoop(c) ==
    /\ session[c].at = "loop"
    /\ Local(c, [session[c] EXCEPT !.at = IF stop THEN "forget" ELSE "recv"])

Dead(c) == c \in shut \/ peer[c] = "gone"

\* recv returns nothing: the peer or a stopping thread ended the connection.
ReceiveEnd(c) ==
    /\ session[c].at = "recv"
    /\ Dead(c)
    /\ Local(c, [session[c] EXCEPT !.at = "forget"])

\* Bytes arrive.  They complete frames, or none, or are not a frame at all: that
\* ends a handshake, and leaves a session that is past it open but deaf.
Receive(c) ==
    /\ session[c].at = "recv"
    /\ ~Dead(c)
    /\ \/ /\ session[c].phase # "failed"
          /\ \E n \in session[c].frames .. setup.max_frames :
               Local(c, [session[c] EXCEPT !.at = IF n = 0 THEN "loop" ELSE "serve",
                                           !.frames = n])
       \/ Local(c, IF session[c].phase = "handshake"
                   THEN [session[c] EXCEPT !.at = "forget", !.frames = 0]
                   ELSE [session[c] EXCEPT !.at = "loop", !.phase = "failed", !.frames = 0])

\* The hello: accepted and acknowledged, or refused with an answer, or dropped.
\* What arrived behind it stays in the decoder until recv returns again.
Handshake(c) ==
    /\ session[c].at = "serve"
    /\ session[c].phase = "handshake"
    /\ LET popped == [session[c] EXCEPT !.at = "send", !.frames = @ - 1]
       IN  \/ Local(c, [popped EXCEPT !.phase = "requests", !.then = "loop"])
           \/ Local(c, [popped EXCEPT !.then = "forget"])
           \/ Local(c, [popped EXCEPT !.at = "forget"])

\* A request is dispatched: answered, refused for good, or a shutdown.  With
\* frames left the inner loop goes on without looking at stop_.
Dispatch(c) ==
    /\ session[c].at = "serve"
    /\ session[c].phase = "requests"
    /\ LET popped == [session[c] EXCEPT !.at = "send", !.frames = @ - 1]
       IN  \/ Local(c, [popped EXCEPT !.then = IF popped.frames > 0 THEN "serve" ELSE "loop"])
           \/ Local(c, [popped EXCEPT !.then = "forget"])
           \/ setup.allow_shutdown /\ Local(c, [popped EXCEPT !.then = "stop"])

\* The peer takes the answer.  A peer that went away may still seem to.
Send(c) ==
    /\ session[c].at = "send"
    /\ c \notin shut
    /\ Local(c, [session[c] EXCEPT !.at = session[c].then, !.then = "forget"])

\* send_all fails.  A shutdown request stops the server all the same.
SendFails(c) ==
    /\ session[c].at = "send"
    /\ Dead(c)
    /\ Local(c, [session[c] EXCEPT !.at =
                    IF session[c].then = "stop" THEN "stop" ELSE "forget"])

SessionStops(c) ==
    /\ session[c].at = "stop"
    /\ RequestStop(c)
    /\ session' = [session EXCEPT ![c].at = IF stop THEN "forget" ELSE "stopping"]
    /\ UNCHANGED <<setup, listening, backlog, run, table, threads, shut, peer>>

\* forget_session, in its own critical section; what the session knew is not
\* read again.
Forget(c) ==
    /\ session[c].at = "forget"
    /\ session' = [session EXCEPT ![c] = [NoSession EXCEPT !.at = "leave"]]
    /\ table' = table \ {c}
    /\ UNCHANGED <<setup, stop, listening, backlog, run, threads, stopper, shut,
                   peer>>

Leave(c) ==
    /\ session[c].at = "leave"
    /\ session' = [session EXCEPT ![c].at = "notify"]
    /\ threads' = threads - 1
    /\ UNCHANGED <<setup, stop, listening, backlog, run, table, stopper, shut,
                   peer>>

\* wait_cv_.notify_all(), after the mutex was released.
Notify(c) ==
    /\ session[c].at = "notify"
    /\ session' = [session EXCEPT ![c].at = "done"]
    /\ run' = IF run.at = "asleep" THEN [run EXCEPT !.at = "wait"] ELSE run
    /\ UNCHANGED <<setup, stop, listening, backlog, table, threads, stopper, shut,
                   peer>>

-----------------------------------------------------------------------------
AcceptThread ==
    RunLoop \/ Accept \/ AcceptFails \/ Accepted \/ Admit \/ Spawn \/ Start
      \/ CloseListener \/ WaitForSessions \/ Destroy

StopThread == WakeAcceptor \/ Snapshot \/ ShutdownHandles

\* What a session thread does by itself: everything but waiting for its peer.
SessionThread(c) ==
    SessionLoop(c) \/ ReceiveEnd(c) \/ Handshake(c) \/ Dispatch(c) \/ SendFails(c)
      \/ SessionStops(c) \/ Forget(c) \/ Leave(c) \/ Notify(c)

Next ==
    \/ AcceptThread \/ StopThread \/ OwnerStops
    \/ \E c \in Conns :
         Connect(c) \/ Disconnect(c) \/ Receive(c) \/ Send(c) \/ SessionThread(c)

\* The operating system schedules every thread that can run.  Nothing is
\* assumed of the peers: they may never talk, never read, never leave.
Fairness ==
    /\ WF_vars(AcceptThread)
    /\ WF_vars(StopThread)
    /\ \A c \in Conns : WF_vars(SessionThread(c))

Spec == Init /\ [][Next]_vars /\ Fairness

-----------------------------------------------------------------------------
(* Properties. *)

\* Every variable stays in its domain; active_threads_ never wraps below 0.
TypeOK ==
    /\ setup \in Setups
    /\ stop \in BOOLEAN /\ listening \in BOOLEAN
    /\ backlog \subseteq Conns \cup {Wake}
    /\ run \in [at : RunStep, conn : Conns \cup {Wake}]
    /\ table \subseteq Conns /\ shut \subseteq Conns
    /\ threads \in Nat
    /\ session \in [Conns -> Session]
    /\ stopper \in Stopper
    /\ peer \in [Conns -> {"absent", "connected", "gone"}]

\* When run has returned (or the destructor has, after an error of run) no
\* session thread will use the session table, the fabric or the mutex again:
\* each has at most its notification left.  The wait is on active_threads_,
\* which is counted apart from the table.
Drained ==
    run.at = "returned" =>
        /\ table = {}
        /\ \A c \in Conns : session[c].at \in {"none", "notify", "done"}

\* A stop, whoever requests it and whenever, gets the server stopped, although
\* a session may be admitted while it is under way, peers may be silent, and a
\* session may be blocked in a send nobody reads.
StopTerminates == stop ~> run.at = "returned"

-----------------------------------------------------------------------------
(* A claim of the repository that the code does not keep. *)

\* "Returns once request_stop() has been observed and all session threads have
\* finished." (src/include/pff/server.hpp): a thread that has counted itself out
\* still has to notify wait_cv_, which the owner of the server may destroy.
RunOutlivesSessions ==
    run.at = "returned" => \A c \in Conns : session[c].at \in {"none", "done"}
==============================================================================
