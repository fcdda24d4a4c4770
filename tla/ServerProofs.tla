----------------------------- MODULE ServerProofs -----------------------------
(***************************************************************************)
(* Theorems about Server, for any number of connections and every setup.   *)
(***************************************************************************)
EXTENDS Server, FiniteSetTheorems, TLAPS

\* The threads that active_threads_ still counts.
Counted == {c \in Conns : session[c].at \notin {"none", "notify", "done"}}

\* Where a session thread is before it has left the table.
ServedStep == SessionStep \ {"none", "leave", "notify", "done"}

\* active_threads_ is the number of threads that were started and have not
\* counted themselves out; run counts the next one before it starts it.
ThreadsCounted ==
    threads = Cardinality(Counted) + IF run.at = "start" THEN 1 ELSE 0

\* Whoever is in the table has a thread that will take it out, or run is about
\* to start one.
TableServed ==
    \A c \in table :
        \/ session[c].at \in ServedStep
        \/ run.at \in {"spawn", "start"} /\ run.conn = c

\* The connection that wakes accept never becomes a session: stop_ was set
\* before it was made.
WakeMeansStop ==
    /\ Wake \in backlog => stop
    /\ run.at = "accepted" /\ run.conn = Wake => stop
    /\ run.at \in {"admit", "spawn", "start"} => run.conn \in Conns

\* A connection has no session before it is accepted, and is accepted once.
AcceptedOnce ==
    /\ \A c \in Conns : peer[c] = "absent" => session[c].at = "none" /\ c \notin backlog
    /\ \A c \in Conns \cap backlog : session[c].at = "none"
    /\ run.at \in {"accepted", "admit", "spawn", "start"} /\ run.conn \in Conns =>
          /\ session[run.conn].at = "none"
          /\ run.conn \notin backlog
          /\ peer[run.conn] # "absent"

\* A session that is stopping the server does nothing else meanwhile.
StopperWaits ==
    /\ ~stop => stopper.at = "none"
    /\ stopper.at \in {"wake", "snapshot", "shutdown"} /\ stopper.by \in Conns =>
          session[stopper.by].at = "stopping"

\* A session that serves has a frame to serve.
FramesLeft ==
    \A c \in Conns :
        session[c].at = "serve" \/ (session[c].at = "send" /\ session[c].then = "serve")
            => session[c].frames > 0

\* run returns when no thread is counted any more, and starts none afterwards.
ReturnsAtZero == run.at = "returned" => threads = 0

\* The inductive invariant.
ServerInv ==
    /\ TypeOK
    /\ ThreadsCounted
    /\ TableServed
    /\ WakeMeansStop
    /\ AcceptedOnce
    /\ StopperWaits
    /\ FramesLeft
    /\ ReturnsAtZero

-----------------------------------------------------------------------------
(* Counting. *)

LEMMA CountedFinite == IsFiniteSet(Counted) /\ Cardinality(Counted) \in Nat
<1>1. IsFiniteSet(Counted)
    BY ServerAssumption, FS_Subset DEF Counted
<1> QED BY <1>1, FS_CardinalityType

LEMMA StepsDistinct ==
    /\ ServedStep \subseteq SessionStep
    /\ ServedStep = {"loop", "recv", "serve", "send", "stop", "stopping", "forget"}
BY DEF ServedStep, SessionStep

-----------------------------------------------------------------------------
(* The initial state. *)

LEMMA InvInit == Init => ServerInv
<1> SUFFICES ASSUME Init
             PROVE  ServerInv
    OBVIOUS
<1> USE DEF Init
<1>1. TypeOK
    BY DEF TypeOK, RunStep, Session, SessionStep, NoSession, Stopper
<1>2. Counted = {}
    BY DEF Counted, NoSession
<1>3. ThreadsCounted
    BY <1>2, FS_EmptySet DEF ThreadsCounted
<1>4. TableServed /\ WakeMeansStop /\ AcceptedOnce /\ StopperWaits /\ FramesLeft
    BY DEF TableServed, WakeMeansStop, AcceptedOnce, StopperWaits, FramesLeft, NoSession
<1> QED BY <1>1, <1>3, <1>4 DEF ServerInv, ReturnsAtZero

-----------------------------------------------------------------------------
(* A session thread at work changes nothing but its own state. *)

LEMMA LocalStep ==
    ASSUME ServerInv, NEW c \in Conns, NEW s \in Session, Local(c, s),
           session[c].at \in ServedStep \ {"stopping"}, s.at \in ServedStep,
           s.at = "serve" \/ (s.at = "send" /\ s.then = "serve") => s.frames > 0
    PROVE  ServerInv'
<1> USE DEF Local
<1>1. session' = [session EXCEPT ![c] = s] /\ session \in [Conns -> Session]
    BY DEF ServerInv, TypeOK
<1>2. /\ session'[c] = s
      /\ \A d \in Conns \ {c} : session'[d] = session[d]
    BY <1>1
<1>3. TypeOK'
    BY <1>1 DEF ServerInv, TypeOK
<1>4. Counted' = Counted
    BY <1>2, StepsDistinct DEF Counted
<1>5. ThreadsCounted'
    BY <1>4 DEF ServerInv, ThreadsCounted
<1>6. TableServed'
    BY <1>2 DEF ServerInv, TableServed, TypeOK
<1>7. WakeMeansStop'
    BY DEF ServerInv, WakeMeansStop
<1>8. AcceptedOnce'
    BY <1>2, StepsDistinct DEF ServerInv, AcceptedOnce
<1>9. StopperWaits'
    BY <1>2 DEF ServerInv, StopperWaits
<1>10. FramesLeft'
    BY <1>2 DEF ServerInv, FramesLeft
<1> QED BY <1>3, <1>5, <1>6, <1>7, <1>8, <1>9, <1>10 DEF ServerInv, ReturnsAtZero

LEMMA SessionFields ==
    ASSUME ServerInv, NEW c \in Conns
    PROVE  /\ session[c] \in Session
           /\ session[c].at \in SessionStep
           /\ session[c].frames \in Nat
           /\ session[c].then \in {"loop", "serve", "stop", "forget"}
           /\ setup.max_frames \in Nat
BY ServerAssumption DEF ServerInv, TypeOK, Session

LEMMA WorkKeeps ==
    ASSUME ServerInv, NEW c \in Conns
    PROVE  /\ SessionLoop(c) => ServerInv'
           /\ ReceiveEnd(c) => ServerInv'
           /\ Receive(c) => ServerInv'
           /\ Handshake(c) => ServerInv'
           /\ Dispatch(c) => ServerInv'
           /\ Send(c) => ServerInv'
           /\ SendFails(c) => ServerInv'
<1> DEFINE s == session[c]
<1>f. s \in Session /\ s.frames \in Nat /\ s.then \in {"loop", "serve", "stop", "forget"}
      /\ setup.max_frames \in Nat
    BY SessionFields
<1>l. s.at = "serve" \/ (s.at = "send" /\ s.then = "serve") => s.frames > 0
    BY DEF ServerInv, FramesLeft
<1>1. ASSUME SessionLoop(c)
      PROVE  ServerInv'
    <2> DEFINE t == [s EXCEPT !.at = IF stop THEN "forget" ELSE "recv"]
    <2>1. t \in Session /\ t.at \in {"forget", "recv"}
        BY <1>f DEF Session, SessionStep
    <2>2. Local(c, t) /\ s.at = "loop"
        BY <1>1 DEF SessionLoop
    <2> HIDE DEF t
    <2> QED BY <2>1, <2>2, LocalStep, StepsDistinct
<1>2. ASSUME ReceiveEnd(c)
      PROVE  ServerInv'
    <2> DEFINE t == [s EXCEPT !.at = "forget"]
    <2>1. t \in Session /\ t.at = "forget"
        BY <1>f DEF Session, SessionStep
    <2>2. Local(c, t) /\ s.at = "recv"
        BY <1>2 DEF ReceiveEnd
    <2> HIDE DEF t
    <2> QED BY <2>1, <2>2, LocalStep, StepsDistinct
<1>3. ASSUME Receive(c)
      PROVE  ServerInv'
    <2>1. CASE \E n \in s.frames .. setup.max_frames :
                 Local(c, [s EXCEPT !.at = IF n = 0 THEN "loop" ELSE "serve", !.frames = n])
        <3>1. PICK n \in s.frames .. setup.max_frames :
                 Local(c, [s EXCEPT !.at = IF n = 0 THEN "loop" ELSE "serve", !.frames = n])
            BY <2>1
        <3> DEFINE t == [s EXCEPT !.at = IF n = 0 THEN "loop" ELSE "serve", !.frames = n]
        <3>2. n \in Nat
            BY <1>f
        <3> DEFINE a == IF n = 0 THEN "loop" ELSE "serve"
        <3>a. a \in {"loop", "serve"} /\ (a = "serve" => n > 0) /\ a \in SessionStep
            BY <3>2 DEF SessionStep
        <3>b. t = [s EXCEPT !.at = a, !.frames = n]
            OBVIOUS
        <3> HIDE DEF a, t
        <3>3. /\ t \in Session /\ t.at \in {"loop", "serve"}
              /\ t.at = "serve" => t.frames > 0
            BY <1>f, <3>2, <3>a, <3>b DEF Session
        <3>4. Local(c, t) /\ s.at = "recv"
            BY <1>3, <3>1 DEF Receive, t
        <3> QED BY <3>3, <3>4, LocalStep, StepsDistinct
    <2>2. CASE Local(c, IF s.phase = "handshake"
                        THEN [s EXCEPT !.at = "forget", !.frames = 0]
                        ELSE [s EXCEPT !.at = "loop", !.phase = "failed", !.frames = 0])
        <3> DEFINE t == IF s.phase = "handshake"
                        THEN [s EXCEPT !.at = "forget", !.frames = 0]
                        ELSE [s EXCEPT !.at = "loop", !.phase = "failed", !.frames = 0]
        <3>1. t \in Session /\ t.at \in {"forget", "loop"}
            BY <1>f DEF Session, SessionStep
        <3>2. Local(c, t) /\ s.at = "recv"
            BY <1>3, <2>2 DEF Receive
        <3> HIDE DEF t
        <3> QED BY <3>1, <3>2, LocalStep, StepsDistinct
    <2> QED BY <1>3, <2>1, <2>2 DEF Receive
<1> DEFINE q == [s EXCEPT !.at = "send", !.frames = @ - 1]
<1>4. ASSUME s.at = "serve"
      PROVE  q \in Session /\ q.at = "send" /\ q.frames = s.frames - 1
    <2>1. s.frames - 1 \in Nat
        BY <1>f, <1>l, <1>4
    <2> QED BY <1>f, <2>1 DEF Session, SessionStep
<1>5. ASSUME Handshake(c)
      PROVE  ServerInv'
    <2> HIDE DEF q
    <2> DEFINE t1 == [q EXCEPT !.phase = "requests", !.then = "loop"]
               t2 == [q EXCEPT !.then = "forget"]
               t3 == [q EXCEPT !.at = "forget"]
    <2>1. s.at = "serve" /\ s.at \in ServedStep \ {"stopping"}
        BY <1>5, StepsDistinct DEF Handshake
    <2>2. Local(c, t1) \/ Local(c, t2) \/ Local(c, t3)
        BY <1>5 DEF Handshake, q
    <2>3. /\ t1 \in Session /\ t1.at = "send" /\ t1.then = "loop"
          /\ t2 \in Session /\ t2.at = "send" /\ t2.then = "forget"
          /\ t3 \in Session /\ t3.at = "forget"
        BY <1>4, <2>1 DEF Session, SessionStep
    <2> HIDE DEF t1, t2, t3
    <2> QED BY <2>1, <2>2, <2>3, LocalStep, StepsDistinct
<1>6. ASSUME Dispatch(c)
      PROVE  ServerInv'
    <2> HIDE DEF q
    <2> DEFINE h == IF q.frames > 0 THEN "serve" ELSE "loop"
               t1 == [q EXCEPT !.then = h]
               t2 == [q EXCEPT !.then = "forget"]
               t3 == [q EXCEPT !.then = "stop"]
    <2>1. s.at = "serve" /\ s.at \in ServedStep \ {"stopping"}
        BY <1>6, StepsDistinct DEF Dispatch
    <2>2. Local(c, t1) \/ Local(c, t2) \/ Local(c, t3)
        BY <1>6 DEF Dispatch, q
    <2>3. h \in {"serve", "loop"} /\ (h = "serve" => q.frames > 0)
        OBVIOUS
    <2> HIDE DEF h
    <2>4. /\ t1 \in Session /\ t1.at = "send" /\ t1.then = h /\ t1.frames = q.frames
          /\ t2 \in Session /\ t2.at = "send" /\ t2.then = "forget"
          /\ t3 \in Session /\ t3.at = "send" /\ t3.then = "stop"
        BY <1>4, <2>1, <2>3 DEF Session, SessionStep
    <2> HIDE DEF t1, t2, t3
    <2> QED BY <2>1, <2>2, <2>3, <2>4, LocalStep, StepsDistinct
<1>7. ASSUME Send(c)
      PROVE  ServerInv'
    <2> DEFINE t == [s EXCEPT !.at = s.then, !.then = "forget"]
    <2>1. t \in Session /\ t.at = s.then /\ t.then = "forget" /\ t.frames = s.frames
        BY <1>f DEF Session, SessionStep
    <2>2. Local(c, t) /\ s.at = "send"
        BY <1>7 DEF Send
    <2> HIDE DEF t
    <2> QED BY <1>f, <1>l, <2>1, <2>2, LocalStep, StepsDistinct
<1>8. ASSUME SendFails(c)
      PROVE  ServerInv'
    <2> DEFINE t == [s EXCEPT !.at = IF s.then = "stop" THEN "stop" ELSE "forget"]
    <2>1. t \in Session /\ t.at \in {"stop", "forget"}
        BY <1>f DEF Session, SessionStep
    <2>2. Local(c, t) /\ s.at = "send"
        BY <1>8 DEF SendFails
    <2> HIDE DEF t
    <2> QED BY <2>1, <2>2, LocalStep, StepsDistinct
<1> QED BY <1>1, <1>2, <1>3, <1>5, <1>6, <1>7, <1>8

-----------------------------------------------------------------------------
(* The accept thread. *)

LEMMA GotoFields ==
    ASSUME ServerInv, NEW step \in RunStep, Goto(step)
    PROVE  /\ run' \in [at : RunStep, conn : Conns \cup {Wake}]
           /\ run'.at = step
           /\ run'.conn = run.conn
BY DEF ServerInv, TypeOK, Goto

\* Steps of the accept thread that only move it, away from the connection it
\* holds or with the reading of stop_ that admits it.
LEMMA MoveKeeps ==
    ASSUME ServerInv, NEW step \in RunStep, Goto(step),
           run.at \notin {"spawn", "start"},
           step \notin {"accepted", "spawn", "start"},
           step = "admit" => run.at = "accepted" /\ ~stop,
           step = "returned" => threads = 0,
           UNCHANGED <<setup, stop, listening, backlog, table, threads, session,
                       stopper, shut, peer>>
    PROVE  ServerInv'
<1>1. /\ run' \in [at : RunStep, conn : Conns \cup {Wake}]
      /\ run'.at = step
      /\ run'.conn = run.conn
    BY GotoFields
<1>2. run.conn \in Conns \cup {Wake}
    BY DEF ServerInv, TypeOK
<1>3. TypeOK'
    BY <1>1 DEF ServerInv, TypeOK
<1>4. Counted' = Counted
    BY DEF Counted
<1>5. ThreadsCounted'
    BY <1>1, <1>4 DEF ServerInv, ThreadsCounted
<1>6. TableServed'
    BY <1>1 DEF ServerInv, TableServed
<1>7. WakeMeansStop'
    BY <1>1, <1>2 DEF ServerInv, WakeMeansStop
<1>8. AcceptedOnce'
    BY <1>1 DEF ServerInv, AcceptedOnce
<1>9. StopperWaits' /\ FramesLeft' /\ ReturnsAtZero'
    BY <1>1 DEF ServerInv, StopperWaits, FramesLeft, ReturnsAtZero
<1> QED BY <1>3, <1>5, <1>6, <1>7, <1>8, <1>9 DEF ServerInv

LEMMA MovesKeep ==
    ASSUME ServerInv
    PROVE  /\ RunLoop => ServerInv'
           /\ AcceptFails => ServerInv'
           /\ Accepted => ServerInv'
           /\ WaitForSessions => ServerInv'
<1>1. ASSUME RunLoop
      PROVE  ServerInv'
    <2> DEFINE step == IF stop THEN "close" ELSE "accept"
    <2>1. step \in {"close", "accept"} /\ step \in RunStep
        BY DEF RunStep
    <2>2. Goto(step) /\ run.at = "loop"
        BY <1>1 DEF RunLoop
    <2> HIDE DEF step
    <2> QED BY <1>1, <2>1, <2>2, MoveKeeps DEF RunLoop
<1>2. ASSUME AcceptFails
      PROVE  ServerInv'
    <2> DEFINE step == IF stop THEN "close" ELSE "failed"
    <2>1. step \in {"close", "failed"} /\ step \in RunStep
        BY DEF RunStep
    <2>2. Goto(step) /\ run.at = "accept"
        BY <1>2 DEF AcceptFails
    <2> HIDE DEF step
    <2> QED BY <1>2, <2>1, <2>2, MoveKeeps DEF AcceptFails
<1>3. ASSUME Accepted
      PROVE  ServerInv'
    <2> DEFINE step == IF stop THEN "close" ELSE "admit"
    <2>1. step \in {"close", "admit"} /\ step \in RunStep /\ (step = "admit" => ~stop)
        BY DEF RunStep
    <2>2. Goto(step) /\ run.at = "accepted"
        BY <1>3 DEF Accepted
    <2> HIDE DEF step
    <2> QED BY <1>3, <2>1, <2>2, MoveKeeps DEF Accepted
<1>4. ASSUME WaitForSessions
      PROVE  ServerInv'
    <2> DEFINE step == IF threads = 0 THEN "returned" ELSE "asleep"
    <2>1. step \in {"returned", "asleep"} /\ step \in RunStep
          /\ (step = "returned" => threads = 0)
        BY DEF RunStep
    <2>2. Goto(step) /\ run.at = "wait"
        BY <1>4 DEF WaitForSessions
    <2> HIDE DEF step
    <2> QED BY <1>4, <2>1, <2>2, MoveKeeps DEF WaitForSessions
<1> QED BY <1>1, <1>2, <1>3, <1>4

LEMMA AcceptKeeps ==
    ASSUME ServerInv, Accept
    PROVE  ServerInv'
<1>1. PICK c \in backlog : /\ run' = [at |-> "accepted", conn |-> c]
                           /\ backlog' = backlog \ {c}
    BY DEF Accept
<1>2. c \in Conns \cup {Wake}
    BY DEF ServerInv, TypeOK
<1>3. TypeOK'
    BY <1>1, <1>2 DEF ServerInv, TypeOK, Accept, RunStep
<1>4. Counted' = Counted
    BY DEF Counted, Accept
<1>5. ThreadsCounted'
    BY <1>1, <1>4 DEF ServerInv, ThreadsCounted, Accept
<1>6. TableServed'
    BY <1>1 DEF ServerInv, TableServed, Accept
<1>7. WakeMeansStop'
    BY <1>1 DEF ServerInv, WakeMeansStop, Accept
<1>8. AcceptedOnce'
    BY <1>1, <1>2 DEF ServerInv, AcceptedOnce, Accept
<1>9. StopperWaits' /\ FramesLeft' /\ ReturnsAtZero'
    BY <1>1 DEF ServerInv, StopperWaits, FramesLeft, ReturnsAtZero, Accept
<1> QED BY <1>3, <1>5, <1>6, <1>7, <1>8, <1>9 DEF ServerInv

LEMMA AdmitKeeps ==
    ASSUME ServerInv, Admit
    PROVE  ServerInv'
<1>1. CASE Goto("loop") /\ UNCHANGED table
    BY <1>1, MoveKeeps DEF Admit, RunStep
<1>2. CASE Goto("spawn") /\ table' = table \cup {run.conn}
    <2>1. /\ run' \in [at : RunStep, conn : Conns \cup {Wake}]
          /\ run'.at = "spawn"
          /\ run'.conn = run.conn
        BY <1>2, GotoFields DEF RunStep
    <2>2. run.conn \in Conns /\ run.at = "admit"
        BY DEF ServerInv, WakeMeansStop, Admit
    <2>3. TypeOK'
        BY <1>2, <2>1, <2>2 DEF ServerInv, TypeOK, Admit
    <2>4. Counted' = Counted
        BY DEF Counted, Admit
    <2>5. ThreadsCounted'
        BY <2>1, <2>2, <2>4 DEF ServerInv, ThreadsCounted, Admit
    <2>6. TableServed'
        BY <1>2, <2>1, <2>2 DEF ServerInv, TableServed, Admit
    <2>7. WakeMeansStop'
        BY <2>1, <2>2 DEF ServerInv, WakeMeansStop, Admit
    <2>8. AcceptedOnce'
        BY <2>1, <2>2 DEF ServerInv, AcceptedOnce, Admit
    <2>9. StopperWaits' /\ FramesLeft' /\ ReturnsAtZero'
        BY <2>1 DEF ServerInv, StopperWaits, FramesLeft, ReturnsAtZero, Admit
    <2> QED BY <2>3, <2>5, <2>6, <2>7, <2>8, <2>9 DEF ServerInv
<1> QED BY <1>1, <1>2 DEF Admit

LEMMA SpawnKeeps ==
    ASSUME ServerInv, Spawn
    PROVE  ServerInv'
<1>1. /\ run' \in [at : RunStep, conn : Conns \cup {Wake}]
      /\ run'.at = "start"
      /\ run'.conn = run.conn
    BY GotoFields DEF RunStep, Spawn
<1>2. run.conn \in Conns /\ run.at = "spawn"
    BY DEF ServerInv, WakeMeansStop, Spawn
<1>3. TypeOK'
    BY <1>1 DEF ServerInv, TypeOK, Spawn
<1>4. Counted' = Counted
    BY DEF Counted, Spawn
<1>5. ThreadsCounted'
    BY <1>1, <1>2, <1>4, CountedFinite DEF ServerInv, ThreadsCounted, Spawn
<1>6. TableServed'
    BY <1>1, <1>2 DEF ServerInv, TableServed, Spawn
<1>7. WakeMeansStop'
    BY <1>1, <1>2 DEF ServerInv, WakeMeansStop, Spawn
<1>8. AcceptedOnce'
    BY <1>1, <1>2 DEF ServerInv, AcceptedOnce, Spawn
<1>9. StopperWaits' /\ FramesLeft' /\ ReturnsAtZero'
    BY <1>1 DEF ServerInv, StopperWaits, FramesLeft, ReturnsAtZero, Spawn
<1> QED BY <1>3, <1>5, <1>6, <1>7, <1>8, <1>9 DEF ServerInv

LEMMA StartKeeps ==
    ASSUME ServerInv, Start
    PROVE  ServerInv'
<1>1. /\ run.conn \in Conns /\ run.at = "start"
      /\ session[run.conn].at = "none"
      /\ run.conn \notin backlog
      /\ peer[run.conn] # "absent"
    BY DEF ServerInv, WakeMeansStop, AcceptedOnce, Start
<1>2. threads = Cardinality(Counted) + 1 /\ Cardinality(Counted) \in Nat
    BY <1>1, CountedFinite DEF ServerInv, ThreadsCounted
<1>3. CASE /\ session' = [session EXCEPT ![run.conn].at = "loop"]
           /\ Goto("loop")
           /\ UNCHANGED <<table, threads>>
    <2>1. /\ run' \in [at : RunStep, conn : Conns \cup {Wake}]
          /\ run'.at = "loop"
          /\ run'.conn = run.conn
        BY <1>3, GotoFields DEF RunStep
    <2> DEFINE c == run.conn
               s == [session[c] EXCEPT !.at = "loop"]
    <2>2. session[c] \in Session
        BY <1>1 DEF ServerInv, TypeOK
    <2>3. s \in Session /\ s.at = "loop"
        BY <2>2 DEF Session, SessionStep
    <2>4. session' = [session EXCEPT ![c] = s] /\ session \in [Conns -> Session]
        BY <1>1, <1>3 DEF ServerInv, TypeOK
    <2> HIDE DEF s
    <2>5. session'[c] = s /\ \A d \in Conns \ {c} : session'[d] = session[d]
        BY <1>1, <2>4
    <2>6. TypeOK'
        BY <1>1, <1>3, <2>1, <2>3, <2>4 DEF ServerInv, TypeOK, Start
    <2>7. Counted' = Counted \cup {c} /\ c \notin Counted
        BY <1>1, <2>3, <2>5 DEF Counted
    <2>8. Cardinality(Counted') = Cardinality(Counted) + 1
        BY <2>7, CountedFinite, FS_AddElement
    <2>9. ThreadsCounted'
        BY <1>2, <1>3, <2>1, <2>8 DEF ThreadsCounted
    <2>10. TableServed'
        BY <1>1, <1>3, <2>1, <2>3, <2>5, StepsDistinct DEF ServerInv, TypeOK, TableServed
    <2>11. WakeMeansStop'
        BY <2>1 DEF ServerInv, WakeMeansStop, Start
    <2>12. AcceptedOnce'
        BY <1>1, <2>1, <2>5 DEF ServerInv, AcceptedOnce, Start
    <2>13. StopperWaits'
        BY <1>1, <2>5 DEF ServerInv, StopperWaits, Start
    <2>14. FramesLeft' /\ ReturnsAtZero'
        BY <2>1, <2>3, <2>5 DEF ServerInv, FramesLeft, ReturnsAtZero
    <2> QED BY <2>6, <2>9, <2>10, <2>11, <2>12, <2>13, <2>14 DEF ServerInv
<1>4. CASE /\ threads' = threads - 1
           /\ table' = table \ {run.conn}
           /\ Goto("failed")
           /\ UNCHANGED session
    <2>1. /\ run' \in [at : RunStep, conn : Conns \cup {Wake}]
          /\ run'.at = "failed"
          /\ run'.conn = run.conn
        BY <1>4, GotoFields DEF RunStep
    <2>2. threads' = Cardinality(Counted)
        BY <1>2, <1>4
    <2>3. TypeOK'
        BY <1>2, <1>4, <2>1, <2>2 DEF ServerInv, TypeOK, Start
    <2>4. Counted' = Counted
        BY <1>4 DEF Counted
    <2>5. ThreadsCounted'
        BY <1>2, <2>1, <2>2, <2>4 DEF ThreadsCounted
    <2>6. TableServed'
        BY <1>4, <2>1 DEF ServerInv, TableServed
    <2>7. WakeMeansStop'
        BY <2>1 DEF ServerInv, WakeMeansStop, Start
    <2>8. AcceptedOnce'
        BY <1>4, <2>1 DEF ServerInv, AcceptedOnce, Start
    <2>9. StopperWaits' /\ FramesLeft' /\ ReturnsAtZero'
        BY <1>4, <2>1 DEF ServerInv, StopperWaits, FramesLeft, ReturnsAtZero, Start
    <2> QED BY <2>3, <2>5, <2>6, <2>7, <2>8, <2>9 DEF ServerInv
<1> QED BY <1>3, <1>4 DEF Start

LEMMA CloseKeeps ==
    ASSUME ServerInv, CloseListener
    PROVE  ServerInv'
<1>1. /\ run' \in [at : RunStep, conn : Conns \cup {Wake}]
      /\ run'.at = "wait"
      /\ run'.conn = run.conn
    BY GotoFields DEF RunStep, CloseListener
<1>3. TypeOK'
    BY <1>1 DEF ServerInv, TypeOK, CloseListener
<1>4. Counted' = Counted
    BY DEF Counted, CloseListener
<1>5. ThreadsCounted'
    BY <1>1, <1>4 DEF ServerInv, ThreadsCounted, CloseListener
<1>6. TableServed'
    BY <1>1 DEF ServerInv, TableServed, CloseListener
<1>7. WakeMeansStop'
    BY <1>1 DEF ServerInv, WakeMeansStop, CloseListener
<1>8. AcceptedOnce'
    BY <1>1 DEF ServerInv, AcceptedOnce, CloseListener
<1>9. StopperWaits' /\ FramesLeft' /\ ReturnsAtZero'
    BY <1>1 DEF ServerInv, StopperWaits, FramesLeft, ReturnsAtZero, CloseListener
<1> QED BY <1>3, <1>5, <1>6, <1>7, <1>8, <1>9 DEF ServerInv

-----------------------------------------------------------------------------
(* The peers. *)

LEMMA PeersKeep ==
    ASSUME ServerInv, NEW c \in Conns
    PROVE  /\ Connect(c) => ServerInv'
           /\ Disconnect(c) => ServerInv'
<1>1. peer \in [Conns -> {"absent", "connected", "gone"}] /\ c # Wake
    BY ServerAssumption DEF ServerInv, TypeOK
<1>2. ASSUME Connect(c)
      PROVE  ServerInv'
    <2> USE DEF Connect
    <2>1. TypeOK'
        BY <1>2 DEF ServerInv, TypeOK
    <2>2. Counted' = Counted
        BY <1>2 DEF Counted
    <2>3. ThreadsCounted' /\ TableServed' /\ StopperWaits' /\ FramesLeft' /\ ReturnsAtZero'
        BY <1>2, <2>2
        DEF ServerInv, ThreadsCounted, TableServed, StopperWaits, FramesLeft, ReturnsAtZero
    <2>4. WakeMeansStop'
        BY <1>1, <1>2 DEF ServerInv, WakeMeansStop
    <2>5. AcceptedOnce'
        BY <1>1, <1>2 DEF ServerInv, AcceptedOnce
    <2> QED BY <2>1, <2>3, <2>4, <2>5 DEF ServerInv
<1>3. ASSUME Disconnect(c)
      PROVE  ServerInv'
    <2> USE DEF Disconnect
    <2>1. TypeOK'
        BY <1>3 DEF ServerInv, TypeOK
    <2>2. Counted' = Counted
        BY <1>3 DEF Counted
    <2>3. ThreadsCounted' /\ TableServed' /\ StopperWaits' /\ FramesLeft' /\ ReturnsAtZero'
        BY <1>3, <2>2
        DEF ServerInv, ThreadsCounted, TableServed, StopperWaits, FramesLeft, ReturnsAtZero
    <2>4. WakeMeansStop'
        BY <1>3 DEF ServerInv, WakeMeansStop
    <2>5. AcceptedOnce'
        BY <1>1, <1>3 DEF ServerInv, AcceptedOnce
    <2> QED BY <2>1, <2>3, <2>4, <2>5 DEF ServerInv
<1> QED BY <1>2, <1>3

-----------------------------------------------------------------------------
(* request_stop. *)

LEMMA StopFields ==
    ASSUME ServerInv, NEW who \in Conns \cup {Owner}, RequestStop(who)
    PROVE  /\ stop' = TRUE
           /\ stopper' \in Stopper
           /\ stop => stopper' = stopper
           /\ ~stop => stopper'.by = who /\ stopper'.at = "wake"
BY DEF ServerInv, TypeOK, RequestStop, Stopper

LEMMA OwnerStopsKeeps ==
    ASSUME ServerInv, OwnerStops
    PROVE  ServerInv'
<1>1. /\ stop' = TRUE /\ ~stop
      /\ stopper' \in Stopper
      /\ stopper'.by = Owner /\ stopper'.at = "wake"
    BY StopFields DEF OwnerStops
<1>2. Owner \notin Conns
    BY ServerAssumption
<1>3. TypeOK'
    BY <1>1 DEF ServerInv, TypeOK, OwnerStops
<1>4. Counted' = Counted
    BY DEF Counted, OwnerStops
<1>5. ThreadsCounted' /\ TableServed' /\ AcceptedOnce' /\ FramesLeft' /\ ReturnsAtZero'
    BY <1>4
    DEF ServerInv, ThreadsCounted, TableServed, AcceptedOnce, FramesLeft, ReturnsAtZero,
        OwnerStops
<1>6. WakeMeansStop' /\ StopperWaits'
    BY <1>1, <1>2 DEF ServerInv, WakeMeansStop, StopperWaits, OwnerStops
<1> QED BY <1>3, <1>5, <1>6 DEF ServerInv

LEMMA DestroyKeeps ==
    ASSUME ServerInv, Destroy
    PROVE  ServerInv'
<1> DEFINE step == IF stop THEN "wait" ELSE "stopping"
<1>1. /\ stop' = TRUE
      /\ stopper' \in Stopper
      /\ stop => stopper' = stopper
      /\ ~stop => stopper'.by = Owner /\ stopper'.at = "wake"
    BY StopFields DEF Destroy
<1>2. Owner \notin Conns
    BY ServerAssumption
<1>3. step \in {"wait", "stopping"} /\ step \in RunStep /\ Goto(step) /\ run.at = "failed"
    BY DEF RunStep, Destroy
<1> HIDE DEF step
<1>4. /\ run' \in [at : RunStep, conn : Conns \cup {Wake}]
      /\ run'.at \in {"wait", "stopping"}
    BY <1>3, GotoFields
<1>5. TypeOK'
    BY <1>1, <1>4 DEF ServerInv, TypeOK, Destroy
<1>6. Counted' = Counted
    BY DEF Counted, Destroy
<1>7. ThreadsCounted'
    BY <1>3, <1>4, <1>6 DEF ServerInv, ThreadsCounted, Destroy
<1>8. TableServed' /\ AcceptedOnce' /\ FramesLeft' /\ ReturnsAtZero'
    BY <1>3, <1>4
    DEF ServerInv, TableServed, AcceptedOnce, FramesLeft, ReturnsAtZero, Destroy
<1>9. WakeMeansStop'
    BY <1>1, <1>4 DEF WakeMeansStop
<1>10. StopperWaits'
    BY <1>1, <1>2 DEF ServerInv, StopperWaits, Destroy
<1> QED BY <1>5, <1>7, <1>8, <1>9, <1>10 DEF ServerInv

LEMMA WakeKeeps ==
    ASSUME ServerInv, WakeAcceptor
    PROVE  ServerInv'
<1>1. stop /\ stopper \in Stopper
    BY DEF ServerInv, TypeOK, StopperWaits, WakeAcceptor
<1>2. /\ stopper' \in Stopper
      /\ stopper'.at = "snapshot"
      /\ stopper'.by = stopper.by
    BY <1>1 DEF WakeAcceptor, Stopper
<1>3. backlog' \subseteq backlog \cup {Wake}
    BY DEF WakeAcceptor
<1>4. Wake \notin Conns
    BY ServerAssumption
<1>5. TypeOK'
    BY <1>2, <1>3 DEF ServerInv, TypeOK, WakeAcceptor
<1>6. Counted' = Counted
    BY DEF Counted, WakeAcceptor
<1>7. ThreadsCounted' /\ TableServed' /\ FramesLeft' /\ ReturnsAtZero'
    BY <1>6
    DEF ServerInv, ThreadsCounted, TableServed, FramesLeft, ReturnsAtZero, WakeAcceptor
<1>8. WakeMeansStop'
    BY <1>1 DEF ServerInv, WakeMeansStop, WakeAcceptor
<1>9. AcceptedOnce'
    BY <1>3, <1>4 DEF ServerInv, AcceptedOnce, WakeAcceptor
<1>10. StopperWaits'
    BY <1>1, <1>2 DEF ServerInv, StopperWaits, WakeAcceptor
<1> QED BY <1>5, <1>7, <1>8, <1>9, <1>10 DEF ServerInv

LEMMA SnapshotKeeps ==
    ASSUME ServerInv, Snapshot
    PROVE  ServerInv'
<1>1. stop /\ stopper \in Stopper /\ table \subseteq Conns
    BY DEF ServerInv, TypeOK, StopperWaits, Snapshot
<1>2. /\ stopper' \in Stopper
      /\ stopper'.at = "shutdown"
      /\ stopper'.by = stopper.by
    BY <1>1 DEF Snapshot, Stopper
<1>3. TypeOK'
    BY <1>2 DEF ServerInv, TypeOK, Snapshot
<1>4. Counted' = Counted
    BY DEF Counted, Snapshot
<1>5. ThreadsCounted' /\ TableServed' /\ FramesLeft' /\ ReturnsAtZero'
    BY <1>4
    DEF ServerInv, ThreadsCounted, TableServed, FramesLeft, ReturnsAtZero, Snapshot
<1>6. WakeMeansStop' /\ AcceptedOnce'
    BY DEF ServerInv, WakeMeansStop, AcceptedOnce, Snapshot
<1>7. StopperWaits'
    BY <1>1, <1>2 DEF ServerInv, StopperWaits, Snapshot
<1> QED BY <1>3, <1>5, <1>6, <1>7 DEF ServerInv

\* The caller that request_stop returns to was waiting for it.
LEMMA ShutdownKeeps ==
    ASSUME ServerInv, ShutdownHandles
    PROVE  ServerInv'
<1>1. /\ stop /\ stopper \in Stopper /\ stopper.handles \subseteq Conns
      /\ run \in [at : RunStep, conn : Conns \cup {Wake}]
      /\ session \in [Conns -> Session]
      /\ stopper.by \in Conns => session[stopper.by].at = "stopping"
    BY DEF ServerInv, TypeOK, Stopper, StopperWaits, ShutdownHandles
<1>2. /\ stopper' \in Stopper
      /\ stopper'.at = "done"
    BY <1>1 DEF ShutdownHandles, Stopper
<1>3. /\ run' \in [at : RunStep, conn : Conns \cup {Wake}]
      /\ run.at = "stopping" => run'.at = "wait"
      /\ run.at # "stopping" => run' = run
    BY <1>1 DEF ShutdownHandles, Resume, RunStep
<1>4. \A c \in Conns : [session[c] EXCEPT !.at = "forget"] \in Session
    BY <1>1 DEF Session, SessionStep
<1>5. /\ session' \in [Conns -> Session]
      /\ \A c \in Conns : c # stopper.by => session'[c] = session[c]
      /\ \A c \in Conns : c = stopper.by => session'[c] = [session[c] EXCEPT !.at = "forget"]
    BY <1>1, <1>4 DEF ShutdownHandles, Resume
<1>6. \A c \in Conns : c = stopper.by => session'[c].at = "forget" /\ session[c].at = "stopping"
    BY <1>1, <1>5 DEF Session
<1>7. TypeOK'
    BY <1>1, <1>2, <1>3, <1>5 DEF ServerInv, TypeOK, ShutdownHandles
<1>8. Counted' = Counted
    BY <1>5, <1>6 DEF Counted
<1>9. ThreadsCounted' /\ ReturnsAtZero'
    BY <1>3, <1>8 DEF ServerInv, ThreadsCounted, ReturnsAtZero, ShutdownHandles
<1>10. TableServed'
    BY <1>3, <1>5, <1>6, StepsDistinct DEF ServerInv, TypeOK, TableServed, ShutdownHandles
<1>11. WakeMeansStop'
    BY <1>1, <1>3 DEF ServerInv, WakeMeansStop, ShutdownHandles
<1>12. AcceptedOnce'
    BY <1>3, <1>5, <1>6 DEF ServerInv, AcceptedOnce, ShutdownHandles
<1>13. StopperWaits'
    BY <1>1, <1>2 DEF StopperWaits, ShutdownHandles
<1>14. FramesLeft'
    BY <1>5, <1>6 DEF ServerInv, FramesLeft
<1> QED BY <1>7, <1>9, <1>10, <1>11, <1>12, <1>13, <1>14 DEF ServerInv

LEMMA SessionStopsKeeps ==
    ASSUME ServerInv, NEW c \in Conns, SessionStops(c)
    PROVE  ServerInv'
<1> DEFINE step == IF stop THEN "forget" ELSE "stopping"
           s == [session[c] EXCEPT !.at = step]
<1>1. /\ stop' = TRUE
      /\ stopper' \in Stopper
      /\ stop => stopper' = stopper
      /\ ~stop => stopper'.by = c /\ stopper'.at = "wake"
    BY StopFields DEF SessionStops
<1>2. step \in {"forget", "stopping"} /\ (~stop => step = "stopping")
    OBVIOUS
<1>3. session' = [session EXCEPT ![c] = s] /\ session[c].at = "stop"
      /\ session \in [Conns -> Session]
    BY DEF SessionStops, ServerInv, TypeOK
<1> HIDE DEF step
<1>4. s \in Session /\ s.at = step
    BY <1>2, <1>3 DEF Session, SessionStep
<1> HIDE DEF s
<1>5. session'[c] = s /\ \A d \in Conns \ {c} : session'[d] = session[d]
    BY <1>3
<1>6. TypeOK'
    BY <1>1, <1>3, <1>4 DEF ServerInv, TypeOK, SessionStops
<1>7. Counted' = Counted
    BY <1>2, <1>3, <1>4, <1>5 DEF Counted
<1>8. ThreadsCounted' /\ ReturnsAtZero'
    BY <1>7 DEF ServerInv, ThreadsCounted, ReturnsAtZero, SessionStops
<1>9. TableServed'
    BY <1>2, <1>3, <1>4, <1>5, StepsDistinct
    DEF ServerInv, TypeOK, TableServed, SessionStops
<1>10. WakeMeansStop'
    BY <1>1 DEF ServerInv, WakeMeansStop, SessionStops
<1>11. AcceptedOnce'
    BY <1>3, <1>5 DEF ServerInv, AcceptedOnce, SessionStops
<1>12. StopperWaits'
    BY <1>1, <1>2, <1>3, <1>4, <1>5 DEF ServerInv, StopperWaits
<1>13. FramesLeft'
    BY <1>2, <1>4, <1>5 DEF ServerInv, FramesLeft
<1> QED BY <1>6, <1>8, <1>9, <1>10, <1>11, <1>12, <1>13 DEF ServerInv

-----------------------------------------------------------------------------
(* A session thread on its way out. *)

LEMMA ForgetKeeps ==
    ASSUME ServerInv, NEW c \in Conns, Forget(c)
    PROVE  ServerInv'
<1> DEFINE s == [NoSession EXCEPT !.at = "leave"]
<1>1. s \in Session /\ s.at = "leave"
    BY DEF NoSession, Session, SessionStep
<1>2. session' = [session EXCEPT ![c] = s] /\ session[c].at = "forget"
      /\ session \in [Conns -> Session]
    BY DEF Forget, ServerInv, TypeOK
<1> HIDE DEF s
<1>3. session'[c] = s /\ \A d \in Conns \ {c} : session'[d] = session[d]
    BY <1>2
<1>4. TypeOK'
    BY <1>1, <1>2 DEF ServerInv, TypeOK, Forget
<1>5. Counted' = Counted
    BY <1>1, <1>2, <1>3 DEF Counted
<1>6. ThreadsCounted' /\ ReturnsAtZero' /\ WakeMeansStop'
    BY <1>5 DEF ServerInv, ThreadsCounted, ReturnsAtZero, WakeMeansStop, Forget
<1>7. TableServed'
    BY <1>3 DEF ServerInv, TypeOK, TableServed, Forget
<1>8. AcceptedOnce'
    BY <1>2, <1>3 DEF ServerInv, AcceptedOnce, Forget
<1>9. StopperWaits' /\ FramesLeft'
    BY <1>1, <1>2, <1>3 DEF ServerInv, StopperWaits, FramesLeft, Forget
<1> QED BY <1>4, <1>6, <1>7, <1>8, <1>9 DEF ServerInv

LEMMA LeaveKeeps ==
    ASSUME ServerInv, NEW c \in Conns, Leave(c)
    PROVE  ServerInv'
<1> DEFINE s == [session[c] EXCEPT !.at = "notify"]
<1>1. session' = [session EXCEPT ![c] = s] /\ session[c].at = "leave"
      /\ session \in [Conns -> Session]
    BY DEF Leave, ServerInv, TypeOK
<1>2. s \in Session /\ s.at = "notify"
    BY <1>1 DEF Session, SessionStep
<1> HIDE DEF s
<1>3. session'[c] = s /\ \A d \in Conns \ {c} : session'[d] = session[d]
    BY <1>1
<1>4. Counted' = Counted \ {c} /\ c \in Counted
    BY <1>1, <1>2, <1>3 DEF Counted
<1>5. Cardinality(Counted') = Cardinality(Counted) - 1
    BY <1>4, CountedFinite, FS_RemoveElement
<1>6. Cardinality(Counted') \in Nat /\ Cardinality(Counted) \in Nat
    BY <1>4, CountedFinite, FS_Subset, FS_CardinalityType
<1>7. threads' = Cardinality(Counted') + IF run.at = "start" THEN 1 ELSE 0
    BY <1>5, <1>6 DEF ServerInv, ThreadsCounted, Leave
<1>8. TypeOK'
    BY <1>1, <1>2, <1>6, <1>7 DEF ServerInv, TypeOK, Leave
<1>9. ThreadsCounted'
    BY <1>7 DEF ThreadsCounted, Leave
<1>10. run.at # "returned"
    BY <1>5, <1>6 DEF ServerInv, ReturnsAtZero, ThreadsCounted
<1>11. TableServed'
    BY <1>1, <1>3, StepsDistinct DEF ServerInv, TypeOK, TableServed, Leave
<1>12. WakeMeansStop' /\ ReturnsAtZero'
    BY <1>10 DEF ServerInv, WakeMeansStop, ReturnsAtZero, Leave
<1>13. AcceptedOnce'
    BY <1>1, <1>3 DEF ServerInv, AcceptedOnce, Leave
<1>14. StopperWaits' /\ FramesLeft'
    BY <1>1, <1>2, <1>3 DEF ServerInv, StopperWaits, FramesLeft, Leave
<1> QED BY <1>8, <1>9, <1>11, <1>12, <1>13, <1>14 DEF ServerInv

LEMMA NotifyKeeps ==
    ASSUME ServerInv, NEW c \in Conns, Notify(c)
    PROVE  ServerInv'
<1> DEFINE s == [session[c] EXCEPT !.at = "done"]
<1>1. session' = [session EXCEPT ![c] = s] /\ session[c].at = "notify"
      /\ session \in [Conns -> Session] /\ run \in [at : RunStep, conn : Conns \cup {Wake}]
    BY DEF Notify, ServerInv, TypeOK
<1>2. s \in Session /\ s.at = "done"
    BY <1>1 DEF Session, SessionStep
<1> HIDE DEF s
<1>3. session'[c] = s /\ \A d \in Conns \ {c} : session'[d] = session[d]
    BY <1>1
<1>4. /\ run' \in [at : RunStep, conn : Conns \cup {Wake}]
      /\ run.at = "asleep" => run'.at = "wait"
      /\ run.at # "asleep" => run' = run
    BY <1>1 DEF Notify, RunStep
<1>5. TypeOK'
    BY <1>1, <1>2, <1>4 DEF ServerInv, TypeOK, Notify
<1>6. Counted' = Counted
    BY <1>1, <1>2, <1>3 DEF Counted
<1>7. ThreadsCounted' /\ ReturnsAtZero' /\ WakeMeansStop'
    BY <1>4, <1>6 DEF ServerInv, ThreadsCounted, ReturnsAtZero, WakeMeansStop, Notify
<1>8. TableServed'
    BY <1>1, <1>3, <1>4, StepsDistinct DEF ServerInv, TypeOK, TableServed, Notify
<1>9. AcceptedOnce'
    BY <1>1, <1>3, <1>4 DEF ServerInv, AcceptedOnce, Notify
<1>10. StopperWaits' /\ FramesLeft'
    BY <1>1, <1>2, <1>3 DEF ServerInv, StopperWaits, FramesLeft, Notify
<1> QED BY <1>5, <1>7, <1>8, <1>9, <1>10 DEF ServerInv

-----------------------------------------------------------------------------
(* The theorems. *)

LEMMA InvStep == ServerInv /\ [Next]_vars => ServerInv'
<1> SUFFICES ASSUME ServerInv, [Next]_vars
             PROVE  ServerInv'
    OBVIOUS
<1>1. CASE AcceptThread
    BY <1>1, MovesKeep, AcceptKeeps, AdmitKeeps, SpawnKeeps, StartKeeps, CloseKeeps,
       DestroyKeeps DEF AcceptThread
<1>2. CASE StopThread \/ OwnerStops
    BY <1>2, WakeKeeps, SnapshotKeeps, ShutdownKeeps, OwnerStopsKeeps DEF StopThread
<1>3. ASSUME NEW c \in Conns,
             Connect(c) \/ Disconnect(c) \/ Receive(c) \/ Send(c) \/ SessionThread(c)
      PROVE  ServerInv'
    BY <1>3, PeersKeep, WorkKeeps, SessionStopsKeeps, ForgetKeeps, LeaveKeeps, NotifyKeeps
    DEF SessionThread
<1>4. CASE UNCHANGED vars
    BY <1>4
    DEF vars, ServerInv, TypeOK, ThreadsCounted, Counted, TableServed, WakeMeansStop,
        AcceptedOnce, StopperWaits, FramesLeft, ReturnsAtZero
<1> QED BY <1>1, <1>2, <1>3, <1>4 DEF Next

LEMMA InvDrained == ServerInv => Drained
<1> SUFFICES ASSUME ServerInv, run.at = "returned"
             PROVE  Drained
    BY DEF Drained
<1>1. Cardinality(Counted) = 0
    BY CountedFinite DEF ServerInv, ThreadsCounted, ReturnsAtZero
<1>2. Counted = {}
    BY <1>1, CountedFinite, FS_EmptySet
<1>3. \A c \in Conns : session[c].at \in {"none", "notify", "done"}
    BY <1>2 DEF Counted
<1>4. table = {}
    BY <1>3, StepsDistinct DEF ServerInv, TypeOK, TableServed
<1> QED BY <1>3, <1>4 DEF Drained

\* active_threads_ is the number of started threads that have not counted
\* themselves out, so it never wraps below zero, and the table holds no session
\* without a thread that will take it out.
THEOREM ServerCounts == Spec => [](TypeOK /\ ThreadsCounted /\ TableServed)
<1>1. ServerInv => TypeOK /\ ThreadsCounted /\ TableServed
    BY DEF ServerInv
<1> QED BY <1>1, InvInit, InvStep, PTL DEF Spec

\* When Server::run has returned, or ~Server after a run that failed, the table
\* is empty and no session thread touches the server again but to notify.
THEOREM RunDrains == Spec => []Drained
<1> QED BY InvInit, InvStep, InvDrained, PTL DEF Spec
==============================================================================
