-------------------------------- MODULE Session --------------------------------
(***************************************************************************)
(* Client and server over a connection: src/src/client.cpp, the session    *)
(* loop and the checks of dispatch in src/src/server.cpp, framing by       *)
(* FrameDecoder.                                                           *)
(*                                                                         *)
(* One client of the library makes calls, loses its connection, goes on    *)
(* with one whose last call failed, or connects again; its old connections *)
(* stay with the server until the server has read them to their end.       *)
(* Peers that do not use the library send whole frames with any header,    *)
(* and bytes that are no frame.  TCP delivers in order, in pieces of any   *)
(* size, until an end is closed or the server's process dies.              *)
(*                                                                         *)
(* What a request does is Fabric's business: here it is handed over, and   *)
(* answered with ok or an error.  Epoch and boot identity change together  *)
(* (a process has one of each), so one number stands for both.  Accepting, *)
(* the session limit and the release of blocked threads are in Server.     *)
(***************************************************************************)
EXTENDS FrameDecoder

CONSTANTS
    MaxConns,     \* bound on the connections of the library's client
    RawConns,     \* connections of peers that do not use the library
    Budgets,      \* bounds: what a behaviour may use of each of these:
                  \*   conns, calls   connections and calls of the library's client
                  \*   frames         frames that other peers send
                  \*   faults         failures of send and recv on live connections
                  \*   crashes        deaths of the server's process
    MaxEpoch,     \* bound on the server's incarnations
    MaxRequests,  \* options_.max_requests_per_session
    Chunk,        \* kRecvChunk, in units
    Sizes         \* the sizes of requests and answers

ASSUME SessionAssumption ==
    /\ MaxConns \in Nat
    /\ RawConns \cap (0 .. MaxConns) = {}
    /\ Budgets \subseteq [conns : 0 .. MaxConns, calls : Nat, frames : Nat,
                          faults : Nat, crashes : Nat]
    /\ MaxEpoch \in Nat \ {0} /\ MaxRequests \in Nat /\ Chunk \in Nat \ {0}
    /\ Sizes \subseteq 1 .. MaxFrame - 1 /\ 1 \in Sizes

VARIABLES
    budget,   \* what is left of the bounds
    client,   \* the client object, and how far its current call has come
    link,     \* each connection: bytes in flight, and which ends are open
    server,   \* the server's process
    session,  \* each connection's session thread
    told,     \* history: what each call returned, and the request it answers
    applied   \* history: the requests handed to the fabric, in order

vars == <<budget, client, link, server, session, told, applied>>

-----------------------------------------------------------------------------
(* Data. *)

Conns == (1 .. MaxConns) \cup RawConns

RequestTypes == {"hello", "request", "shutdown"}
AnswerTypes == {"hello_ack", "ok", "bye", "error"}

\* seq is the frame's own sequence; session, epoch and req are the header of a
\* request, call its body.  In an answer call is the request that it answers.
Frame ==
    [type : RequestTypes \cup AnswerTypes, seq : Nat, size : Nat, session : Nat,
     epoch : Nat, req : Nat, call : Nat]

Blank ==
    [type |-> "hello", seq |-> 1, size |-> 1, session |-> 0, epoch |-> 0, req |-> 0,
     call |-> 0]

Unit == [frame : Frame, part : Nat]
Decoder == [buffer : Seq(Unit), ok : BOOLEAN]

\* near and far: the peer's and the server's end are open.  clean: no call on
\* it has failed.  torn: the first call whose frame was cut off while the
\* connection lived, 0 for none.
Link ==
    [up : Seq(Unit), down : Seq(Unit), near : BOOLEAN, far : BOOLEAN,
     clean : BOOLEAN, torn : Nat]

NoLink ==
    [up |-> <<>>, down |-> <<>>, near |-> FALSE, far |-> FALSE, clean |-> TRUE,
     torn |-> 0]

\* call is 0 while connect waits for the answer to its hello.
Client ==
    [at : {"closed", "idle", "waiting"}, conn : Nat, seq : Nat, req : Nat,
     session : Nat, epoch : Nat, call : Nat, expect : AnswerTypes, decoder : Decoder]

NoClient ==
    [at |-> "closed", conn |-> 0, seq |-> 0, req |-> 0, session |-> 0, epoch |-> 0,
     call |-> 0, expect |-> "hello_ack", decoder |-> Fresh]

Thread ==
    [at : {"none", "recv", "pop", "send", "done"}, phase : {"hello", "requests"},
     id : Nat, epoch : Nat, last : Nat, decoder : Decoder, reply : Frame,
     then : {"recv", "pop", "done", "stop"}]

NoThread ==
    [at |-> "none", phase |-> "hello", id |-> 0, epoch |-> 0, last |-> 0,
     decoder |-> Fresh, reply |-> Blank, then |-> "done"]

Init ==
    /\ budget \in Budgets
    /\ client = NoClient
    /\ link = [c \in Conns |-> NoLink]
    /\ server = [up |-> TRUE, stop |-> FALSE, epoch |-> 1, issued |-> 0]
    /\ session = [c \in Conns |-> NoThread]
    /\ told = <<>>
    /\ applied = <<>>

Least(m, n) == IF m <= n THEN m ELSE n

-----------------------------------------------------------------------------
(* The client. *)

\* send_all put the first n units on the wire; fewer than all is an error.
Sent(c, units, n) ==
    [link[c] EXCEPT !.up = IF link[c].far THEN @ \o SubSeq(units, 1, n) ELSE @]

\* How far send_all may come.
MaySend(c, units) ==
    IF budget.faults > 0 \/ ~link[c].far THEN 0 .. Len(units) ELSE {Len(units)}

\* A failure that the other end did not cause uses up the bound.
Fault(cause) ==
    budget' = IF cause THEN budget ELSE [budget EXCEPT !.faults = @ - 1]

\* A new client object connects and says hello; it is destroyed if it cannot.
Connect ==
    /\ client.at = "closed"
    /\ client.conn < budget.conns
    /\ server.up
    /\ LET c == client.conn + 1
           hello == encode_frame(Blank)
       IN  \E n \in IF budget.faults > 0 THEN 0 .. Len(hello) ELSE {Len(hello)} :
             /\ Fault(n = Len(hello))
             /\ link' = [link EXCEPT ![c] =
                  [NoLink EXCEPT !.up = SubSeq(hello, 1, n), !.far = TRUE,
                                 !.near = n = Len(hello)]]
             /\ client' = IF n = Len(hello)
                          THEN [NoClient EXCEPT !.at = "waiting", !.conn = c, !.seq = 1]
                          ELSE [NoClient EXCEPT !.conn = c]
    /\ UNCHANGED <<server, session, told, applied>>

\* The request sequence advances before anything is sent, the frame sequence
\* only when all of the frame was.
Call(type, size) ==
    /\ client.at = "idle"
    /\ Len(told) < budget.calls
    /\ LET k == Len(told) + 1
           c == client.conn
           units == encode_frame(
               [type |-> type, seq |-> client.seq + 1, size |-> size,
                session |-> client.session, epoch |-> client.epoch,
                req |-> client.req + 1, call |-> k])
           expect == IF type = "shutdown" THEN "bye" ELSE "ok"
       IN  \E n \in MaySend(c, units) :
             IF n = Len(units)
             THEN /\ link' = [link EXCEPT ![c] = Sent(c, units, n)]
                  /\ client' = [client EXCEPT !.at = "waiting", !.req = @ + 1, !.seq = @ + 1,
                                              !.call = k, !.expect = expect]
                  /\ told' = Append(told, [outcome |-> "open", by |-> 0])
                  /\ UNCHANGED budget
             ELSE /\ Fault(~link[c].far)
                  /\ link' = [link EXCEPT ![c] =
                       [Sent(c, units, n) EXCEPT
                          !.clean = FALSE,
                          !.torn = IF @ = 0 /\ n > 0 THEN k ELSE @]]
                  /\ client' = [client EXCEPT !.req = @ + 1]
                  /\ told' = Append(told, [outcome |-> "failed", by |-> 0])
    /\ UNCHANGED <<server, session, applied>>

\* A body too large to encode: the call returns before a request is counted.
CallTooLarge ==
    /\ client.at = "idle"
    /\ Len(told) < budget.calls
    /\ told' = Append(told, [outcome |-> "failed", by |-> 0])
    /\ UNCHANGED <<budget, client, link, server, session, applied>>

Return(outcome, by) ==
    told' = [told EXCEPT ![client.call] = [outcome |-> outcome, by |-> by]]

\* close_handle, in shutdown and in the destructor.
Close ==
    link' = [link EXCEPT ![client.conn] = [@ EXCEPT !.near = FALSE, !.down = <<>>]]

\* The object is gone; what it knew dies with it.
Gone == [NoClient EXCEPT !.conn = client.conn]

\* round_trip returns an error.  The object survives that, unless it is still
\* being connected.
RoundTripFails(d) ==
    IF client.call = 0
    THEN client' = Gone /\ Close /\ UNCHANGED told
    ELSE /\ client' = [client EXCEPT !.at = "idle", !.decoder = d]
         /\ link' = [link EXCEPT ![client.conn].clean = FALSE]
         /\ Return("failed", 0)

\* The frame with the sequence that was sent: transact, connect and shutdown.
Answer(f, d) ==
    \/ /\ client.call = 0
       /\ told' = told
       /\ IF f.type = "hello_ack"
          THEN /\ client' = [client EXCEPT !.at = "idle", !.decoder = d,
                                           !.session = f.session, !.epoch = f.epoch]
               /\ UNCHANGED link
          ELSE client' = Gone /\ Close
    \/ /\ client.call > 0
       /\ f.type = client.expect
       /\ Return("ok", f.call)
       /\ IF f.type = "bye" THEN client' = Gone /\ Close
          ELSE client' = [client EXCEPT !.at = "idle", !.decoder = d] /\ UNCHANGED link
    \/ /\ client.call > 0
       /\ f.type # client.expect
       /\ Return(IF f.type = "error" THEN "refused" ELSE "failed", f.call)
       /\ client' = [client EXCEPT !.at = "idle", !.decoder = d]
       /\ UNCHANGED link

\* Mutant of ClientPop: whatever arrives is taken for the answer.
ClientPopAny ==
    /\ client.at = "waiting"
    /\ ~Incomplete(client.decoder)
    /\ IF has_frame(client.decoder)
       THEN Answer(FirstFrame(client.decoder), popped(client.decoder))
       ELSE RoundTripFails(pop_failed(client.decoder))
    /\ UNCHANGED <<budget, server, session, applied>>

ClientPop ==
    /\ client.at = "waiting"
    /\ ~Incomplete(client.decoder)
    /\ IF has_frame(client.decoder)
       THEN LET f == FirstFrame(client.decoder)
                d == popped(client.decoder)
            IN  IF f.seq = client.seq THEN Answer(f, d) ELSE RoundTripFails(d)
       ELSE RoundTripFails(pop_failed(client.decoder))
    /\ UNCHANGED <<budget, server, session, applied>>

ClientRecv ==
    /\ client.at = "waiting"
    /\ Incomplete(client.decoder)
    /\ LET c == client.conn
           down == link[c].down
       IN  \E n \in 1 .. Least(Chunk, Len(down)) :
             /\ client' = [client EXCEPT !.decoder = feed(@, SubSeq(down, 1, n))]
             /\ link' = [link EXCEPT ![c].down = SubSeq(@, n + 1, Len(@))]
    /\ UNCHANGED <<budget, server, session, told, applied>>

\* The server's end is closed: the stream ends, or is reset with what it held.
ClientEof ==
    /\ client.at = "waiting"
    /\ Incomplete(client.decoder)
    /\ ~link[client.conn].far
    /\ RoundTripFails(client.decoder)
    /\ UNCHANGED <<budget, server, session, applied>>

\* Mutant of ClientRecvFails: the request is sent again under a new sequence.
ClientRecvRetries ==
    /\ budget.faults > 0
    /\ Fault(FALSE)
    /\ client.at = "waiting" /\ client.call # 0
    /\ Incomplete(client.decoder)
    /\ LET units == encode_frame(
               [type |-> "request", seq |-> client.seq + 1, size |-> 1,
                session |-> client.session, epoch |-> client.epoch,
                req |-> client.req + 1, call |-> client.call])
       IN  link' = [link EXCEPT ![client.conn] = Sent(client.conn, units, Len(units))]
    /\ client' = [client EXCEPT !.req = @ + 1, !.seq = @ + 1]
    /\ UNCHANGED <<server, session, told, applied>>

\* recv fails and the connection lives on, as when a signal interrupts it.
ClientRecvFails ==
    /\ budget.faults > 0
    /\ Fault(FALSE)
    /\ client.at = "waiting"
    /\ Incomplete(client.decoder)
    /\ RoundTripFails(client.decoder)
    /\ UNCHANGED <<server, session, applied>>

Drop ==
    /\ client.at = "idle"
    /\ client' = Gone
    /\ Close
    /\ UNCHANGED <<budget, server, session, told, applied>>

-----------------------------------------------------------------------------
(* Peers that do not use the library. *)

\* Frames such a peer may send, all of one length.
RawFrames ==
    {Blank, [Blank EXCEPT !.type = "ok"]}
      \cup [type : {"request"}, seq : {1}, size : {1}, session : 1 .. 2,
            epoch : 1 .. MaxEpoch, req : {0, 1, MaxRequests + 1}, call : {0}]

\* Bytes that are not the header of a frame.
Noise == <<[frame |-> Blank, part |-> 1]>>

RawConnect(c) ==
    /\ link[c] = NoLink
    /\ budget.frames > 0
    /\ server.up
    /\ link' = [link EXCEPT ![c] = [NoLink EXCEPT !.near = TRUE, !.far = TRUE]]
    /\ UNCHANGED <<budget, client, server, session, told, applied>>

RawSend(c) ==
    /\ link[c].near /\ link[c].far
    /\ budget.frames > 0
    /\ budget' = [budget EXCEPT !.frames = @ - 1]
    /\ \E units \in {encode_frame(f) : f \in RawFrames} \cup {Noise} :
         link' = [link EXCEPT ![c].up = @ \o units]
    /\ UNCHANGED <<client, server, session, told, applied>>

RawClose(c) ==
    /\ link[c].near
    /\ link' = [link EXCEPT ![c].near = FALSE]
    /\ UNCHANGED <<budget, client, server, session, told, applied>>

-----------------------------------------------------------------------------
(* The session threads. *)

Accept(c) ==
    /\ server.up /\ ~server.stop
    /\ link[c].far
    /\ session[c].at = "none"
    /\ session' = [session EXCEPT ![c].at = "recv"]
    /\ UNCHANGED <<budget, client, link, server, told, applied>>

\* Mutant of Closed: the socket is not released with the session.
StillOpen(lk) == lk

\* serve_session owns the socket, which is closed with it.
Closed(lk) == [lk EXCEPT !.far = FALSE, !.up = <<>>]

\* The end of serve_session, with the link as it is by then.
Leave(c, lk) ==
    /\ session' = [session EXCEPT ![c] = [NoThread EXCEPT !.at = "done"]]
    /\ link' = [link EXCEPT ![c] = Closed(lk)]

\* The head of both loops, s being the session by then.
Loop(c, s) ==
    IF server.stop THEN Leave(c, link[c])
    ELSE /\ session' = [session EXCEPT ![c] = [s EXCEPT !.at = "recv"]]
         /\ UNCHANGED link

SessionRecv(c) ==
    /\ session[c].at = "recv"
    /\ \E n \in 1 .. Least(Chunk, Len(link[c].up)) :
         /\ session' = [session EXCEPT ![c] =
              [@ EXCEPT !.at = "pop",
                        !.decoder = feed(session[c].decoder, SubSeq(link[c].up, 1, n))]]
         /\ link' = [link EXCEPT ![c].up = SubSeq(@, n + 1, Len(@))]
    /\ UNCHANGED <<budget, client, server, told, applied>>

\* The peer's end is closed (a reset may come before what it sent was read), or
\* a stopping thread has shut the socket down.
SessionEof(c) ==
    /\ session[c].at = "recv"
    /\ ~link[c].near \/ server.stop
    /\ Leave(c, link[c])
    /\ UNCHANGED <<budget, client, server, told, applied>>

SessionRecvFails(c) ==
    /\ budget.faults > 0
    /\ Fault(FALSE)
    /\ session[c].at = "recv"
    /\ Leave(c, link[c])
    /\ UNCHANGED <<client, server, told, applied>>

\* The answer to frame f is sent next; s is the session by then.
Reply(c, s, f, type, then) ==
    \E size \in IF type = "ok" THEN Sizes ELSE {1} :
      session' = [session EXCEPT ![c] =
        [s EXCEPT !.at = "send", !.then = then,
                  !.reply = [type |-> type, seq |-> f.seq, size |-> size,
                             session |-> s.id, epoch |-> s.epoch, req |-> 0,
                             call |-> f.call]]]

\* The handshake takes one frame.  A hello may be of another version, a foreign
\* one also undecodable.
Greet(c, f, s) ==
    \/ /\ Reply(c, s, f, "error", "done")
       /\ UNCHANGED <<server, link>>
    \/ /\ f.type = "hello" /\ c \in RawConns
       /\ Leave(c, link[c])
       /\ UNCHANGED server
    \/ /\ f.type = "hello"
       /\ server' = [server EXCEPT !.issued = @ + 1]
       /\ Reply(c, [s EXCEPT !.id = server'.issued, !.epoch = server.epoch,
                             !.phase = "requests"],
                f, "hello_ack", "recv")
       /\ UNCHANGED link

\* Mutant of Admissible: the last sequence is accepted again.
AdmissibleAgain(s, f) ==
    /\ f.session = s.id /\ f.epoch = s.epoch
    /\ f.req # 0 /\ f.req >= s.last /\ f.req <= MaxRequests

\* The checks of dispatch before it looks at the body.
Admissible(s, f) ==
    /\ f.session = s.id /\ f.epoch = s.epoch
    /\ f.req # 0 /\ f.req > s.last /\ f.req <= MaxRequests

\* A request that fails a check closes its session.  Past the checks its
\* sequence is used up; a body that cannot be decoded, like a second hello,
\* is answered with an error (the library sends neither), and so is a shutdown
\* where the options do not allow one.
Dispatch(c, f, s) ==
    /\ \/ /\ f.type \notin RequestTypes \/ ~Admissible(s, f)
          /\ Reply(c, s, f, "error", "done")
          /\ UNCHANGED applied
       \/ /\ f.type \in RequestTypes /\ Admissible(s, f)
          /\ LET used == [s EXCEPT !.last = f.req]
                 entry == [call |-> f.call, conn |-> c, epoch |-> f.epoch,
                           session |-> f.session, req |-> f.req]
             IN  \/ /\ c \in RawConns \/ f.type = "shutdown"
                    /\ Reply(c, used, f, "error", "pop")
                    /\ UNCHANGED applied
                 \/ /\ f.type # "hello"
                    /\ applied' = Append(applied, entry)
                    /\ \/ f.type = "request" /\ Reply(c, used, f, "ok", "pop")
                       \/ f.type = "request" /\ Reply(c, used, f, "error", "pop")
                       \/ f.type = "shutdown" /\ Reply(c, used, f, "bye", "stop")
    /\ UNCHANGED <<server, link>>

\* One turn of the inner loop.  A failed decoder ends a handshake; a session
\* past it stays, reads on and understands nothing.
SessionPop(c) ==
    /\ session[c].at = "pop"
    /\ LET d == session[c].decoder
           s == [session[c] EXCEPT !.decoder = popped(d)]
       IN  \/ /\ Incomplete(d)
              /\ Loop(c, session[c])
              /\ UNCHANGED <<server, applied>>
           \/ /\ has_frame(d)
              /\ \/ s.phase = "hello" /\ Greet(c, FirstFrame(d), s) /\ UNCHANGED applied
                 \/ s.phase = "requests" /\ Dispatch(c, FirstFrame(d), s)
           \/ /\ ~Incomplete(d) /\ ~has_frame(d)
              /\ IF session[c].phase = "hello" THEN Leave(c, link[c])
                 ELSE Loop(c, [session[c] EXCEPT !.decoder = pop_failed(d)])
              /\ UNCHANGED <<server, applied>>
    /\ UNCHANGED <<budget, client, told>>

\* What follows a send: the next frame, the next recv, or the end.
After(c, then, lk) ==
    /\ server' = [server EXCEPT !.stop = @ \/ then = "stop"]
    /\ IF then \in {"done", "stop"} \/ (then = "recv" /\ server.stop)
       THEN Leave(c, lk)
       ELSE /\ session' = [session EXCEPT ![c] = [@ EXCEPT !.at = then, !.reply = Blank]]
            /\ link' = [link EXCEPT ![c] = lk]

\* Nobody models what a foreign peer reads, and a closed one reads nothing.
Received(c, units) ==
    IF link[c].near /\ c \notin RawConns
    THEN [link[c] EXCEPT !.down = @ \o units] ELSE link[c]

SessionSend(c) ==
    /\ session[c].at = "send"
    /\ After(c, session[c].then, Received(c, encode_frame(session[c].reply)))
    /\ UNCHANGED <<budget, client, told, applied>>

\* send_all fails, after a part of the answer: the session ends.
SessionSendFails(c) ==
    /\ session[c].at = "send"
    /\ budget.faults > 0 \/ ~link[c].near
    /\ Fault(~link[c].near)
    /\ LET units == encode_frame(session[c].reply)
       IN  \E n \in 0 .. Len(units) - 1 :
             After(c, IF session[c].then = "stop" THEN "stop" ELSE "done",
                   Received(c, SubSeq(units, 1, n)))
    /\ UNCHANGED <<client, told, applied>>

-----------------------------------------------------------------------------
(* The server's process. *)

Down ==
    /\ server' = [server EXCEPT !.up = FALSE]
    /\ session' = [c \in Conns |-> IF session[c].at = "none" THEN NoThread
                                   ELSE [NoThread EXCEPT !.at = "done"]]
    /\ link' = [c \in Conns |-> [link[c] EXCEPT !.far = FALSE, !.up = <<>>]]
    /\ UNCHANGED <<client, told, applied>>

\* Killed at any moment; also by SIGPIPE, which nothing ignores or suppresses
\* where send meets a connection that the peer has closed.
Crash ==
    /\ server.up
    /\ budget.crashes > 0
    /\ budget' = [budget EXCEPT !.crashes = @ - 1]
    /\ Down

\* After a stop, when run has returned.
Exit ==
    /\ server.up /\ server.stop
    /\ \A c \in Conns : session[c].at \in {"none", "done"}
    /\ Down
    /\ UNCHANGED budget

\* Mutant of Restart: the incarnation is not advanced.
RestartSameEpoch ==
    /\ ~server.up
    /\ server.epoch < MaxEpoch
    /\ server' = [up |-> TRUE, stop |-> FALSE, epoch |-> server.epoch, issued |-> 0]
    /\ UNCHANGED <<budget, client, link, session, told, applied>>

\* Fabric::open advances the epoch; session identities start again.
Restart ==
    /\ ~server.up
    /\ server.epoch < MaxEpoch
    /\ server' = [up |-> TRUE, stop |-> FALSE, epoch |-> server.epoch + 1, issued |-> 0]
    /\ UNCHANGED <<budget, client, link, session, told, applied>>

-----------------------------------------------------------------------------
ClientThread == ClientPop \/ ClientRecv \/ ClientEof

SessionThread(c) ==
    SessionRecv(c) \/ SessionEof(c) \/ SessionPop(c) \/ SessionSend(c)

Next ==
    \/ Connect \/ ClientThread \/ ClientRecvFails \/ Drop \/ CallTooLarge
    \/ \E size \in Sizes : Call("request", size)
    \/ Call("shutdown", 1)
    \/ \E c \in RawConns : RawConnect(c) \/ RawSend(c) \/ RawClose(c)
    \/ \E c \in Conns :
         Accept(c) \/ SessionThread(c) \/ SessionRecvFails(c) \/ SessionSendFails(c)
    \/ Crash \/ Exit \/ Restart

\* Threads that can run do, and what was sent on a live connection arrives.
\* Nobody is obliged to call, to connect, to fail or to restart the server.
Fairness ==
    /\ WF_vars(ClientThread)
    /\ WF_vars(Exit)
    /\ \A c \in Conns : WF_vars(Accept(c) \/ SessionThread(c))

Spec == Init /\ [][Next]_vars /\ Fairness

-----------------------------------------------------------------------------
(* Properties. *)

\* Every variable stays in its domain, and "feed() never buffers more than one
\* maximum frame" (src/include/pff/protocol.hpp).
TypeOK ==
    /\ client \in Client
    /\ Len(client.decoder.buffer) <= MaxFrame
    /\ \A c \in Conns : Len(session[c].decoder.buffer) <= MaxFrame
    /\ link \in [Conns -> Link]
    /\ server \in [up : BOOLEAN, stop : BOOLEAN, epoch : 1 .. MaxEpoch, issued : Nat]
    /\ session \in [Conns -> Thread]
    /\ told \in Seq([outcome : {"open", "ok", "refused", "failed"}, by : Nat])
    /\ applied \in Seq([call : Nat, conn : Conns, epoch : 1 .. MaxEpoch,
                        session : Nat, req : Nat])

\* A call that returns an answer returns the answer to its own request, also on
\* a connection where an earlier answer is still to come because recv failed.
AnswerMatches ==
    \A k \in DOMAIN told :
        told[k].outcome \in {"ok", "refused"} => told[k].by = k

\* Incarnation, session and request sequence name one request forever: nothing
\* is handed to the fabric twice under one name, through replays, sessions that
\* borrow each other's identity, and restarts that number sessions afresh.
\* Within a connection requests are handed over in the order they were made.
RequestNamedOnce ==
    \A i, j \in DOMAIN applied :
        LET a == applied[i]
            b == applied[j]
        IN  i < j =>
              /\ <<a.epoch, a.session, a.req>> # <<b.epoch, b.session, b.req>>
              /\ a.conn = b.conn => /\ a.session = b.session /\ a.req < b.req
                                    /\ a.conn \notin RawConns => a.call < b.call
              /\ <<a.epoch, a.session>> = <<b.epoch, b.session>> => a.conn = b.conn

\* "a session that desynchronises can never resynchronise on garbage"
\* (src/include/pff/protocol.hpp): a call made on a connection after a frame
\* was cut off on it never reaches the fabric.
NoResynchronisation ==
    \A i \in DOMAIN applied :
        LET torn == link[applied[i].conn].torn
        IN  torn # 0 => applied[i].call < torn

\* Neither decoder ever gives up on a caller that waits for each answer, however
\* the stream is cut into pieces and however large the frames: the buffer of one
\* maximal frame is enough.  (It is not for a caller that goes on after a failed
\* recv: the rest of a large frame and the start of the next may not fit.)
StopAndWaitIsUnderstood ==
    \A c \in Conns \ RawConns :
        link[c].clean => /\ session[c].decoder.ok
                         /\ client.conn = c => client.decoder.ok

\* A call on a connection without failed calls returns: crash, stop, refusal,
\* closed session and exhausted budget all reach a caller that has no timeout.
CallReturns ==
    (client.at = "waiting" /\ link[client.conn].clean) ~> client.at # "waiting"

\* The calls are at-most-once operations, whatever is lost: what is handed to
\* the fabric is listed with repetitions, so that a call handed over again, while
\* its caller waits or after it was answered, is a step that Rpc does not have.
R == INSTANCE Rpc WITH
       calls <- [k \in DOMAIN told |-> told[k].outcome],
       done <- [i \in DOMAIN applied |-> applied[i].call]

RpcSpec == R!Spec
==============================================================================
