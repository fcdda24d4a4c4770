---------------------------- MODULE SessionProofs ----------------------------
(***************************************************************************)
(* Theorems about Session, for any number of connections, frame sizes,     *)
(* request budgets and bounds on what a behaviour may use.                 *)
(***************************************************************************)
EXTENDS Session, SequenceTheorems, TLAPS

\* The members of a sequence.
In(q) == {q[i] : i \in 1 .. Len(q)}

LEMMA InEmpty == In(<<>>) = {}
BY DEF In

LEMMA InConcat ==
    ASSUME NEW S, NEW a \in Seq(S), NEW b \in Seq(S)
    PROVE  a \o b \in Seq(S) /\ In(a \o b) = In(a) \cup In(b)
<1> DEFINE q == a \o b
<1>1. /\ q \in Seq(S) /\ Len(q) = Len(a) + Len(b) /\ Len(a) \in Nat /\ Len(b) \in Nat
      /\ \A i \in 1 .. Len(a) + Len(b) : q[i] = IF i <= Len(a) THEN a[i] ELSE b[i - Len(a)]
    BY ConcatProperties
<1> HIDE DEF q
<1>2. ASSUME NEW i \in 1 .. Len(q)
      PROVE  q[i] \in In(a) \cup In(b)
    <2>1. CASE i <= Len(a)
        BY <1>1, <2>1 DEF In
    <2>2. CASE ~(i <= Len(a))
        <3>1. i - Len(a) \in 1 .. Len(b)
            BY <1>1, <2>2
        <3> QED BY <1>1, <2>2, <3>1 DEF In
    <2> QED BY <2>1, <2>2
<1>3. ASSUME NEW i \in 1 .. Len(a)
      PROVE  a[i] \in In(q)
    <2>1. i \in 1 .. Len(q) /\ q[i] = a[i]
        BY <1>1
    <2> QED BY <2>1 DEF In
<1>4. ASSUME NEW i \in 1 .. Len(b)
      PROVE  b[i] \in In(q)
    <2>1. i + Len(a) \in 1 .. Len(q) /\ i + Len(a) - Len(a) = i /\ ~(i + Len(a) <= Len(a))
        BY <1>1
    <2>2. q[i + Len(a)] = b[i]
        BY <1>1, <2>1
    <2> QED BY <2>1, <2>2 DEF In
<1>5. In(q) \subseteq In(a) \cup In(b)
    BY <1>2 DEF In
<1>6. In(a) \subseteq In(q)
    BY <1>3 DEF In
<1>7. In(b) \subseteq In(q)
    BY <1>4 DEF In
<1>8. q \in Seq(S) /\ In(q) = In(a) \cup In(b)
    BY <1>1, <1>5, <1>6, <1>7
<1> QED BY <1>8 DEF q

LEMMA InSubSeq ==
    ASSUME NEW S, NEW q \in Seq(S), NEW m \in Nat \ {0}, NEW n \in 0 .. Len(q)
    PROVE  SubSeq(q, m, n) \in Seq(S) /\ In(SubSeq(q, m, n)) \subseteq In(q)
           /\ Len(SubSeq(q, m, n)) <= Len(q)
<1> DEFINE s == SubSeq(q, m, n)
<1>0. \A i \in m .. n : i \in 1 .. Len(q) /\ q[i] \in S
    OBVIOUS
<1>1. /\ s \in Seq(S) /\ Len(s) = IF m <= n THEN n - m + 1 ELSE 0
      /\ \A i \in 1 .. n - m + 1 : s[i] = q[m + i - 1]
    BY <1>0, SubSeqProperties
<1> HIDE DEF s
<1>2. ASSUME NEW i \in 1 .. Len(s)
      PROVE  s[i] \in In(q)
    <2>1. i \in 1 .. n - m + 1 /\ m + i - 1 \in 1 .. Len(q)
        BY <1>1
    <2> QED BY <1>1, <2>1 DEF In
<1>3. Len(s) <= Len(q)
    <2>1. n <= Len(q) /\ Len(q) \in Nat /\ n \in Nat /\ m \in Nat /\ m > 0
        OBVIOUS
    <2> QED BY <1>1, <2>1
<1>4. In(s) \subseteq In(q)
    BY <1>2 DEF In
<1> QED BY <1>1, <1>3, <1>4 DEF s

LEMMA InAppend ==
    ASSUME NEW S, NEW q \in Seq(S), NEW e \in S
    PROVE  /\ Append(q, e) \in Seq(S) /\ Len(Append(q, e)) = Len(q) + 1
           /\ In(Append(q, e)) = In(q) \cup {e}
<1> DEFINE a == Append(q, e)
<1>1. /\ a \in Seq(S) /\ Len(a) = Len(q) + 1 /\ Len(q) \in Nat
      /\ \A i \in 1 .. Len(q) : a[i] = q[i]
      /\ a[Len(q) + 1] = e
    OBVIOUS
<1> HIDE DEF a
<1>2. \A i \in 1 .. Len(a) : i \in 1 .. Len(q) \/ i = Len(q) + 1
    BY <1>1
<1>3. \A i \in 1 .. Len(q) : i \in 1 .. Len(a)
    BY <1>1
<1>4. Len(q) + 1 \in 1 .. Len(a)
    BY <1>1
<1>5. In(a) = In(q) \cup {e}
    BY <1>1, <1>2, <1>3, <1>4 DEF In
<1> QED BY <1>1, <1>5 DEF a

-----------------------------------------------------------------------------
(* Frames and decoders. *)

LEMMA BlankType == Blank \in Frame
BY DEF Blank, Frame, RequestTypes

LEMMA EncodeFacts ==
    ASSUME NEW f \in Frame
    PROVE  LET e == encode_frame(f)
           IN  /\ e \in Seq(Unit) /\ Len(e) = f.size + 1 /\ f.size \in Nat
               /\ \A i \in 1 .. f.size + 1 : e[i] = [frame |-> f, part |-> i - 1]
               /\ \A u \in In(e) : u.frame = f
<1> DEFINE e == encode_frame(f)
           n == f.size + 1
<1>1. f.size \in Nat /\ n \in Nat
    BY DEF Frame
<1>2. e = [i \in 1 .. n |-> [frame |-> f, part |-> i - 1]]
    BY DEF encode_frame
<1>3. \A i \in 1 .. n : [frame |-> f, part |-> i - 1] \in Unit
    BY <1>1 DEF Unit
<1>4. e \in Seq(Unit) /\ Len(e) = n
    <2> HIDE DEF n
    <2> QED BY <1>1, <1>2, <1>3
<1>5. \A i \in 1 .. n : e[i] = [frame |-> f, part |-> i - 1]
    BY <1>2
<1> HIDE DEF e
<1>6. ASSUME NEW u \in In(e)
      PROVE  u.frame = f
    <2>1. PICK i \in 1 .. Len(e) : u = e[i]
        BY DEF In
    <2>2. u = [frame |-> f, part |-> i - 1]
        BY <1>4, <1>5, <2>1
    <2> QED BY <2>2
<1> QED BY <1>1, <1>4, <1>5, <1>6 DEF e

\* A decoder within the bound of one maximal frame.
Bounded(d) == d \in Decoder /\ Len(d.buffer) <= MaxFrame

LEMMA DecoderFacts ==
    /\ Bounded(Fresh) /\ Bounded(Failed)
    /\ Fresh.buffer = <<>> /\ Failed.buffer = <<>> /\ Fresh.ok /\ ~Failed.ok
    /\ \A d : pop_failed(d) = Failed
<1>1. <<>> \in Seq(Unit) /\ Len(<<>>) = 0 /\ MaxFrame \in Nat
    BY FrameAssumption
<1> QED BY <1>1 DEF Bounded, Decoder, Fresh, Failed, pop_failed

LEMMA FeedFacts ==
    ASSUME NEW d, Bounded(d), NEW data \in Seq(Unit)
    PROVE  LET e == feed(d, data)
           IN  /\ Bounded(e)
               /\ In(e.buffer) \subseteq In(d.buffer) \cup In(data)
               /\ e.ok => d.ok /\ e.buffer = d.buffer \o data
<1>1. CASE ~d.ok \/ Len(data) > MaxFrame - Len(d.buffer)
    <2>1. feed(d, data) = Failed
        BY <1>1 DEF feed
    <2> QED BY <2>1, DecoderFacts, InEmpty
<1>2. CASE ~(~d.ok \/ Len(data) > MaxFrame - Len(d.buffer))
    <2> DEFINE b == d.buffer \o data
               e == [d EXCEPT !.buffer = b]
    <2>1. feed(d, data) = e
        BY <1>2 DEF feed
    <2>2. d \in Decoder /\ d.buffer \in Seq(Unit) /\ MaxFrame \in Nat
        BY FrameAssumption DEF Bounded, Decoder
    <2>3. b \in Seq(Unit) /\ In(b) = In(d.buffer) \cup In(data)
          /\ Len(b) = Len(d.buffer) + Len(data)
        BY <2>2, InConcat, ConcatProperties
    <2>4. Len(b) <= MaxFrame
        BY <1>2, <2>2, <2>3
    <2> HIDE DEF b
    <2>5. e \in Decoder /\ e.buffer = b /\ e.ok = d.ok
        BY <2>2, <2>3 DEF Decoder
    <2> HIDE DEF e
    <2>6. Bounded(e) /\ In(e.buffer) \subseteq In(d.buffer) \cup In(data)
          /\ (e.ok => d.ok /\ e.buffer = d.buffer \o data)
        BY <1>2, <2>3, <2>4, <2>5 DEF Bounded, b
    <2> QED BY <2>1, <2>6
<1> QED BY <1>1, <1>2

\* What pop returns is a frame whose last unit is in the buffer.
LEMMA PopFacts ==
    ASSUME NEW d, Bounded(d), has_frame(d)
    PROVE  LET f == FirstFrame(d)
               e == popped(d)
           IN  /\ f \in Frame
               /\ [frame |-> f, part |-> f.size] \in In(d.buffer)
               /\ Bounded(e) /\ In(e.buffer) \subseteq In(d.buffer)
               /\ d.ok /\ e.ok
               /\ f.size + 1 <= Len(d.buffer)
               /\ e.buffer = SubSeq(d.buffer, f.size + 2, Len(d.buffer))
               /\ \A i \in 1 .. f.size + 1 : d.buffer[i] = [frame |-> f, part |-> i - 1]
<1> DEFINE b == d.buffer
           f == FirstFrame(d)
           n == f.size + 1
           r == SubSeq(b, n + 1, Len(b))
           e == [d EXCEPT !.buffer = r]
<1>1. /\ d \in Decoder /\ b \in Seq(Unit) /\ Len(b) <= MaxFrame /\ d.ok /\ b # <<>>
      /\ Head(b).frame = f /\ Len(b) >= n /\ SubSeq(b, 1, n) = encode_frame(f)
    BY DEF Bounded, Decoder, has_frame, StartsFrame, Declared, FirstFrame
<1>2. Len(b) \in Nat /\ Len(b) > 0 /\ Head(b) = b[1] /\ b[1] \in Unit
    BY <1>1
<1>3. f \in Frame /\ f.size \in Nat
    BY <1>1, <1>2 DEF Unit, Frame
<1>4. popped(d) = e
    BY DEF popped, Declared, FirstFrame
<1> HIDE DEF f
<1>5. n \in 1 .. Len(b) /\ n \in Nat
    BY <1>1, <1>2, <1>3
<1> HIDE DEF b
<1>6. \A i \in 1 .. n : SubSeq(b, 1, n)[i] = b[i]
    <2>1. \A i \in 1 .. n : b[i] \in Unit
        BY <1>1, <1>2, <1>5
    <2> QED BY <1>5, <2>1, SubSeqProperties
<1>7. \A i \in 1 .. n : b[i] = [frame |-> f, part |-> i - 1]
    BY <1>1, <1>3, <1>6, EncodeFacts
<1>8. [frame |-> f, part |-> f.size] \in In(b)
    <2>1. b[n] = [frame |-> f, part |-> n - 1] /\ n - 1 = f.size
        BY <1>3, <1>5, <1>7
    <2> QED BY <1>5, <2>1 DEF In
<1>9. r \in Seq(Unit) /\ In(r) \subseteq In(b) /\ Len(r) <= Len(b)
    <2>1. n + 1 \in Nat \ {0} /\ Len(b) \in 0 .. Len(b)
        BY <1>2, <1>5
    <2> HIDE DEF n
    <2> QED BY <1>1, <2>1, InSubSeq
<1>10. n + 1 = f.size + 2
    BY <1>3
<1> HIDE DEF r
<1>11. e \in Decoder /\ e.buffer = r /\ e.ok
    BY <1>1, <1>9 DEF Decoder, b
<1>12. Bounded(e)
    BY <1>1, <1>2, <1>9, <1>11, FrameAssumption DEF Bounded
<1> HIDE DEF e
<1> QED BY <1>1, <1>3, <1>4, <1>7, <1>8, <1>9, <1>10, <1>11, <1>12 DEF f, b, r, n


-----------------------------------------------------------------------------
(* Types, and which connection is whose. *)

Outcomes == [outcome : {"open", "ok", "refused", "failed"}, by : Nat]
Entries == [call : Nat, conn : Conns, epoch : 1 .. MaxEpoch, session : Nat, req : Nat]
Servers == [up : BOOLEAN, stop : BOOLEAN, epoch : 1 .. MaxEpoch, issued : Nat]

\* A thread that runs belongs to the process that runs now, and so does the
\* incarnation of a session past its handshake.
Serves(s, sv) ==
    /\ s.at \notin {"none", "done"} => sv.up
    /\ s.phase = "requests" => s.epoch = sv.epoch /\ s.at \notin {"none", "done"}

\* The client's connections are used one after the other.
Unused(c) == link[c] = NoLink /\ session[c] = NoThread

BudgetOK == "conns" \in DOMAIN budget /\ budget.conns \in 0 .. MaxConns

TypeInv ==
    /\ TypeOK
    /\ BudgetOK
    /\ client.conn \in 0 .. MaxConns
    /\ client.at # "closed" => client.conn # 0
    /\ \A c \in Conns : Serves(session[c], server)
    /\ \A c \in 1 .. MaxConns : c > client.conn => Unused(c)

LEMMA TypeParts ==
    ASSUME TypeInv
    PROVE  /\ client \in Client /\ Bounded(client.decoder)
           /\ \A c \in Conns : session[c] \in Thread /\ Bounded(session[c].decoder)
           /\ \A c \in Conns : link[c] \in Link
           /\ link \in [Conns -> Link] /\ session \in [Conns -> Thread]
           /\ server \in Servers /\ told \in Seq(Outcomes) /\ applied \in Seq(Entries)
           /\ MaxConns \in Nat /\ client.conn \in 0 .. MaxConns
           /\ \A c \in Conns : c \in 1 .. MaxConns \/ c \in RawConns
           /\ \A c \in 1 .. MaxConns : c \in Conns /\ c \notin RawConns
<1>1. TypeOK
    BY DEF TypeInv
<1>2. client \in Client /\ Bounded(client.decoder)
    BY <1>1 DEF TypeOK, Client, Bounded
<1>3. ASSUME NEW c \in Conns
      PROVE  session[c] \in Thread /\ Bounded(session[c].decoder)
    BY <1>1 DEF TypeOK, Thread, Bounded
<1>4. \A c \in Conns : link[c] \in Link
    BY <1>1 DEF TypeOK
<1>5. /\ server \in Servers /\ told \in Seq(Outcomes) /\ applied \in Seq(Entries)
      /\ link \in [Conns -> Link] /\ session \in [Conns -> Thread]
    BY <1>1 DEF TypeOK, Servers, Outcomes, Entries
<1>6. MaxConns \in Nat /\ RawConns \cap (0 .. MaxConns) = {}
    BY SessionAssumption
<1>7. \A c \in 1 .. MaxConns : c \in 0 .. MaxConns
    BY <1>6
<1>8. \A c \in 1 .. MaxConns : c \in Conns /\ c \notin RawConns
    BY <1>6, <1>7 DEF Conns
<1>9. client.conn \in 0 .. MaxConns
    BY DEF TypeInv
<1> QED BY <1>2, <1>3, <1>4, <1>5, <1>6, <1>8, <1>9 DEF Conns

LEMMA TypeWhole ==
    ASSUME client' \in Client, Bounded(client'.decoder),
           session' \in [Conns -> Thread],
           \A c \in Conns : Bounded(session'[c].decoder),
           link' \in [Conns -> Link], server' \in Servers, told' \in Seq(Outcomes),
           applied' \in Seq(Entries)
    PROVE  TypeOK'
BY DEF TypeOK, Servers, Outcomes, Entries, Bounded

\* A step on one connection that is not the client's.
Turns(c, lk, s) ==
    /\ link' = [link EXCEPT ![c] = lk] /\ lk \in Link
    /\ session' = [session EXCEPT ![c] = s] /\ s \in Thread /\ Bounded(s.decoder)
    /\ Serves(s, server')
    /\ server' \in Servers /\ server'.up = server.up /\ server'.epoch = server.epoch
    /\ applied' \in Seq(Entries)
    /\ UNCHANGED <<client, told>>
    /\ "conns" \in DOMAIN budget' /\ budget'.conns = budget.conns

LEMMA TurnTyped ==
    ASSUME TypeInv, NEW c \in Conns, NEW lk, NEW s, Turns(c, lk, s), ~Unused(c) \/ c \in RawConns
    PROVE  TypeInv'
<1>1. /\ client \in Client /\ Bounded(client.decoder)
      /\ \A d \in Conns : session[d] \in Thread /\ Bounded(session[d].decoder)
      /\ link \in [Conns -> Link] /\ session \in [Conns -> Thread] /\ told \in Seq(Outcomes)
      /\ MaxConns \in Nat /\ client.conn \in 0 .. MaxConns
      /\ \A d \in 1 .. MaxConns : d \in Conns /\ d \notin RawConns
    BY TypeParts
<1>2. /\ link' \in [Conns -> Link] /\ session' \in [Conns -> Thread]
      /\ link'[c] = lk /\ session'[c] = s
      /\ \A d \in Conns : d # c => link'[d] = link[d] /\ session'[d] = session[d]
    BY <1>1 DEF Turns
<1>3. TypeOK'
    <2>1. \A d \in Conns : Bounded(session'[d].decoder)
        BY <1>1, <1>2 DEF Turns
    <2>2. client' \in Client /\ Bounded(client'.decoder) /\ told' \in Seq(Outcomes)
          /\ server' \in Servers /\ applied' \in Seq(Entries)
        BY <1>1 DEF Turns
    <2> QED BY <1>2, <2>1, <2>2, TypeWhole
<1>4. BudgetOK'
    BY DEF Turns, BudgetOK, TypeInv
<1>5. ASSUME NEW d \in Conns
      PROVE  Serves(session'[d], server')
    BY <1>2 DEF Turns, TypeInv, Serves
<1>6. ASSUME NEW d \in 1 .. MaxConns, d > client'.conn
      PROVE  link'[d] = NoLink /\ session'[d] = NoThread
    <2>1. client' = client /\ d \in Conns /\ d \notin RawConns
        BY <1>1 DEF Turns
    <2>2. Unused(d)
        BY <1>6, <2>1 DEF TypeInv
    <2>3. d # c
        BY <2>1, <2>2
    <2> QED BY <1>2, <2>1, <2>2, <2>3 DEF Unused
<1>7. client' = client
    BY DEF Turns
<1>8. \A d \in Conns : Serves(session[d], server)'
    BY <1>5 DEF Serves
<1>9. \A d \in 1 .. MaxConns : (d > client.conn)' => Unused(d)'
    BY <1>6 DEF Unused
<1> QED BY <1>3, <1>4, <1>7, <1>8, <1>9 DEF TypeInv

\* A step of the client on its connection, or on the next one.
ClientTurns(c, cl, lk) ==
    /\ client' = cl /\ cl \in Client /\ Bounded(cl.decoder) /\ cl.conn = c
    /\ link' = [link EXCEPT ![c] = lk] /\ lk \in Link
    /\ told' \in Seq(Outcomes)
    /\ UNCHANGED <<server, session, applied>>
    /\ "conns" \in DOMAIN budget' /\ budget'.conns = budget.conns

LEMMA ClientTurnTyped ==
    ASSUME TypeInv, NEW c \in 1 .. MaxConns, c >= client.conn, NEW cl, NEW lk,
           ClientTurns(c, cl, lk)
    PROVE  TypeInv'
<1>1. /\ \A d \in Conns : session[d] \in Thread /\ Bounded(session[d].decoder)
      /\ link \in [Conns -> Link] /\ session \in [Conns -> Thread]
      /\ server \in Servers /\ applied \in Seq(Entries)
      /\ MaxConns \in Nat /\ client.conn \in 0 .. MaxConns
      /\ \A d \in 1 .. MaxConns : d \in Conns /\ d \notin RawConns
    BY TypeParts
<1>2. /\ link' \in [Conns -> Link] /\ link'[c] = lk /\ session' = session /\ server' = server
      /\ \A d \in Conns : d # c => link'[d] = link[d]
    BY <1>1 DEF ClientTurns
<1>3. TypeOK'
    <2>1. client' \in Client /\ Bounded(client'.decoder) /\ told' \in Seq(Outcomes)
          /\ applied' \in Seq(Entries)
        BY <1>1 DEF ClientTurns
    <2> QED BY <1>1, <1>2, <2>1, TypeWhole
<1>4. BudgetOK'
    BY DEF ClientTurns, BudgetOK, TypeInv
<1>5. client'.conn = c /\ c \in 0 .. MaxConns /\ c # 0
    BY <1>1 DEF ClientTurns
<1>6. ASSUME NEW d \in 1 .. MaxConns, d > client'.conn
      PROVE  link'[d] = NoLink /\ session'[d] = NoThread
    <2>1. d \in Conns /\ d # c /\ d > client.conn
        BY <1>1, <1>5, <1>6
    <2>2. Unused(d)
        BY <2>1 DEF TypeInv
    <2> QED BY <1>2, <2>1, <2>2 DEF Unused
<1>7. \A d \in Conns : Serves(session[d], server)'
    BY <1>2 DEF Serves, TypeInv
<1>8. \A d \in 1 .. MaxConns : (d > client.conn)' => Unused(d)'
    BY <1>6 DEF Unused
<1> QED BY <1>3, <1>4, <1>5, <1>7, <1>8 DEF TypeInv


-----------------------------------------------------------------------------
(* What the steps on the server's side of a connection do. *)

\* The thread t goes on as s, at another place and with another decoder.
Thr(s, t, at, d) ==
    /\ s \in Thread /\ s.at = at /\ s.decoder = d
    /\ s.phase = t.phase /\ s.id = t.id /\ s.epoch = t.epoch /\ s.last = t.last

\* The link l becomes lk.
Lnk(lk, l, up, down, far) ==
    /\ lk \in Link /\ lk.up = up /\ lk.down = down /\ lk.far = far
    /\ lk.near = l.near /\ lk.clean = l.clean /\ lk.torn = l.torn

Accepts(c, lk, s) ==
    /\ server.up /\ link[c].far /\ session[c].at = "none"
    /\ lk = link[c] /\ Thr(s, session[c], "recv", session[c].decoder)
    /\ UNCHANGED <<server, applied>>

Receives(c, lk, s) ==
    /\ session[c].at = "recv"
    /\ \E n \in 1 .. Len(link[c].up) :
         /\ Thr(s, session[c], "pop", feed(session[c].decoder, SubSeq(link[c].up, 1, n)))
         /\ Lnk(lk, link[c], SubSeq(link[c].up, n + 1, Len(link[c].up)), link[c].down,
                link[c].far)
    /\ UNCHANGED <<server, applied>>

Loops(c, lk, s) ==
    /\ session[c].at = "pop"
    /\ lk = link[c]
    /\ \/ Thr(s, session[c], "recv", session[c].decoder)
       \/ /\ Thr(s, session[c], "recv", Failed)
          /\ ~has_frame(session[c].decoder) /\ ~Incomplete(session[c].decoder)
    /\ UNCHANGED <<server, applied>>

\* The session ends, with or without a part of its last answer.
Leaves(c, lk, s) ==
    /\ session[c].at \notin {"none", "done"}
    /\ s \in Thread /\ s.at = "done" /\ s.phase = "hello" /\ s.decoder = Fresh
    /\ \E down :
         /\ Lnk(lk, link[c], <<>>, down, FALSE)
         /\ \/ down = link[c].down
            \/ /\ session[c].at = "send"
               /\ \E n \in 0 .. Len(encode_frame(session[c].reply)) :
                    down = link[c].down \o SubSeq(encode_frame(session[c].reply), 1, n)
    /\ server'.issued = server.issued
    /\ UNCHANGED applied

Sends(c, lk, s) ==
    /\ session[c].at = "send" /\ session[c].then \in {"pop", "recv"}
    /\ Thr(s, session[c], session[c].then, session[c].decoder)
    /\ \E down :
         /\ Lnk(lk, link[c], link[c].up, down, link[c].far)
         /\ \/ down = link[c].down
            \/ down = link[c].down \o encode_frame(session[c].reply)
    /\ server'.issued = server.issued
    /\ UNCHANGED applied

\* What the answer is to a frame f that is handled by a session t.
Greets(t, s, f) ==
    /\ t.phase = "hello" /\ UNCHANGED applied /\ s.reply.type \in {"error", "hello_ack"}
    /\ \/ s.phase = "hello" /\ s.then = "done" /\ UNCHANGED server
       \/ /\ f.type = "hello" /\ s.phase = "requests"
          /\ s.id = server.issued + 1 /\ s.epoch = server.epoch
          /\ server'.issued = server.issued + 1

Entry(c, f) ==
    [call |-> f.call, conn |-> c, epoch |-> f.epoch, session |-> f.session, req |-> f.req]

Dispatches(c, t, s, f) ==
    /\ t.phase = "requests" /\ s.phase = "requests" /\ s.id = t.id /\ s.epoch = t.epoch
    /\ UNCHANGED server
    /\ \/ s.last = t.last /\ s.then = "done" /\ s.reply.type = "error" /\ UNCHANGED applied
       \/ /\ Admissible(t, f) /\ s.last = f.req
          /\ \/ s.reply.type = "error" /\ UNCHANGED applied
             \/ f.type # "hello" /\ applied' = Append(applied, Entry(c, f))

Replies(c, lk, s) ==
    /\ session[c].at = "pop" /\ has_frame(session[c].decoder)
    /\ lk = link[c]
    /\ s \in Thread /\ s.at = "send" /\ s.decoder = popped(session[c].decoder)
    /\ LET f == FirstFrame(session[c].decoder)
       IN  /\ s.reply.seq = f.seq /\ s.reply.call = f.call /\ s.reply.size < MaxFrame
           /\ Greets(session[c], s, f) \/ Dispatches(c, session[c], s, f)

\* A step of the accept loop or of the session thread of c.
SideStep(c, lk, s) ==
    /\ link' = [link EXCEPT ![c] = lk]
    /\ session' = [session EXCEPT ![c] = s]
    /\ UNCHANGED <<client, told>>
    /\ server' \in Servers /\ server'.up = server.up /\ server'.epoch = server.epoch
    /\ "conns" \in DOMAIN budget' /\ budget'.conns = budget.conns
    /\ \/ Accepts(c, lk, s) \/ Receives(c, lk, s) \/ Loops(c, lk, s)
       \/ Leaves(c, lk, s) \/ Sends(c, lk, s) \/ Replies(c, lk, s)

LEMMA FaultBudget ==
    ASSUME BudgetOK, NEW cause, Fault(cause)
    PROVE  "conns" \in DOMAIN budget' /\ budget'.conns = budget.conns
BY DEF BudgetOK, Fault

LEMMA AcceptEffect ==
    ASSUME TypeInv, NEW c \in Conns, Accept(c)
    PROVE  \E lk, s : SideStep(c, lk, s)
<1> DEFINE t == session[c]
           s == [t EXCEPT !.at = "recv"]
<1>1. t \in Thread /\ link \in [Conns -> Link] /\ session \in [Conns -> Thread]
      /\ server \in Servers
    BY TypeParts
<1>2. Thr(s, t, "recv", t.decoder)
    BY <1>1 DEF Thr, Thread
<1>3. /\ server.up /\ link[c].far /\ t.at = "none"
      /\ session' = [session EXCEPT ![c] = s] /\ link' = [link EXCEPT ![c] = link[c]]
      /\ UNCHANGED <<budget, client, link, server, told, applied>>
    BY <1>1 DEF Accept
<1>4. "conns" \in DOMAIN budget' /\ budget'.conns = budget.conns
    BY <1>3 DEF TypeInv, BudgetOK
<1> HIDE DEF s
<1>5. Accepts(c, link[c], s)
    BY <1>2, <1>3 DEF Accepts
<1>6. SideStep(c, link[c], s)
    BY <1>1, <1>3, <1>4, <1>5 DEF SideStep
<1> QED BY <1>6

LEMMA RecvEffect ==
    ASSUME TypeInv, NEW c \in Conns, SessionRecv(c)
    PROVE  \E lk, s : SideStep(c, lk, s)
<1> DEFINE t == session[c]
           l == link[c]
<1>1. /\ t \in Thread /\ link \in [Conns -> Link] /\ session \in [Conns -> Thread]
      /\ server \in Servers /\ l \in Link /\ Bounded(t.decoder)
    BY TypeParts
<1>2. l.up \in Seq(Unit) /\ Chunk \in Nat
    BY <1>1, SessionAssumption DEF Link
<1>3. PICK n \in 1 .. Least(Chunk, Len(l.up)) :
          /\ session' = [session EXCEPT ![c] =
               [@ EXCEPT !.at = "pop",
                         !.decoder = feed(session[c].decoder, SubSeq(link[c].up, 1, n))]]
          /\ link' = [link EXCEPT ![c].up = SubSeq(@, n + 1, Len(@))]
    BY DEF SessionRecv
<1>4. n \in 1 .. Len(l.up) /\ Len(l.up) \in Nat
    BY <1>2 DEF Least
<1> DEFINE data == SubSeq(l.up, 1, n)
           rest == SubSeq(l.up, n + 1, Len(l.up))
           d == feed(t.decoder, data)
           s == [t EXCEPT !.at = "pop", !.decoder = d]
           lk == [l EXCEPT !.up = rest]
<1>5. data \in Seq(Unit) /\ rest \in Seq(Unit)
    <2>1. n + 1 \in Nat \ {0} /\ 1 \in Nat \ {0} /\ n \in 0 .. Len(l.up) /\ Len(l.up) \in 0 .. Len(l.up)
        BY <1>4
    <2> QED BY <1>2, <2>1, InSubSeq
<1>6. d \in Decoder
    BY <1>1, <1>5, FeedFacts DEF Bounded
<1>7. session' = [session EXCEPT ![c] = s] /\ link' = [link EXCEPT ![c] = lk]
    <2>1. session' = [session EXCEPT ![c] = s]
        BY <1>1, <1>3
    <2>2. link' = [link EXCEPT ![c] = lk]
        BY <1>1, <1>3
    <2> QED BY <2>1, <2>2
<1> HIDE DEF data, rest, d
<1>8. Thr(s, t, "pop", d)
    BY <1>1, <1>6 DEF Thr, Thread
<1>9. Lnk(lk, l, rest, l.down, l.far)
    BY <1>1, <1>5 DEF Lnk, Link
<1> HIDE DEF s, lk
<1>10. t.at = "recv" /\ UNCHANGED <<budget, client, server, told, applied>>
    BY DEF SessionRecv
<1>11. Receives(c, lk, s)
    BY <1>4, <1>8, <1>9, <1>10 DEF Receives, d, data, rest
<1>12. "conns" \in DOMAIN budget' /\ budget'.conns = budget.conns
    BY <1>10 DEF TypeInv, BudgetOK
<1>13. SideStep(c, lk, s)
    BY <1>1, <1>7, <1>10, <1>11, <1>12 DEF SideStep
<1> QED BY <1>13


\* What a session may have put on the wire of its last answer when it ends.
Trailing(c, down) ==
    \/ down = link[c].down
    \/ /\ session[c].at = "send"
       /\ \E n \in 0 .. Len(encode_frame(session[c].reply)) :
            down = link[c].down \o SubSeq(encode_frame(session[c].reply), 1, n)

LEMMA LeaveEffect ==
    ASSUME TypeInv, NEW c \in Conns, session[c].at \notin {"none", "done"},
           NEW lk, NEW down, Lnk(lk, link[c], link[c].up, down, link[c].far),
           Trailing(c, down), Leave(c, lk),
           UNCHANGED <<client, told, applied>>, server' \in Servers,
           server'.up = server.up, server'.epoch = server.epoch,
           server'.issued = server.issued,
           "conns" \in DOMAIN budget', budget'.conns = budget.conns
    PROVE  \E lk2, s : SideStep(c, lk2, s)
<1> DEFINE s == [NoThread EXCEPT !.at = "done"]
           none == <<>>
           lk2 == [lk EXCEPT !.far = FALSE, !.up = none]
<1>1. session' = [session EXCEPT ![c] = s] /\ link' = [link EXCEPT ![c] = lk2]
    BY DEF Leave, Closed
<1>2. none \in Seq(Unit)
    OBVIOUS
<1> HIDE DEF none
<1>3. Lnk(lk2, link[c], none, down, FALSE)
    BY <1>2 DEF Lnk, Link
<1>4. s \in Thread /\ s.at = "done" /\ s.phase = "hello" /\ s.decoder = Fresh
    <2>1. Fresh \in Decoder /\ Blank \in Frame
        BY DecoderFacts, BlankType DEF Bounded
    <2> QED BY <2>1 DEF NoThread, Thread
<1> HIDE DEF s, lk2
<1>5. Leaves(c, lk2, s)
    BY <1>3, <1>4 DEF Leaves, Trailing, none
<1>6. SideStep(c, lk2, s)
    BY <1>1, <1>5 DEF SideStep
<1> QED BY <1>6

LEMMA SameLink ==
    ASSUME NEW l \in Link
    PROVE  Lnk(l, l, l.up, l.down, l.far)
BY DEF Lnk

\* The peer or the stop ended it, or recv failed.
LEMMA EofEffect ==
    ASSUME TypeInv, NEW c \in Conns, SessionEof(c) \/ SessionRecvFails(c)
    PROVE  \E lk, s : SideStep(c, lk, s)
<1>1. /\ session[c].at = "recv" /\ Leave(c, link[c])
      /\ UNCHANGED <<client, server, told, applied>>
    BY DEF SessionEof, SessionRecvFails
<1>2. "conns" \in DOMAIN budget' /\ budget'.conns = budget.conns
    BY FaultBudget DEF TypeInv, SessionEof, SessionRecvFails, BudgetOK
<1>3. link[c] \in Link /\ server \in Servers
    BY TypeParts
<1>4. Lnk(link[c], link[c], link[c].up, link[c].down, link[c].far)
    BY <1>3, SameLink
<1>5. Trailing(c, link[c].down)
    BY DEF Trailing
<1> QED BY <1>1, <1>2, <1>3, <1>4, <1>5, LeaveEffect

\* The next turn of a loop.
LEMMA LoopEffect ==
    ASSUME TypeInv, NEW c \in Conns, session[c].at = "pop", NEW s, s \in Thread,
           \/ s = session[c]
           \/ /\ Thr(s, session[c], "pop", Failed)
              /\ ~has_frame(session[c].decoder) /\ ~Incomplete(session[c].decoder),
           Loop(c, s), UNCHANGED <<budget, client, server, told, applied>>
    PROVE  \E lk, r : SideStep(c, lk, r)
<1>1. /\ link[c] \in Link /\ server \in Servers /\ session[c] \in Thread
      /\ link \in [Conns -> Link] /\ session \in [Conns -> Thread]
    BY TypeParts
<1>2. "conns" \in DOMAIN budget' /\ budget'.conns = budget.conns
    BY DEF TypeInv, BudgetOK
<1>3. CASE server.stop
    <2>1. Lnk(link[c], link[c], link[c].up, link[c].down, link[c].far)
        BY <1>1, SameLink
    <2>2. Trailing(c, link[c].down)
        BY DEF Trailing
    <2>3. Leave(c, link[c])
        BY <1>3 DEF Loop
    <2> QED BY <1>1, <1>2, <2>1, <2>2, <2>3, LeaveEffect
<1>4. CASE ~server.stop
    <2> DEFINE r == [s EXCEPT !.at = "recv"]
    <2>1. session' = [session EXCEPT ![c] = r] /\ link' = [link EXCEPT ![c] = link[c]]
        BY <1>1, <1>4 DEF Loop
    <2>2. \/ Thr(r, session[c], "recv", session[c].decoder)
          \/ /\ Thr(r, session[c], "recv", Failed)
             /\ ~has_frame(session[c].decoder) /\ ~Incomplete(session[c].decoder)
        BY DEF Thr, Thread
    <2> HIDE DEF r
    <2>3. Loops(c, link[c], r)
        BY <2>2 DEF Loops
    <2>4. SideStep(c, link[c], r)
        BY <1>1, <1>2, <2>1, <2>3 DEF SideStep
    <2> QED BY <2>4
<1> QED BY <1>3, <1>4

\* The answer is sent, wholly or in part.
LEMMA SendEffect ==
    ASSUME TypeInv, NEW c \in Conns, SessionSend(c) \/ SessionSendFails(c)
    PROVE  \E lk, s : SideStep(c, lk, s)
<1> DEFINE t == session[c]
           l == link[c]
           e == encode_frame(t.reply)
<1>1. /\ l \in Link /\ server \in Servers /\ t \in Thread
      /\ link \in [Conns -> Link] /\ session \in [Conns -> Thread]
    BY TypeParts
<1>2. t.at = "send" /\ UNCHANGED <<client, told, applied>>
    BY DEF SessionSend, SessionSendFails
<1>3. "conns" \in DOMAIN budget' /\ budget'.conns = budget.conns
    BY FaultBudget DEF TypeInv, SessionSend, SessionSendFails, BudgetOK
<1>4. t.reply \in Frame /\ e \in Seq(Unit) /\ Len(e) \in Nat
    <2>1. t.reply \in Frame
        BY <1>1 DEF Thread
    <2> QED BY <2>1, EncodeFacts
<1>5. PICK n \in 0 .. Len(e), then \in {t.then, "done", "stop"} :
          /\ After(c, then, Received(c, SubSeq(e, 1, n)))
          /\ then \in {"pop", "recv"} => n = Len(e) /\ then = t.then
    <2>1. CASE SessionSend(c)
        <3>1. SubSeq(e, 1, Len(e)) = e
            BY <1>4, SubSeqFull
        <3>2. Len(e) \in 0 .. Len(e)
            BY <1>4
        <3> QED BY <2>1, <3>1, <3>2 DEF SessionSend
    <2>2. CASE SessionSendFails(c)
        <3>1. PICK n \in 0 .. Len(e) - 1 :
                  After(c, IF t.then = "stop" THEN "stop" ELSE "done", Received(c, SubSeq(e, 1, n)))
            BY <2>2 DEF SessionSendFails
        <3>2. n \in 0 .. Len(e)
            BY <1>4, <3>1
        <3> QED BY <3>1, <3>2
    <2> QED BY <2>1, <2>2
<1> HIDE DEF e
<1> DEFINE part == SubSeq(e, 1, n)
           lk == Received(c, part)
           down == lk.down
<1>6. part \in Seq(Unit) /\ (n = Len(e) => part = e)
    BY <1>4, <1>5, InSubSeq, SubSeqFull
<1>7. Lnk(lk, l, l.up, down, l.far) /\ (down = l.down \/ down = l.down \o part)
    <2> HIDE DEF part
    <2>1. CASE l.near /\ c \notin RawConns
        <3> DEFINE g == l.down \o part
        <3>1. lk = [l EXCEPT !.down = g]
            BY <2>1 DEF Received
        <3>2. g \in Seq(Unit)
            BY <1>1, <1>6, InConcat DEF Link
        <3> HIDE DEF g, lk
        <3>3. lk.down = g /\ Lnk(lk, l, l.up, g, l.far)
            BY <1>1, <3>1, <3>2 DEF Lnk, Link
        <3> QED BY <3>3 DEF g
    <2>2. CASE ~(l.near /\ c \notin RawConns)
        <3>1. lk = l
            BY <2>2 DEF Received
        <3> HIDE DEF lk
        <3> QED BY <1>1, <3>1, SameLink
    <2> QED BY <2>1, <2>2
<1>8. /\ server' = [server EXCEPT !.stop = @ \/ then = "stop"]
      /\ \/ Leave(c, lk)
         \/ /\ then \in {"pop", "recv"}
            /\ session' = [session EXCEPT ![c] = [@ EXCEPT !.at = then, !.reply = Blank]]
            /\ link' = [link EXCEPT ![c] = lk]
    <2> HIDE DEF lk
    <2>1. then \in {"recv", "pop", "done", "stop"}
        BY <1>1, <1>5 DEF Thread
    <2>2. After(c, then, lk)
        BY <1>5 DEF lk
    <2> QED BY <2>1, <2>2 DEF After
<1>9. /\ server' \in Servers /\ server'.up = server.up /\ server'.epoch = server.epoch
      /\ server'.issued = server.issued
    <2> DEFINE b == server.stop \/ then = "stop"
    <2>1. server' = [server EXCEPT !.stop = b] /\ b \in BOOLEAN
        BY <1>8
    <2> HIDE DEF b
    <2> QED BY <1>1, <2>1 DEF Servers
<1>10. Trailing(c, down)
    BY <1>2, <1>5, <1>7 DEF Trailing, e
<1> HIDE DEF lk, down
<1>11. CASE Leave(c, lk)
    BY <1>2, <1>3, <1>7, <1>9, <1>10, <1>11, LeaveEffect
<1>12. CASE ~Leave(c, lk)
    <2> DEFINE s == [t EXCEPT !.at = then, !.reply = Blank]
    <2>1. /\ then \in {"pop", "recv"} /\ then = t.then /\ n = Len(e)
          /\ session' = [session EXCEPT ![c] = s] /\ link' = [link EXCEPT ![c] = lk]
        BY <1>5, <1>8, <1>12
    <2>2. Thr(s, t, t.then, t.decoder)
        BY <1>1, <2>1, BlankType DEF Thr, Thread
    <2> HIDE DEF s
    <2>3. down = l.down \/ down = l.down \o e
        BY <1>6, <1>7, <2>1
    <2>4. Sends(c, lk, s)
        BY <1>2, <1>7, <1>9, <2>1, <2>2, <2>3 DEF Sends, e
    <2>5. SideStep(c, lk, s)
        BY <1>2, <1>3, <1>9, <2>1, <2>4 DEF SideStep
    <2> QED BY <2>5
<1> QED BY <1>11, <1>12


\* The session once its decoder has given a frame away.
Popped(c) == [session[c] EXCEPT !.decoder = popped(session[c].decoder)]

\* An answer: where it leaves the session r whose thread sends it.
LEMMA ReplyEffect ==
    ASSUME NEW c \in Conns, session \in [Conns -> Thread], NEW r \in Thread,
           NEW f \in Frame, NEW type \in AnswerTypes,
           NEW then \in {"recv", "pop", "done", "stop"}, Reply(c, r, f, type, then)
    PROVE  \E s : /\ session' = [session EXCEPT ![c] = s]
                  /\ Thr(s, r, "send", r.decoder)
                  /\ s.then = then /\ s.reply.type = type
                  /\ s.reply.seq = f.seq /\ s.reply.call = f.call
                  /\ s.reply.size < MaxFrame
<1>1. PICK size \in (IF type = "ok" THEN Sizes ELSE {1}) :
        session' = [session EXCEPT ![c] =
          [r EXCEPT !.at = "send", !.then = then,
                    !.reply = [type |-> type, seq |-> f.seq, size |-> size,
                               session |-> r.id, epoch |-> r.epoch, req |-> 0,
                               call |-> f.call]]]
    BY DEF Reply
<1> DEFINE g == [type |-> type, seq |-> f.seq, size |-> size, session |-> r.id,
                 epoch |-> r.epoch, req |-> 0, call |-> f.call]
           s == [r EXCEPT !.at = "send", !.then = then, !.reply = g]
<1>2. size \in Nat /\ size < MaxFrame
    <2>1. MaxFrame \in Nat /\ Sizes \subseteq 1 .. MaxFrame - 1 /\ 1 \in Sizes
        BY FrameAssumption, SessionAssumption
    <2> QED BY <1>1, <2>1
<1>3. g \in Frame
    <2>1. f.seq \in Nat /\ f.call \in Nat /\ r.id \in Nat /\ r.epoch \in Nat
        BY DEF Frame, Thread
    <2> QED BY <1>2, <2>1 DEF Frame
<1>4. g.type = type /\ g.seq = f.seq /\ g.call = f.call /\ g.size < MaxFrame
    BY <1>2
<1> HIDE DEF g
<1>5. Thr(s, r, "send", r.decoder) /\ s.then = then /\ s.reply = g
    BY <1>3 DEF Thr, Thread
<1>6. session' = [session EXCEPT ![c] = s]
    BY <1>1 DEF g
<1> HIDE DEF s
<1> QED BY <1>4, <1>5, <1>6

LEMMA GreetEffect ==
    ASSUME TypeInv, NEW c \in Conns, session[c].at = "pop", has_frame(session[c].decoder),
           session[c].phase = "hello",
           Greet(c, FirstFrame(session[c].decoder), Popped(c)),
           UNCHANGED <<budget, client, told, applied>>
    PROVE  \E lk, s : SideStep(c, lk, s)
<1> DEFINE t == session[c]
           f == FirstFrame(t.decoder)
           d == popped(t.decoder)
           r == Popped(c)
<1>1. /\ link[c] \in Link /\ server \in Servers /\ t \in Thread /\ Bounded(t.decoder)
      /\ link \in [Conns -> Link] /\ session \in [Conns -> Thread]
    BY TypeParts
<1>2. f \in Frame /\ d \in Decoder
    BY <1>1, PopFacts DEF Bounded
<1>3. "conns" \in DOMAIN budget' /\ budget'.conns = budget.conns
    BY DEF TypeInv, BudgetOK
<1> HIDE DEF d, f
<1>4. Thr(r, t, "pop", d)
    BY <1>1, <1>2 DEF Popped, Thr, Thread, d
<1> HIDE DEF r
<1>5. CASE Reply(c, r, f, "error", "done") /\ UNCHANGED <<server, link>>
    <2>1. PICK s : /\ session' = [session EXCEPT ![c] = s]
                   /\ Thr(s, r, "send", r.decoder)
                   /\ s.then = "done" /\ s.reply.type = "error"
                   /\ s.reply.seq = f.seq /\ s.reply.call = f.call
                   /\ s.reply.size < MaxFrame
        BY <1>1, <1>2, <1>4, <1>5, ReplyEffect DEF Thr, AnswerTypes
    <2>2. /\ s \in Thread /\ s.at = "send" /\ s.decoder = d /\ s.phase = "hello"
        BY <1>4, <2>1 DEF Thr
    <2>3. Greets(t, s, f)
        BY <1>5, <2>1, <2>2 DEF Greets
    <2>4. Replies(c, link[c], s)
        BY <2>1, <2>2, <2>3 DEF Replies, d, f
    <2>5. link' = [link EXCEPT ![c] = link[c]] /\ server' = server
        BY <1>1, <1>5
    <2>6. SideStep(c, link[c], s)
        BY <1>1, <1>3, <2>1, <2>4, <2>5 DEF SideStep
    <2> QED BY <2>6
<1>6. CASE Leave(c, link[c]) /\ UNCHANGED server
    <2>1. Lnk(link[c], link[c], link[c].up, link[c].down, link[c].far)
        BY <1>1, SameLink
    <2>2. Trailing(c, link[c].down)
        BY DEF Trailing
    <2> QED BY <1>1, <1>3, <1>6, <2>1, <2>2, LeaveEffect
<1>7. CASE /\ f.type = "hello"
           /\ server' = [server EXCEPT !.issued = @ + 1]
           /\ Reply(c, [r EXCEPT !.id = server'.issued, !.epoch = server.epoch,
                                 !.phase = "requests"],
                    f, "hello_ack", "recv")
           /\ UNCHANGED link
    <2> DEFINE n == server'.issued
               q == [r EXCEPT !.id = n, !.epoch = server.epoch, !.phase = "requests"]
    <2>1. /\ server' \in Servers /\ server'.up = server.up /\ server'.epoch = server.epoch
          /\ n = server.issued + 1 /\ n \in Nat /\ server.epoch \in Nat
        BY <1>1, <1>7, SessionAssumption DEF Servers
    <2> HIDE DEF n
    <2>2. /\ q \in Thread /\ q.phase = "requests" /\ q.id = n /\ q.epoch = server.epoch
          /\ q.decoder = d
        BY <1>4, <2>1 DEF Thr, Thread
    <2>3. Reply(c, q, f, "hello_ack", "recv")
        BY <1>7 DEF n
    <2> HIDE DEF q
    <2>4. PICK s : /\ session' = [session EXCEPT ![c] = s]
                   /\ Thr(s, q, "send", q.decoder) /\ s.reply.type = "hello_ack"
                   /\ s.reply.seq = f.seq /\ s.reply.call = f.call
                   /\ s.reply.size < MaxFrame
        BY <1>1, <1>2, <2>2, <2>3, ReplyEffect DEF AnswerTypes
    <2>5. /\ s \in Thread /\ s.at = "send" /\ s.decoder = d /\ s.phase = "requests"
          /\ s.id = server.issued + 1 /\ s.epoch = server.epoch
        BY <2>1, <2>2, <2>4 DEF Thr
    <2>6. Greets(t, s, f)
        BY <1>7, <2>1, <2>4, <2>5 DEF Greets, n
    <2>7. Replies(c, link[c], s)
        BY <2>4, <2>5, <2>6 DEF Replies, d, f
    <2>8. link' = [link EXCEPT ![c] = link[c]]
        BY <1>1, <1>7
    <2>9. SideStep(c, link[c], s)
        BY <1>1, <1>3, <2>1, <2>4, <2>7, <2>8 DEF SideStep
    <2> QED BY <2>9
<1> QED BY <1>5, <1>6, <1>7 DEF Greet, f, r

LEMMA DispatchEffect ==
    ASSUME TypeInv, NEW c \in Conns, session[c].at = "pop", has_frame(session[c].decoder),
           session[c].phase = "requests",
           Dispatch(c, FirstFrame(session[c].decoder), Popped(c)),
           UNCHANGED <<budget, client, told>>
    PROVE  \E lk, s : SideStep(c, lk, s)
<1> DEFINE t == session[c]
           f == FirstFrame(t.decoder)
           d == popped(t.decoder)
           r == Popped(c)
<1>1. /\ link[c] \in Link /\ server \in Servers /\ t \in Thread /\ Bounded(t.decoder)
      /\ link \in [Conns -> Link] /\ session \in [Conns -> Thread]
    BY TypeParts
<1>2. f \in Frame /\ d \in Decoder /\ f.req \in Nat
    <2>1. f \in Frame /\ d \in Decoder
        BY <1>1, PopFacts DEF Bounded
    <2> QED BY <2>1 DEF Frame
<1>3. /\ "conns" \in DOMAIN budget' /\ budget'.conns = budget.conns
      /\ server' = server /\ link' = [link EXCEPT ![c] = link[c]]
    BY <1>1 DEF TypeInv, BudgetOK, Dispatch
<1> HIDE DEF d, f
<1>4. Thr(r, t, "pop", d)
    BY <1>1, <1>2 DEF Popped, Thr, Thread, d
<1> HIDE DEF r
<1> DEFINE used == [r EXCEPT !.last = f.req]
<1>5. /\ used \in Thread /\ used.last = f.req /\ used.decoder = d /\ used.phase = t.phase
      /\ used.id = t.id /\ used.epoch = t.epoch
    BY <1>2, <1>4 DEF Thr, Thread
<1>6. Admissible(r, f) => Admissible(t, f)
    BY <1>4 DEF Admissible, Thr
<1> HIDE DEF used
<1>7. ASSUME NEW q \in Thread, NEW type \in AnswerTypes,
             NEW then \in {"recv", "pop", "done", "stop"}, Reply(c, q, f, type, then),
             q.decoder = d, q.phase = t.phase, q.id = t.id, q.epoch = t.epoch,
             \/ q = r /\ then = "done" /\ type = "error" /\ UNCHANGED applied
             \/ /\ q = used /\ Admissible(r, f)
                /\ \/ type = "error" /\ UNCHANGED applied
                   \/ f.type # "hello" /\ applied' = Append(applied, Entry(c, f))
      PROVE  \E lk, s : SideStep(c, lk, s)
    <2>1. PICK s : /\ session' = [session EXCEPT ![c] = s]
                   /\ Thr(s, q, "send", q.decoder)
                   /\ s.then = then /\ s.reply.type = type
                   /\ s.reply.seq = f.seq /\ s.reply.call = f.call
                   /\ s.reply.size < MaxFrame
        BY <1>1, <1>2, <1>7, ReplyEffect
    <2>2. /\ s \in Thread /\ s.at = "send" /\ s.decoder = d /\ s.phase = "requests"
          /\ s.id = t.id /\ s.epoch = t.epoch /\ s.last = q.last
        BY <1>7, <2>1 DEF Thr
    <2>3. q = r => q.last = t.last
        BY <1>4 DEF Thr
    <2>4. Dispatches(c, t, s, f)
        BY <1>3, <1>5, <1>6, <1>7, <2>1, <2>2, <2>3 DEF Dispatches
    <2>5. Replies(c, link[c], s)
        BY <2>1, <2>2, <2>4 DEF Replies, d, f
    <2>6. SideStep(c, link[c], s)
        BY <1>1, <1>3, <2>1, <2>5 DEF SideStep
    <2> QED BY <2>6
<1>8. /\ r \in Thread /\ r.decoder = d /\ r.phase = t.phase /\ r.id = t.id
      /\ r.epoch = t.epoch
    BY <1>4 DEF Thr
<1>9. \/ Reply(c, r, f, "error", "done") /\ UNCHANGED applied
      \/ /\ Admissible(r, f)
         /\ \/ Reply(c, used, f, "error", "pop") /\ UNCHANGED applied
            \/ /\ f.type # "hello" /\ applied' = Append(applied, Entry(c, f))
               /\ \/ Reply(c, used, f, "ok", "pop") \/ Reply(c, used, f, "error", "pop")
                  \/ Reply(c, used, f, "bye", "stop")
    BY DEF Dispatch, Entry, used, r, f
<1>10. {"error", "ok", "bye"} \subseteq AnswerTypes
    BY DEF AnswerTypes
<1>11. CASE Reply(c, r, f, "error", "done") /\ UNCHANGED applied
    BY <1>7, <1>8, <1>10, <1>11
<1>12. CASE Admissible(r, f) /\ Reply(c, used, f, "error", "pop") /\ UNCHANGED applied
    BY <1>5, <1>7, <1>10, <1>12
<1>13. CASE /\ Admissible(r, f) /\ f.type # "hello"
            /\ applied' = Append(applied, Entry(c, f))
            /\ \/ Reply(c, used, f, "ok", "pop") \/ Reply(c, used, f, "error", "pop")
               \/ Reply(c, used, f, "bye", "stop")
    BY <1>5, <1>7, <1>10, <1>13
<1> QED BY <1>9, <1>11, <1>12, <1>13

LEMMA PopEffect ==
    ASSUME TypeInv, NEW c \in Conns, SessionPop(c)
    PROVE  \E lk, s : SideStep(c, lk, s)
<1> DEFINE d == session[c].decoder
           dead == [session[c] EXCEPT !.decoder = pop_failed(d)]
<1>1. session[c].at = "pop" /\ UNCHANGED <<budget, client, told>>
    BY DEF SessionPop
<1>2. session[c] \in Thread /\ server \in Servers /\ link[c] \in Link
    BY TypeParts
<1>3. dead \in Thread /\ Thr(dead, session[c], "pop", Failed)
    <2>1. pop_failed(d) = Failed /\ Failed \in Decoder
        BY DecoderFacts DEF Bounded
    <2> QED BY <1>1, <1>2, <2>1 DEF Thr, Thread
<1>4. \/ Loop(c, session[c]) /\ UNCHANGED <<server, applied>>
      \/ /\ has_frame(d) /\ Popped(c).phase = "hello"
         /\ Greet(c, FirstFrame(d), Popped(c)) /\ UNCHANGED applied
      \/ /\ has_frame(d) /\ Popped(c).phase = "requests"
         /\ Dispatch(c, FirstFrame(d), Popped(c))
      \/ ~has_frame(d) /\ ~Incomplete(d) /\ Loop(c, dead) /\ UNCHANGED <<server, applied>>
      \/ Leave(c, link[c]) /\ UNCHANGED <<server, applied>>
    BY DEF SessionPop, Popped
<1>5. Popped(c).phase = session[c].phase
    BY <1>2 DEF Popped, Thread
<1>6. CASE Leave(c, link[c]) /\ UNCHANGED <<server, applied>>
    <2>1. Lnk(link[c], link[c], link[c].up, link[c].down, link[c].far)
        BY <1>2, SameLink
    <2>2. Trailing(c, link[c].down)
        BY DEF Trailing
    <2>3. "conns" \in DOMAIN budget' /\ budget'.conns = budget.conns
        BY <1>1 DEF TypeInv, BudgetOK
    <2> QED BY <1>1, <1>2, <1>6, <2>1, <2>2, <2>3, LeaveEffect
<1> HIDE DEF dead
<1> QED BY <1>1, <1>2, <1>3, <1>4, <1>5, <1>6, LoopEffect, GreetEffect, DispatchEffect

\* Every step on the server's side of a connection is one of six.
LEMMA SideEffects ==
    ASSUME TypeInv, NEW c \in Conns,
           Accept(c) \/ SessionThread(c) \/ SessionRecvFails(c) \/ SessionSendFails(c)
    PROVE  \E lk, s : SideStep(c, lk, s)
BY AcceptEffect, RecvEffect, EofEffect, PopEffect, SendEffect DEF SessionThread


\* Such a step touches a connection in use, and keeps every type.
LEMMA SideTyped ==
    ASSUME TypeInv, NEW c \in Conns, NEW lk, NEW s, SideStep(c, lk, s)
    PROVE  /\ Turns(c, lk, s) /\ ~Unused(c)
           /\ link'[c] = lk /\ session'[c] = s
           /\ \A d \in Conns : d # c => link'[d] = link[d] /\ session'[d] = session[d]
           /\ \A d \in Conns : d \in 1 .. MaxConns => (d = c => d <= client.conn)
<1> DEFINE t == session[c]
           l == link[c]
<1>1. /\ l \in Link /\ server \in Servers /\ t \in Thread /\ Bounded(t.decoder)
      /\ link \in [Conns -> Link] /\ session \in [Conns -> Thread]
      /\ applied \in Seq(Entries) /\ MaxConns \in Nat /\ client.conn \in 0 .. MaxConns
    BY TypeParts
<1>2. Serves(t, server)
    BY DEF TypeInv
<1>3. /\ link' = [link EXCEPT ![c] = lk] /\ session' = [session EXCEPT ![c] = s]
      /\ UNCHANGED <<client, told>>
      /\ server' \in Servers /\ server'.up = server.up /\ server'.epoch = server.epoch
      /\ "conns" \in DOMAIN budget' /\ budget'.conns = budget.conns
    BY DEF SideStep
<1>4. ~Unused(c)
    <2>1. Unused(c) => ~l.far /\ t.at = "none"
        BY DEF Unused, NoLink, NoThread
    <2> QED BY <2>1 DEF SideStep, Accepts, Receives, Loops, Leaves, Sends, Replies
<1>5. lk \in Link
    BY <1>1 DEF SideStep, Accepts, Receives, Loops, Leaves, Sends, Replies, Lnk
<1>6. s \in Thread
    BY DEF SideStep, Accepts, Receives, Loops, Leaves, Sends, Replies, Thr
<1>7. Bounded(s.decoder)
    <2>1. CASE Receives(c, lk, s)
        <3>1. PICK n \in 1 .. Len(l.up) : s.decoder = feed(t.decoder, SubSeq(l.up, 1, n))
            BY <2>1 DEF Receives, Thr
        <3>2. l.up \in Seq(Unit)
            BY <1>1 DEF Link
        <3>3. 1 \in Nat \ {0} /\ n \in 0 .. Len(l.up)
            BY <3>1, <3>2
        <3>4. SubSeq(l.up, 1, n) \in Seq(Unit)
            BY <3>2, <3>3, InSubSeq
        <3> QED BY <1>1, <3>1, <3>4, FeedFacts
    <2>2. CASE Replies(c, lk, s)
        <3>1. has_frame(t.decoder) /\ s.decoder = popped(t.decoder)
            BY <2>2 DEF Replies
        <3> QED BY <1>1, <3>1, PopFacts
    <2>3. CASE Accepts(c, lk, s) \/ Loops(c, lk, s) \/ Leaves(c, lk, s) \/ Sends(c, lk, s)
        <3>1. s.decoder \in {t.decoder, Failed, Fresh}
            BY <2>3 DEF Accepts, Loops, Leaves, Sends, Thr
        <3> QED BY <1>1, <3>1, DecoderFacts
    <2> QED BY <2>1, <2>2, <2>3 DEF SideStep
<1>8. Serves(s, server')
    <2>1. CASE Replies(c, lk, s)
        <3>1. /\ s.at = "send" /\ t.at = "pop" /\ server'.epoch = server.epoch
              /\ s.phase = "requests" => \/ s.epoch = server.epoch
                                         \/ t.phase = "requests" /\ s.epoch = t.epoch
            BY <1>3, <2>1 DEF Replies, Greets, Dispatches
        <3> QED BY <1>2, <1>3, <3>1 DEF Serves
    <2>2. CASE Accepts(c, lk, s)
        <3>1. /\ s.at = "recv" /\ t.at = "none" /\ server.up /\ s.phase = t.phase
              /\ s.epoch = t.epoch
            BY <2>2 DEF Accepts, Thr
        <3> QED BY <1>2, <1>3, <3>1 DEF Serves
    <2>3. CASE Receives(c, lk, s) \/ Loops(c, lk, s) \/ Sends(c, lk, s)
        <3>1. /\ t.at \notin {"none", "done"} /\ s.at \in {"pop", "recv"}
              /\ s.phase = t.phase /\ s.epoch = t.epoch
            BY <2>3 DEF Receives, Loops, Sends, Thr
        <3> QED BY <1>2, <1>3, <3>1 DEF Serves
    <2>4. CASE Leaves(c, lk, s)
        BY <2>4 DEF Leaves, Serves
    <2> QED BY <2>1, <2>2, <2>3, <2>4 DEF SideStep
<1>9. applied' \in Seq(Entries)
    <2>1. CASE UNCHANGED applied
        BY <1>1, <2>1
    <2>2. CASE ~UNCHANGED applied
        <3> DEFINE f == FirstFrame(t.decoder)
        <3>1. Replies(c, lk, s) /\ Dispatches(c, t, s, f) /\ has_frame(t.decoder)
            BY <2>2 DEF SideStep, Accepts, Receives, Loops, Leaves, Sends, Replies, Greets
        <3>2. f \in Frame
            BY <1>1, <3>1, PopFacts
        <3> HIDE DEF f
        <3>3. /\ Admissible(t, f) /\ applied' = Append(applied, Entry(c, f))
              /\ t.phase = "requests"
            BY <2>2, <3>1 DEF Dispatches
        <3>4. f.epoch \in 1 .. MaxEpoch
            BY <1>1, <1>2, <3>3 DEF Admissible, Serves, Servers
        <3>5. Entry(c, f) \in Entries
            BY <3>2, <3>4 DEF Entry, Entries, Frame
        <3> QED BY <1>1, <3>3, <3>5
    <2> QED BY <2>1, <2>2
<1>10. Turns(c, lk, s)
    BY <1>3, <1>5, <1>6, <1>7, <1>8, <1>9 DEF Turns
<1>11. /\ link'[c] = lk /\ session'[c] = s
       /\ \A d \in Conns : d # c => link'[d] = link[d] /\ session'[d] = session[d]
    BY <1>1, <1>3
<1>12. c \in 1 .. MaxConns => c <= client.conn
    BY <1>1, <1>4 DEF TypeInv
<1> QED BY <1>4, <1>10, <1>11, <1>12

-----------------------------------------------------------------------------
(* What the steps of the client do. *)

\* The client k goes on as cl, elsewhere and with another decoder.
Cli(cl, k, at, d) ==
    /\ cl \in Client /\ cl.at = at /\ cl.decoder = d
    /\ cl.conn = k.conn /\ cl.seq = k.seq /\ cl.req = k.req /\ cl.call = k.call
    /\ cl.expect = k.expect

\* A new connection, with a hello on it or a part of one.
Connects(cl, lk) ==
    /\ client.at = "closed" /\ cl.conn = client.conn + 1 /\ cl.conn \in 1 .. MaxConns
    /\ lk \in Link /\ lk.down = <<>> /\ lk.far /\ lk.torn = 0 /\ lk.clean
    /\ \E n \in 0 .. Len(encode_frame(Blank)) :
         /\ lk.up = SubSeq(encode_frame(Blank), 1, n)
         /\ cl \in Client /\ cl.decoder = Fresh /\ cl.req = 0 /\ cl.call = 0
         /\ \/ n = Len(encode_frame(Blank)) /\ cl.at = "waiting" /\ cl.seq = 1
            \/ cl.at = "closed"
    /\ UNCHANGED told

\* A call, all of whose frame is sent.
Calls(cl, lk, f) ==
    /\ client.at = "idle"
    /\ f \in Frame /\ f.seq = client.seq + 1 /\ f.req = client.req + 1
    /\ f.call = Len(told) + 1 /\ f.size < MaxFrame
    /\ cl \in Client /\ cl.at = "waiting" /\ cl.conn = client.conn /\ cl.seq = client.seq + 1
    /\ cl.req = client.req + 1 /\ cl.call = Len(told) + 1 /\ cl.decoder = client.decoder
    /\ cl.expect \in {"ok", "bye"}
    /\ LET l == link[client.conn]
       IN  Lnk(lk, l, IF l.far THEN l.up \o encode_frame(f) ELSE l.up, l.down, l.far)
    /\ told' = Append(told, [outcome |-> "open", by |-> 0])

\* A call whose frame is cut off.
Cuts(cl, lk, f) ==
    /\ client.at = "idle"
    /\ f \in Frame /\ f.req = client.req + 1 /\ f.call = Len(told) + 1
    /\ cl \in Client /\ cl.at = "idle" /\ cl.conn = client.conn /\ cl.seq = client.seq
    /\ cl.req = client.req + 1 /\ cl.call = client.call /\ cl.decoder = client.decoder
    /\ \E n \in 0 .. f.size :
         LET l == link[client.conn]
         IN  /\ lk \in Link /\ lk.down = l.down /\ lk.far = l.far /\ ~lk.clean
             /\ lk.up = IF l.far THEN l.up \o SubSeq(encode_frame(f), 1, n) ELSE l.up
             /\ lk.torn = IF l.torn = 0 /\ n > 0 THEN f.call ELSE l.torn
    /\ told' = Append(told, [outcome |-> "failed", by |-> 0])

\* A call that was not sent.
Refuses(cl, lk) ==
    /\ client.at = "idle" /\ cl = client /\ lk = link[client.conn]
    /\ told' = Append(told, [outcome |-> "failed", by |-> 0])

Reads(cl, lk) ==
    /\ client.at = "waiting"
    /\ LET l == link[client.conn]
       IN  \E n \in 1 .. Len(l.down) :
             /\ Cli(cl, client, "waiting", feed(client.decoder, SubSeq(l.down, 1, n)))
             /\ Lnk(lk, l, l.up, SubSeq(l.down, n + 1, Len(l.down)), l.far)
    /\ UNCHANGED told

\* The client hangs up, or loses its object.
HangsUp(cl, lk) ==
    /\ cl \in Client /\ cl.at = "closed" /\ cl.conn = client.conn /\ cl.decoder = Fresh
    /\ lk \in Link /\ lk.up = link[client.conn].up /\ lk.down = <<>>
    /\ lk.far = link[client.conn].far /\ lk.torn = link[client.conn].torn
    /\ lk.clean = link[client.conn].clean

\* A wait ends, and what the caller is told.
Tells(outcome, by) ==
    told' = [told EXCEPT ![client.call] = [outcome |-> outcome, by |-> by]]

Ends(cl, lk) ==
    \/ HangsUp(cl, lk) /\ client.at = "idle" /\ UNCHANGED told
    \/ HangsUp(cl, lk) /\ client.at = "waiting" /\ client.call = 0 /\ UNCHANGED told
    \/ /\ client.at = "waiting" /\ client.call = 0 /\ lk = link[client.conn]
       /\ has_frame(client.decoder)
       /\ Cli(cl, client, "idle", popped(client.decoder)) /\ UNCHANGED told
    \/ /\ client.at = "waiting" /\ client.call > 0
       /\ \/ Cli(cl, client, "idle", client.decoder)
          \/ Cli(cl, client, "idle", Failed)
          \/ has_frame(client.decoder) /\ Cli(cl, client, "idle", popped(client.decoder))
       /\ lk \in Link /\ lk.up = link[client.conn].up /\ lk.down = link[client.conn].down
       /\ lk.far = link[client.conn].far /\ lk.torn = link[client.conn].torn /\ ~lk.clean
       /\ Tells("failed", 0)
    \/ /\ client.at = "waiting" /\ client.call > 0 /\ has_frame(client.decoder)
       /\ LET f == FirstFrame(client.decoder)
          IN  /\ f.seq = client.seq
              /\ \/ f.type = client.expect /\ Tells("ok", f.call)
                 \/ f.type = "error" /\ Tells("refused", f.call)
                 \/ Tells("failed", f.call)
       /\ \/ HangsUp(cl, lk)
          \/ lk = link[client.conn] /\ Cli(cl, client, "idle", popped(client.decoder))

ClientStep(cl, lk) ==
    /\ client' = cl
    /\ link' = [link EXCEPT ![cl.conn] = lk]
    /\ UNCHANGED <<server, session, applied>>
    /\ "conns" \in DOMAIN budget' /\ budget'.conns = budget.conns
    /\ \/ Connects(cl, lk) \/ (\E f : Calls(cl, lk, f)) \/ (\E f : Cuts(cl, lk, f))
       \/ Refuses(cl, lk) \/ Reads(cl, lk) \/ Ends(cl, lk)


LEMMA NoClientType ==
    /\ NoClient \in Client /\ NoClient.decoder = Fresh /\ NoClient.at = "closed"
    /\ NoLink \in Link /\ NoThread \in Thread /\ Bounded(NoThread.decoder)
<1>1. Fresh \in Decoder /\ Bounded(Fresh) /\ Blank \in Frame
    BY DecoderFacts, BlankType DEF Bounded
<1>2. NoClient \in Client /\ NoClient.decoder = Fresh /\ NoClient.at = "closed"
    BY <1>1 DEF NoClient, Client, AnswerTypes
<1>3. NoLink \in Link
    <2>1. <<>> \in Seq(Unit)
        OBVIOUS
    <2> QED BY <2>1 DEF NoLink, Link
<1>4. NoThread \in Thread /\ Bounded(NoThread.decoder)
    BY <1>1 DEF NoThread, Thread
<1> QED BY <1>2, <1>3, <1>4

LEMMA ConnectEffect ==
    ASSUME TypeInv, Connect
    PROVE  \E cl, lk : ClientStep(cl, lk)
<1> DEFINE c == client.conn + 1
           hello == encode_frame(Blank)
<1>1. /\ client.at = "closed" /\ client.conn < budget.conns
      /\ UNCHANGED <<server, session, told, applied>>
    BY DEF Connect
<1>2. /\ link \in [Conns -> Link] /\ MaxConns \in Nat /\ client.conn \in 0 .. MaxConns
      /\ budget.conns \in 0 .. MaxConns
    BY TypeParts DEF TypeInv, BudgetOK
<1>3. c \in 1 .. MaxConns /\ c \in Nat
    BY <1>1, <1>2
<1>4. hello \in Seq(Unit) /\ Len(hello) \in Nat
    BY BlankType, EncodeFacts
<1>5. PICK n \in 0 .. Len(hello) :
        /\ Fault(n = Len(hello))
        /\ link' = [link EXCEPT ![c] =
             [NoLink EXCEPT !.up = SubSeq(hello, 1, n), !.far = TRUE, !.near = n = Len(hello)]]
        /\ client' = IF n = Len(hello)
                     THEN [NoClient EXCEPT !.at = "waiting", !.conn = c, !.seq = 1]
                     ELSE [NoClient EXCEPT !.conn = c]
    <2>1. Len(hello) \in 0 .. Len(hello)
        BY <1>4
    <2> QED BY <2>1 DEF Connect
<1> HIDE DEF hello, c
<1> DEFINE up == SubSeq(hello, 1, n)
           whole == n = Len(hello)
           lk == [NoLink EXCEPT !.up = up, !.far = TRUE, !.near = whole]
           cl == client'
<1>6. up \in Seq(Unit) /\ whole \in BOOLEAN
    BY <1>4, <1>5, InSubSeq
<1>7. link' = [link EXCEPT ![c] = lk]
    BY <1>5
<1>8. "conns" \in DOMAIN budget' /\ budget'.conns = budget.conns
    BY <1>5, FaultBudget DEF TypeInv
<1>9. /\ cl \in Client /\ cl.conn = c /\ cl.decoder = Fresh /\ cl.req = 0 /\ cl.call = 0
      /\ \/ whole /\ cl.at = "waiting" /\ cl.seq = 1
         \/ cl.at = "closed"
    <2>1. NoClient.req = 0 /\ NoClient.call = 0
        BY DEF NoClient
    <2>2. CASE whole
        <3>1. cl = [NoClient EXCEPT !.at = "waiting", !.conn = c, !.seq = 1]
            BY <1>5, <2>2
        <3> QED BY <1>3, <2>1, <2>2, <3>1, NoClientType DEF Client
    <2>3. CASE ~whole
        <3>1. cl = [NoClient EXCEPT !.conn = c]
            BY <1>5, <2>3
        <3> QED BY <1>3, <2>1, <3>1, NoClientType DEF Client
    <2> QED BY <2>2, <2>3
<1> HIDE DEF up, cl
<1>10. lk \in Link /\ lk.up = up /\ lk.down = <<>> /\ lk.far /\ lk.torn = 0 /\ lk.clean
    <2>1. /\ NoLink \in Link /\ NoLink.down = <<>> /\ NoLink.torn = 0 /\ NoLink.clean = TRUE
        BY NoClientType DEF NoLink
    <2> HIDE DEF whole
    <2>2. lk.far = TRUE /\ lk.clean = TRUE
        BY <2>1 DEF Link
    <2> QED BY <1>6, <2>1, <2>2 DEF Link
<1> HIDE DEF lk
<1>11. Connects(cl, lk)
    BY <1>1, <1>3, <1>5, <1>9, <1>10 DEF Connects, hello, up, c
<1>12. ClientStep(cl, lk)
    BY <1>1, <1>7, <1>8, <1>9, <1>11 DEF ClientStep, cl
<1> QED BY <1>12

LEMMA OpenClient ==
    ASSUME TypeInv, client.at # "closed"
    PROVE  /\ client.conn \in 1 .. MaxConns /\ client.conn \in Conns
           /\ link[client.conn] \in Link /\ client \in Client /\ Bounded(client.decoder)
<1>1. /\ MaxConns \in Nat /\ client.conn \in 0 .. MaxConns
      /\ \A c \in 1 .. MaxConns : c \in Conns
      /\ \A c \in Conns : link[c] \in Link
      /\ client \in Client /\ Bounded(client.decoder)
    BY TypeParts
<1>2. client.conn # 0
    BY DEF TypeInv
<1> QED BY <1>1, <1>2

LEMMA CallEffect ==
    ASSUME TypeInv, NEW type \in {"request", "shutdown"}, NEW size \in Sizes, Call(type, size)
    PROVE  \E cl, lk : ClientStep(cl, lk)
<1> DEFINE k == Len(told) + 1
           c == client.conn
           l == link[c]
           f == [type |-> type, seq |-> client.seq + 1, size |-> size,
                 session |-> client.session, epoch |-> client.epoch,
                 req |-> client.req + 1, call |-> k]
           e == encode_frame(f)
           expect == IF type = "shutdown" THEN "bye" ELSE "ok"
<1>1. client.at = "idle" /\ UNCHANGED <<server, session, applied>>
    BY DEF Call
<1>2. /\ client \in Client /\ c \in Conns /\ l \in Link /\ link \in [Conns -> Link]
      /\ told \in Seq(Outcomes) /\ Len(told) \in Nat /\ k \in Nat
    BY <1>1, TypeParts, OpenClient
<1>3. size \in Nat /\ size < MaxFrame
    <2>1. MaxFrame \in Nat /\ Sizes \subseteq 1 .. MaxFrame - 1
        BY FrameAssumption, SessionAssumption
    <2> QED BY <2>1
<1>4. /\ f \in Frame /\ f.seq = client.seq + 1 /\ f.req = client.req + 1 /\ f.call = k
      /\ f.size = size /\ f.size < MaxFrame
    <2>1. client.seq \in Nat /\ client.session \in Nat /\ client.epoch \in Nat /\ client.req \in Nat
        BY <1>2 DEF Client
    <2> HIDE DEF k
    <2> QED BY <1>2, <1>3, <2>1 DEF Frame, RequestTypes
<1>5. PICK n \in MaySend(c, e) :
        IF n = Len(e)
        THEN /\ link' = [link EXCEPT ![c] = Sent(c, e, n)]
             /\ client' = [client EXCEPT !.at = "waiting", !.req = @ + 1, !.seq = @ + 1,
                                         !.call = k, !.expect = expect]
             /\ told' = Append(told, [outcome |-> "open", by |-> 0])
             /\ UNCHANGED budget
        ELSE /\ Fault(~link[c].far)
             /\ link' = [link EXCEPT ![c] =
                  [Sent(c, e, n) EXCEPT
                     !.clean = FALSE,
                     !.torn = IF @ = 0 /\ n > 0 THEN k ELSE @]]
             /\ client' = [client EXCEPT !.req = @ + 1]
             /\ told' = Append(told, [outcome |-> "failed", by |-> 0])
    BY DEF Call
<1> HIDE DEF f, k
<1>6. e \in Seq(Unit) /\ Len(e) = size + 1
    BY <1>4, EncodeFacts
<1>7. n \in 0 .. Len(e)
    BY <1>3, <1>5, <1>6 DEF MaySend
<1> DEFINE part == SubSeq(e, 1, n)
           up == IF l.far THEN l.up \o part ELSE l.up
           sent == [l EXCEPT !.up = up]
<1>8. part \in Seq(Unit) /\ (n = Len(e) => part = e)
    BY <1>6, <1>7, InSubSeq, SubSeqFull
<1>9. Sent(c, e, n) = sent
    BY DEF Sent
<1>10. up \in Seq(Unit)
    <2> HIDE DEF part
    <2>1. l.up \in Seq(Unit)
        BY <1>2 DEF Link
    <2> QED BY <1>8, <2>1, InConcat
<1>11. CASE n = Len(e)
    <2> DEFINE rq == client.req + 1
               sq == client.seq + 1
               cl == [client EXCEPT !.at = "waiting", !.req = rq, !.seq = sq,
                                    !.call = k, !.expect = expect]
    <2>1. /\ link' = [link EXCEPT ![c] = sent] /\ client' = cl
          /\ told' = Append(told, [outcome |-> "open", by |-> 0]) /\ UNCHANGED budget
        BY <1>5, <1>9, <1>11
    <2>2. /\ cl \in Client /\ cl.at = "waiting" /\ cl.conn = c /\ cl.seq = client.seq + 1
          /\ cl.req = client.req + 1 /\ cl.call = k /\ cl.decoder = client.decoder
          /\ cl.expect = expect
        <3>1. expect \in AnswerTypes
            BY DEF AnswerTypes
        <3>2. rq \in Nat /\ sq \in Nat
            BY <1>2 DEF Client
        <3> HIDE DEF expect, rq, sq
        <3>3. /\ cl \in Client /\ cl.at = "waiting" /\ cl.conn = c /\ cl.seq = sq
              /\ cl.req = rq /\ cl.call = k /\ cl.decoder = client.decoder
              /\ cl.expect = expect
            BY <1>2, <3>1, <3>2 DEF Client
        <3> QED BY <3>3 DEF rq, sq
    <2>3. up = IF l.far THEN l.up \o e ELSE l.up
        BY <1>8, <1>11
    <2> HIDE DEF up, cl
    <2>4. Lnk(sent, l, up, l.down, l.far)
        BY <1>2, <1>10 DEF Lnk, Link
    <2> HIDE DEF sent
    <2>5. Calls(cl, sent, f)
        BY <1>1, <1>4, <2>1, <2>2, <2>3, <2>4 DEF Calls, k
    <2>6. "conns" \in DOMAIN budget' /\ budget'.conns = budget.conns
        BY <2>1 DEF TypeInv, BudgetOK
    <2>7. ClientStep(cl, sent)
        BY <1>1, <2>1, <2>2, <2>5, <2>6 DEF ClientStep
    <2> QED BY <2>7
<1>12. CASE n # Len(e)
    <2> DEFINE cl == [client EXCEPT !.req = @ + 1]
               torn == IF l.torn = 0 /\ n > 0 THEN k ELSE l.torn
               lk == [sent EXCEPT !.clean = FALSE, !.torn = torn]
    <2>1. /\ client' = cl /\ Fault(~link[c].far)
          /\ told' = Append(told, [outcome |-> "failed", by |-> 0])
        BY <1>5, <1>12
    <2>2. /\ cl \in Client /\ cl.at = "idle" /\ cl.conn = c /\ cl.seq = client.seq
          /\ cl.req = client.req + 1 /\ cl.call = client.call /\ cl.decoder = client.decoder
        BY <1>1, <1>2 DEF Client
    <2> HIDE DEF cl
    <2>t. torn \in Nat /\ l.torn \in Nat
        BY <1>2 DEF Link
    <2>s. sent \in Link /\ sent.torn = l.torn /\ sent.up = up /\ sent.down = l.down /\ sent.far = l.far
        <3> HIDE DEF up
        <3> QED BY <1>2, <1>10 DEF Link
    <2>3. link' = [link EXCEPT ![c] = lk]
        <3> HIDE DEF sent
        <3>1. link' = [link EXCEPT ![c] =
                  [sent EXCEPT !.clean = FALSE, !.torn = IF @ = 0 /\ n > 0 THEN k ELSE @]]
            BY <1>5, <1>9, <1>12
        <3>2. [sent EXCEPT !.clean = FALSE, !.torn = IF @ = 0 /\ n > 0 THEN k ELSE @] = lk
            BY <2>s DEF Link
        <3> QED BY <3>1, <3>2
    <2> HIDE DEF up, torn, sent
    <2>4. /\ lk \in Link /\ lk.down = l.down /\ lk.far = l.far /\ lk.up = up /\ lk.torn = torn
          /\ lk.clean = FALSE
        BY <2>t, <2>s DEF Link
    <2>5. n \in 0 .. f.size
        BY <1>3, <1>4, <1>6, <1>7, <1>12
    <2> HIDE DEF lk
    <2>6. Cuts(cl, lk, f)
        BY <1>1, <1>4, <2>1, <2>2, <2>4, <2>5 DEF Cuts, k, up, torn
    <2>7. "conns" \in DOMAIN budget' /\ budget'.conns = budget.conns
        BY <2>1, FaultBudget DEF TypeInv
    <2>8. ClientStep(cl, lk)
        BY <1>1, <2>1, <2>2, <2>3, <2>6, <2>7 DEF ClientStep
    <2> QED BY <2>8
<1> QED BY <1>11, <1>12


LEMMA TooLargeEffect ==
    ASSUME TypeInv, CallTooLarge
    PROVE  \E cl, lk : ClientStep(cl, lk)
<1> DEFINE lk == link[client.conn]
<1>1. client.at = "idle" /\ UNCHANGED <<budget, client, link, server, session, applied>>
      /\ told' = Append(told, [outcome |-> "failed", by |-> 0])
    BY DEF CallTooLarge
<1>2. link \in [Conns -> Link] /\ client.conn \in Conns
    BY <1>1, TypeParts, OpenClient
<1>3. link' = [link EXCEPT ![client.conn] = lk]
    BY <1>1, <1>2
<1>4. Refuses(client, lk)
    BY <1>1 DEF Refuses
<1>5. "conns" \in DOMAIN budget' /\ budget'.conns = budget.conns
    BY <1>1 DEF TypeInv, BudgetOK
<1>6. ClientStep(client, lk)
    BY <1>1, <1>3, <1>4, <1>5 DEF ClientStep
<1> QED BY <1>6

LEMMA ClientRecvEffect ==
    ASSUME TypeInv, ClientRecv
    PROVE  \E cl, lk : ClientStep(cl, lk)
<1> DEFINE c == client.conn
           l == link[c]
<1>1. client.at = "waiting" /\ UNCHANGED <<budget, server, session, told, applied>>
    BY DEF ClientRecv
<1>2. /\ client \in Client /\ Bounded(client.decoder) /\ c \in Conns /\ l \in Link
      /\ link \in [Conns -> Link]
    BY <1>1, TypeParts, OpenClient
<1>3. l.down \in Seq(Unit) /\ Chunk \in Nat
    BY <1>2, SessionAssumption DEF Link
<1>4. PICK n \in 1 .. Least(Chunk, Len(l.down)) :
        /\ client' = [client EXCEPT !.decoder = feed(@, SubSeq(l.down, 1, n))]
        /\ link' = [link EXCEPT ![c].down = SubSeq(@, n + 1, Len(@))]
    BY DEF ClientRecv
<1>5. n \in 1 .. Len(l.down) /\ Len(l.down) \in Nat
    BY <1>3 DEF Least
<1> DEFINE data == SubSeq(l.down, 1, n)
           rest == SubSeq(l.down, n + 1, Len(l.down))
           d == feed(client.decoder, data)
           cl == [client EXCEPT !.decoder = d]
           lk == [l EXCEPT !.down = rest]
<1>6. data \in Seq(Unit) /\ rest \in Seq(Unit)
    <2>1. /\ n + 1 \in Nat \ {0} /\ 1 \in Nat \ {0} /\ n \in 0 .. Len(l.down)
          /\ Len(l.down) \in 0 .. Len(l.down)
        BY <1>5
    <2> QED BY <1>3, <2>1, InSubSeq
<1>7. d \in Decoder
    BY <1>2, <1>6, FeedFacts DEF Bounded
<1>8. client' = cl /\ link' = [link EXCEPT ![c] = lk]
    BY <1>2, <1>4
<1> HIDE DEF data, rest, d
<1>9. Cli(cl, client, "waiting", d)
    BY <1>1, <1>2, <1>7 DEF Cli, Client
<1>10. Lnk(lk, l, l.up, rest, l.far)
    BY <1>2, <1>6 DEF Lnk, Link
<1> HIDE DEF cl, lk
<1>11. Reads(cl, lk)
    BY <1>1, <1>5, <1>9, <1>10 DEF Reads, d, data, rest
<1>12. "conns" \in DOMAIN budget' /\ budget'.conns = budget.conns
    BY <1>1 DEF TypeInv, BudgetOK
<1>13. cl.conn = c
    BY <1>9 DEF Cli
<1>14. ClientStep(cl, lk)
    BY <1>1, <1>8, <1>11, <1>12, <1>13 DEF ClientStep
<1> QED BY <1>14

\* The object goes, and its end of the connection with it.
LEMMA HangUpEffect ==
    ASSUME TypeInv, client.at # "closed", client' = Gone, Close
    PROVE  \E lk : /\ HangsUp(client', lk) /\ client'.conn = client.conn
                   /\ link' = [link EXCEPT ![client.conn] = lk]
<1> DEFINE none == <<>>
           l == link[client.conn]
           lk == [l EXCEPT !.near = FALSE, !.down = none]
           cl == [NoClient EXCEPT !.conn = client.conn]
<1>1. client.conn \in Conns /\ l \in Link /\ client.conn \in Nat
    BY OpenClient, TypeParts DEF TypeInv, Client
<1>2. link' = [link EXCEPT ![client.conn] = lk] /\ client' = cl
    BY DEF Close, Gone
<1>3. none \in Seq(Unit)
    OBVIOUS
<1> HIDE DEF none
<1>4. /\ lk \in Link /\ lk.up = l.up /\ lk.down = none /\ lk.far = l.far /\ lk.torn = l.torn
      /\ lk.clean = l.clean
    BY <1>1, <1>3 DEF Link
<1>5. cl \in Client /\ cl.at = "closed" /\ cl.conn = client.conn /\ cl.decoder = Fresh
    BY <1>1, NoClientType DEF Client
<1> HIDE DEF cl, lk
<1>6. HangsUp(cl, lk)
    BY <1>4, <1>5 DEF HangsUp, none
<1> QED BY <1>2, <1>5, <1>6

LEMMA IdleClient ==
    ASSUME client \in Client, NEW d \in Decoder, client.at = "waiting"
    PROVE  Cli([client EXCEPT !.at = "idle", !.decoder = d], client, "idle", d)
BY DEF Cli, Client

\* A step that ends a wait, or hangs up, is one of the client.
LEMMA EndStep ==
    ASSUME TypeInv, NEW lk, Ends(client', lk), client'.conn = client.conn,
           link' = [link EXCEPT ![client.conn] = lk],
           UNCHANGED <<server, session, applied>>,
           "conns" \in DOMAIN budget', budget'.conns = budget.conns
    PROVE  \E cl, lk2 : ClientStep(cl, lk2)
<1> DEFINE cl == client'
<1> HIDE DEF cl
<1>1. ClientStep(cl, lk)
    BY DEF ClientStep, cl
<1> QED BY <1>1

LEMMA FailsEffect ==
    ASSUME TypeInv, client.at = "waiting", NEW d \in Decoder,
           \/ d = client.decoder \/ d = Failed
           \/ has_frame(client.decoder) /\ d = popped(client.decoder),
           RoundTripFails(d), UNCHANGED <<server, session, applied>>,
           "conns" \in DOMAIN budget', budget'.conns = budget.conns
    PROVE  \E cl, lk : ClientStep(cl, lk)
<1> DEFINE c == client.conn
           l == link[c]
<1>1. /\ client \in Client /\ c \in Conns /\ l \in Link /\ link \in [Conns -> Link]
      /\ client.call \in Nat
    BY TypeParts, OpenClient DEF Client
<1>2. CASE client.call = 0
    <2>1. client' = Gone /\ Close /\ UNCHANGED told
        BY <1>2 DEF RoundTripFails
    <2>2. PICK lk : /\ HangsUp(client', lk) /\ client'.conn = client.conn
                    /\ link' = [link EXCEPT ![client.conn] = lk]
        BY <2>1, HangUpEffect
    <2>3. Ends(client', lk)
        BY <1>2, <2>1, <2>2 DEF Ends
    <2> QED BY <2>2, <2>3, EndStep
<1>3. CASE client.call # 0
    <2> DEFINE cl == [client EXCEPT !.at = "idle", !.decoder = d]
               lk == [l EXCEPT !.clean = FALSE]
    <2>1. client' = cl /\ link' = [link EXCEPT ![c] = lk] /\ Tells("failed", 0)
        BY <1>1, <1>3 DEF RoundTripFails, Return, Tells
    <2>2. Cli(cl, client, "idle", d)
        BY <1>1, IdleClient
    <2>3. /\ lk \in Link /\ lk.up = l.up /\ lk.down = l.down /\ lk.far = l.far /\ lk.torn = l.torn
          /\ lk.clean = FALSE
        BY <1>1 DEF Link
    <2> HIDE DEF cl, lk
    <2>4. client.call > 0 /\ cl.conn = c
        BY <1>1, <1>3, <2>2 DEF Cli
    <2>5. Ends(cl, lk)
        BY <2>1, <2>2, <2>3, <2>4 DEF Ends
    <2> QED BY <2>1, <2>4, <2>5, EndStep
<1> QED BY <1>2, <1>3

LEMMA AnswerEffect ==
    ASSUME TypeInv, client.at = "waiting", has_frame(client.decoder),
           FirstFrame(client.decoder).seq = client.seq,
           Answer(FirstFrame(client.decoder), popped(client.decoder)),
           UNCHANGED <<server, session, applied>>,
           "conns" \in DOMAIN budget', budget'.conns = budget.conns
    PROVE  \E cl, lk : ClientStep(cl, lk)
<1> DEFINE c == client.conn
           l == link[c]
           f == FirstFrame(client.decoder)
           d == popped(client.decoder)
<1>1. /\ client \in Client /\ c \in Conns /\ l \in Link /\ link \in [Conns -> Link]
      /\ Bounded(client.decoder) /\ client.call \in Nat
    BY TypeParts, OpenClient DEF Client
<1>2. f \in Frame /\ d \in Decoder
    BY <1>1, PopFacts DEF Bounded
<1> HIDE DEF f, d
<1>3. CASE client' = Gone /\ Close
    <2>1. PICK lk : /\ HangsUp(client', lk) /\ client'.conn = client.conn
                    /\ link' = [link EXCEPT ![client.conn] = lk]
        BY <1>3, HangUpEffect
    <2>2. \/ client.call = 0 /\ UNCHANGED told
          \/ /\ client.call > 0
             /\ \/ f.type = client.expect /\ Tells("ok", f.call)
                \/ f.type = "error" /\ Tells("refused", f.call)
                \/ Tells("failed", f.call)
        BY DEF Answer, Return, Tells, f
    <2>3. Ends(client', lk)
        BY <2>1, <2>2 DEF Ends, f
    <2> QED BY <2>1, <2>3, EndStep
<1>4. CASE ~(client' = Gone /\ Close)
    <2>1. UNCHANGED link
        BY <1>4 DEF Answer
    <2>2. link' = [link EXCEPT ![c] = l]
        BY <1>1, <2>1
    <2>3. CASE client.call = 0
        <3>1. /\ UNCHANGED told
              /\ client' = [client EXCEPT !.at = "idle", !.decoder = d,
                                          !.session = f.session, !.epoch = f.epoch]
            BY <1>4, <2>3 DEF Answer, f, d
        <3>2. f.session \in Nat /\ f.epoch \in Nat
            BY <1>2 DEF Frame
        <3> DEFINE cl == [client EXCEPT !.at = "idle", !.decoder = d,
                                        !.session = f.session, !.epoch = f.epoch]
        <3>3. Cli(cl, client, "idle", d)
            BY <1>1, <1>2, <3>2 DEF Cli, Client
        <3>4. client' = cl
            BY <3>1
        <3> HIDE DEF cl
        <3>5. Ends(cl, l) /\ cl.conn = c
            BY <2>3, <3>1, <3>3 DEF Ends, Cli, d
        <3> QED BY <2>2, <3>4, <3>5, EndStep
    <2>4. CASE client.call # 0
        <3> DEFINE cl == [client EXCEPT !.at = "idle", !.decoder = d]
        <3>1. client' = cl
            BY <1>4, <2>4 DEF Answer, d
        <3>2. \/ f.type = client.expect /\ Tells("ok", f.call)
              \/ f.type = "error" /\ Tells("refused", f.call)
              \/ Tells("failed", f.call)
            BY <2>4 DEF Answer, Return, Tells, f
        <3>3. Cli(cl, client, "idle", d)
            BY <1>1, <1>2, IdleClient
        <3>4. client.call > 0
            BY <1>1, <2>4
        <3> HIDE DEF cl
        <3>5. Ends(cl, l) /\ cl.conn = c
            BY <3>2, <3>3, <3>4 DEF Ends, Cli, d, f
        <3> QED BY <2>2, <3>1, <3>5, EndStep
    <2> QED BY <2>3, <2>4
<1> QED BY <1>3, <1>4

\* Every step of the client is one of six.
LEMMA ClientEffects ==
    ASSUME TypeInv,
           \/ Connect \/ ClientThread \/ ClientRecvFails \/ Drop \/ CallTooLarge
           \/ \E size \in Sizes : Call("request", size)
           \/ Call("shutdown", 1)
    PROVE  \E cl, lk : ClientStep(cl, lk)
<1> DEFINE d == client.decoder
<1>1. Bounded(d) /\ d \in Decoder /\ Failed \in Decoder
    BY TypeParts, DecoderFacts DEF Bounded
<1>2. CASE ClientPop
    <2>1. client.at = "waiting" /\ UNCHANGED <<budget, server, session, applied>>
        BY <1>2 DEF ClientPop
    <2>2. "conns" \in DOMAIN budget' /\ budget'.conns = budget.conns
        BY <2>1 DEF TypeInv, BudgetOK
    <2>3. has_frame(d) => popped(d) \in Decoder
        BY <1>1, PopFacts DEF Bounded
    <2>4. \/ has_frame(d) /\ FirstFrame(d).seq = client.seq /\ Answer(FirstFrame(d), popped(d))
          \/ has_frame(d) /\ RoundTripFails(popped(d))
          \/ RoundTripFails(Failed)
        BY <1>2, DecoderFacts DEF ClientPop
    <2> QED BY <1>1, <2>1, <2>2, <2>3, <2>4, AnswerEffect, FailsEffect
<1>3. CASE ClientEof \/ ClientRecvFails
    <2>1. /\ client.at = "waiting" /\ RoundTripFails(d)
          /\ UNCHANGED <<server, session, applied>>
        BY <1>3 DEF ClientEof, ClientRecvFails
    <2>2. "conns" \in DOMAIN budget' /\ budget'.conns = budget.conns
        BY <1>3, FaultBudget DEF TypeInv, ClientEof, ClientRecvFails, BudgetOK
    <2> QED BY <1>1, <2>1, <2>2, FailsEffect
<1>4. CASE Drop
    <2>1. /\ client.at = "idle" /\ client' = Gone /\ Close
          /\ UNCHANGED <<budget, server, session, told, applied>>
        BY <1>4 DEF Drop
    <2>2. PICK lk : /\ HangsUp(client', lk) /\ client'.conn = client.conn
                    /\ link' = [link EXCEPT ![client.conn] = lk]
        BY <2>1, HangUpEffect
    <2>3. Ends(client', lk)
        BY <2>1, <2>2 DEF Ends
    <2>4. "conns" \in DOMAIN budget' /\ budget'.conns = budget.conns
        BY <2>1 DEF TypeInv, BudgetOK
    <2> QED BY <2>1, <2>2, <2>3, <2>4, EndStep
<1>5. CASE \/ \E size \in Sizes : Call("request", size)
           \/ Call("shutdown", 1)
    BY <1>5, SessionAssumption, CallEffect
<1> QED BY <1>2, <1>3, <1>4, <1>5, ConnectEffect, ClientRecvEffect, TooLargeEffect DEF ClientThread


LEMMA ClientTyped ==
    ASSUME TypeInv, NEW cl, NEW lk, ClientStep(cl, lk)
    PROVE  /\ ClientTurns(cl.conn, cl, lk) /\ cl.conn \in 1 .. MaxConns
           /\ cl.conn >= client.conn
           /\ link'[cl.conn] = lk
           /\ \A d \in Conns : d # cl.conn => link'[d] = link[d]
<1> DEFINE k == client.conn
           l == link[k]
<1>1. /\ client \in Client /\ Bounded(client.decoder) /\ link \in [Conns -> Link]
      /\ told \in Seq(Outcomes) /\ MaxConns \in Nat /\ k \in 0 .. MaxConns
      /\ \A c \in 1 .. MaxConns : c \in Conns
    BY TypeParts
<1>2. /\ client' = cl /\ link' = [link EXCEPT ![cl.conn] = lk]
      /\ UNCHANGED <<server, session, applied>>
      /\ "conns" \in DOMAIN budget' /\ budget'.conns = budget.conns
    BY DEF ClientStep
<1>3. [outcome |-> "open", by |-> 0] \in Outcomes /\ [outcome |-> "failed", by |-> 0] \in Outcomes
    BY DEF Outcomes
<1>4. CASE Connects(cl, lk)
    <2>1. cl.conn \in 1 .. MaxConns /\ cl.conn >= k
        BY <1>1, <1>4 DEF Connects
    <2>2. cl \in Client /\ Bounded(cl.decoder) /\ lk \in Link /\ told' = told
        BY <1>4, DecoderFacts DEF Connects
    <2> QED BY <1>1, <1>2, <2>1, <2>2 DEF ClientTurns
<1>5. CASE ~Connects(cl, lk)
    <2>1. client.at # "closed"
        BY <1>2, <1>5 DEF ClientStep, Calls, Cuts, Refuses, Reads, Ends
    <2>2. k \in 1 .. MaxConns /\ l \in Link
        BY <2>1, OpenClient
    <2>3. cl.conn = k
        BY <1>5 DEF ClientStep, Calls, Cuts, Refuses, Reads, Ends, HangsUp, Cli
    <2>4. cl \in Client /\ lk \in Link
        BY <1>1, <1>5, <2>2 DEF ClientStep, Calls, Cuts, Refuses, Reads, Ends, HangsUp, Cli, Lnk
    <2>5. Bounded(cl.decoder)
        <3>1. CASE Reads(cl, lk)
            <4>1. PICK n \in 1 .. Len(l.down) : cl.decoder = feed(client.decoder, SubSeq(l.down, 1, n))
                BY <3>1 DEF Reads, Cli
            <4>2. l.down \in Seq(Unit)
                BY <2>2 DEF Link
            <4>3. 1 \in Nat \ {0} /\ n \in 0 .. Len(l.down)
                BY <4>1, <4>2
            <4>4. SubSeq(l.down, 1, n) \in Seq(Unit)
                BY <4>2, <4>3, InSubSeq
            <4> QED BY <1>1, <4>1, <4>4, FeedFacts
        <3>2. CASE ~Reads(cl, lk)
            <4>1. \/ cl.decoder \in {client.decoder, Fresh, Failed}
                  \/ has_frame(client.decoder) /\ cl.decoder = popped(client.decoder)
                BY <1>5, <3>2 DEF ClientStep, Calls, Cuts, Refuses, Ends, HangsUp, Cli
            <4> QED BY <1>1, <4>1, DecoderFacts, PopFacts
        <3> QED BY <3>1, <3>2
    <2>6. told' \in Seq(Outcomes)
        <3>1. CASE Ends(cl, lk)
            <4>1. \/ told' = told
                  \/ \E outcome \in {"ok", "refused", "failed"}, by \in Nat : Tells(outcome, by)
                <5>1. has_frame(client.decoder) => FirstFrame(client.decoder).call \in Nat
                    <6>1. has_frame(client.decoder) => FirstFrame(client.decoder) \in Frame
                        BY <1>1, PopFacts
                    <6> QED BY <6>1 DEF Frame
                <5>2. 0 \in Nat
                    OBVIOUS
                <5> QED BY <3>1, <5>1, <5>2 DEF Ends
            <4>2. ASSUME NEW outcome \in {"ok", "refused", "failed"}, NEW by \in Nat,
                         Tells(outcome, by)
                  PROVE  told' \in Seq(Outcomes)
                <5> DEFINE e == [outcome |-> outcome, by |-> by]
                <5>1. e \in Outcomes /\ told' = [told EXCEPT ![client.call] = e]
                    BY <4>2 DEF Outcomes, Tells
                <5> HIDE DEF e
                <5>2. CASE client.call \in 1 .. Len(told)
                    BY <1>1, <5>1, <5>2, ExceptSeq
                <5>3. CASE client.call \notin 1 .. Len(told)
                    <6>1. told' = told
                        BY <1>1, <5>1, <5>3
                    <6> QED BY <1>1, <6>1
                <5> QED BY <5>2, <5>3
            <4> QED BY <1>1, <4>1, <4>2
        <3>2. CASE ~Ends(cl, lk)
            <4> DEFINE a == [outcome |-> "open", by |-> 0]
                       b == [outcome |-> "failed", by |-> 0]
            <4>1. told' = told \/ told' = Append(told, a) \/ told' = Append(told, b)
                BY <1>5, <3>2 DEF ClientStep, Calls, Cuts, Refuses, Reads
            <4> HIDE DEF a, b
            <4>2. a \in Outcomes /\ b \in Outcomes
                BY <1>3 DEF a, b
            <4> QED BY SMTT(30), <1>1, <4>1, <4>2
        <3> QED BY <3>1, <3>2
    <2>7. k >= k
        BY <1>1
    <2> QED BY <1>1, <1>2, <2>2, <2>3, <2>4, <2>5, <2>6, <2>7 DEF ClientTurns
<1> QED BY <1>4, <1>5

-----------------------------------------------------------------------------
(* Other peers, and the server's process. *)

\* What another peer sends belongs to no call.
RawStep(c, lk) ==
    /\ link' = [link EXCEPT ![c] = lk] /\ lk \in Link
    /\ lk.torn = link[c].torn /\ (link[c].far => lk.far) /\ lk.down = link[c].down
    /\ \A u \in In(lk.up) : u \in In(link[c].up) \/ u.frame.call = 0
    /\ UNCHANGED <<client, server, session, told, applied>>
    /\ "conns" \in DOMAIN budget' /\ budget'.conns = budget.conns

LEMMA RawEffect ==
    ASSUME TypeInv, NEW c \in RawConns, RawConnect(c) \/ RawSend(c) \/ RawClose(c)
    PROVE  \E lk : RawStep(c, lk)
<1> DEFINE l == link[c]
<1>1. c \in Conns /\ l \in Link /\ link \in [Conns -> Link]
    BY TypeParts DEF Conns
<1>2. /\ UNCHANGED <<client, server, session, told, applied>>
      /\ "conns" \in DOMAIN budget' /\ budget'.conns = budget.conns
    BY DEF RawConnect, RawSend, RawClose, TypeInv, BudgetOK
<1>3. CASE RawConnect(c)
    <2> DEFINE lk == [NoLink EXCEPT !.near = TRUE, !.far = TRUE]
    <2>1. /\ lk \in Link /\ lk.torn = NoLink.torn /\ lk.far = TRUE /\ lk.down = NoLink.down
          /\ lk.up = NoLink.up
        BY NoClientType DEF Link
    <2>2. l = NoLink /\ link' = [link EXCEPT ![c] = lk]
        BY <1>3 DEF RawConnect
    <2> HIDE DEF lk
    <2>3. RawStep(c, lk)
        BY <1>2, <2>1, <2>2 DEF RawStep
    <2> QED BY <2>3
<1>4. CASE RawSend(c)
    <2>1. PICK units \in {encode_frame(f) : f \in RawFrames} \cup {Noise} :
              link' = [link EXCEPT ![c].up = @ \o units]
        BY <1>4 DEF RawSend
    <2>2. units \in Seq(Unit) /\ \A u \in In(units) : u.frame.call = 0
        <3>1. \A f \in RawFrames : f \in Frame /\ f.call = 0
            <4> DEFINE okay == [Blank EXCEPT !.type = "ok"]
            <4>1. /\ okay \in Frame /\ okay.call = Blank.call /\ Blank.call = 0
                BY BlankType DEF Frame, AnswerTypes, Blank
            <4>2. MaxEpoch \in Nat /\ MaxRequests \in Nat
                BY SessionAssumption
            <4> DEFINE others == [type : {"request"}, seq : {1}, size : {1}, session : 1 .. 2,
                                  epoch : 1 .. MaxEpoch, req : {0, 1, MaxRequests + 1}, call : {0}]
            <4>3. \A f \in others : f \in Frame /\ f.call = 0
                BY <4>2 DEF Frame, RequestTypes
            <4>4. RawFrames = {Blank, okay} \cup others
                BY DEF RawFrames
            <4> HIDE DEF others, okay
            <4> QED BY <4>1, <4>3, <4>4, BlankType
        <3>2. Noise \in Seq(Unit) /\ \A u \in In(Noise) : u.frame.call = 0
            <4> DEFINE u == [frame |-> Blank, part |-> 1]
            <4>1. u \in Unit /\ u.frame.call = 0
                BY BlankType DEF Unit, Blank
            <4> HIDE DEF u
            <4>2. <<u>> \in Seq(Unit) /\ Len(<<u>>) = 1 /\ <<u>>[1] = u
                BY <4>1
            <4>3. \A v \in In(<<u>>) : v.frame.call = 0
                BY <4>1, <4>2 DEF In
            <4> QED BY <4>2, <4>3 DEF Noise, u
        <3>3. CASE units = Noise
            BY <3>2, <3>3
        <3>4. CASE units # Noise
            <4>1. PICK f \in RawFrames : units = encode_frame(f)
                BY <2>1, <3>4
            <4> QED BY <3>1, <4>1, EncodeFacts
        <3> QED BY <3>3, <3>4
    <2> DEFINE up == l.up \o units
               lk == [l EXCEPT !.up = up]
    <2>3. up \in Seq(Unit) /\ \A u \in In(up) : u \in In(l.up) \/ u.frame.call = 0
        <3>1. l.up \in Seq(Unit)
            BY <1>1 DEF Link
        <3>2. up \in Seq(Unit) /\ In(up) = In(l.up) \cup In(units)
            BY <2>2, <3>1, InConcat
        <3> HIDE DEF up
        <3> QED BY <2>2, <3>2
    <2>4. link' = [link EXCEPT ![c] = lk]
        BY <1>1, <2>1
    <2> HIDE DEF up
    <2>5. lk \in Link /\ lk.torn = l.torn /\ lk.far = l.far /\ lk.down = l.down /\ lk.up = up
        BY <1>1, <2>3 DEF Link
    <2> HIDE DEF lk
    <2>6. RawStep(c, lk)
        BY <1>2, <2>3, <2>4, <2>5 DEF RawStep
    <2> QED BY <2>6
<1>5. CASE RawClose(c)
    <2> DEFINE lk == [l EXCEPT !.near = FALSE]
    <2>1. link' = [link EXCEPT ![c] = lk]
        BY <1>1, <1>5 DEF RawClose
    <2>2. lk \in Link /\ lk.torn = l.torn /\ lk.far = l.far /\ lk.down = l.down /\ lk.up = l.up
        BY <1>1 DEF Link
    <2> HIDE DEF lk
    <2>3. RawStep(c, lk)
        BY <1>2, <2>1, <2>2 DEF RawStep
    <2> QED BY <2>3
<1> QED BY <1>3, <1>4, <1>5

LEMMA RawTyped ==
    ASSUME TypeInv, NEW c \in RawConns, NEW lk, RawStep(c, lk)
    PROVE  /\ TypeInv' /\ link'[c] = lk
           /\ \A d \in Conns : d # c => link'[d] = link[d]
<1>1. /\ c \in Conns /\ session[c] \in Thread /\ Bounded(session[c].decoder)
      /\ server \in Servers /\ applied \in Seq(Entries) /\ link \in [Conns -> Link]
      /\ session \in [Conns -> Thread] /\ Serves(session[c], server)
    BY TypeParts DEF Conns, TypeInv
<1>2. session' = [session EXCEPT ![c] = session[c]]
    BY <1>1 DEF RawStep
<1>3. Turns(c, lk, session[c])
    BY <1>1, <1>2 DEF Turns, RawStep
<1>4. TypeInv'
    BY <1>1, <1>3, TurnTyped
<1> QED BY <1>1, <1>4 DEF RawStep

\* The process ends: every thread and every end of a connection with it.
DownStep ==
    /\ server' = [server EXCEPT !.up = FALSE]
    /\ session' \in [Conns -> Thread] /\ link' \in [Conns -> Link]
    /\ \A c \in Conns :
         /\ session'[c] \in {NoThread, [NoThread EXCEPT !.at = "done"]}
         /\ session'[c].phase = "hello" /\ session'[c].decoder = Fresh
         /\ session'[c].at = IF session[c].at = "none" THEN "none" ELSE "done"
         /\ Lnk(link'[c], link[c], <<>>, link[c].down, FALSE)
         /\ Unused(c) => Unused(c)'
    /\ UNCHANGED <<client, told, applied>>
    /\ "conns" \in DOMAIN budget' /\ budget'.conns = budget.conns

LEMMA DownEffect ==
    ASSUME TypeInv, Crash \/ Exit
    PROVE  DownStep
<1>1. /\ Down /\ "conns" \in DOMAIN budget' /\ budget'.conns = budget.conns
    BY DEF Crash, Exit, TypeInv, BudgetOK
<1> DEFINE none == <<>>
           dead == [NoThread EXCEPT !.at = "done"]
<1>2. /\ server' = [server EXCEPT !.up = FALSE] /\ UNCHANGED <<client, told, applied>>
      /\ session' = [c \in Conns |-> IF session[c].at = "none" THEN NoThread ELSE dead]
      /\ link' = [c \in Conns |-> [link[c] EXCEPT !.far = FALSE, !.up = none]]
    BY <1>1 DEF Down
<1>3. \A c \in Conns : link[c] \in Link /\ session[c] \in Thread
    BY TypeParts
<1>4. none \in Seq(Unit)
    OBVIOUS
<1>5. /\ NoThread \in Thread /\ dead \in Thread /\ NoThread.at = "none" /\ dead.at = "done"
      /\ NoThread.phase = "hello" /\ dead.phase = "hello"
      /\ NoThread.decoder = Fresh /\ dead.decoder = Fresh
    <2>1. NoThread \in Thread /\ NoThread.at = "none" /\ NoThread.phase = "hello"
          /\ NoThread.decoder = Fresh
        BY NoClientType DEF NoThread
    <2>2. dead \in Thread /\ dead.at = "done" /\ dead.phase = NoThread.phase
          /\ dead.decoder = NoThread.decoder
        BY <2>1 DEF Thread
    <2> QED BY <2>1, <2>2
<1> HIDE DEF dead
<1>6. ASSUME NEW c \in Conns
      PROVE  /\ session'[c] \in {NoThread, dead}
             /\ session'[c].phase = "hello" /\ session'[c].decoder = Fresh
             /\ session'[c].at = IF session[c].at = "none" THEN "none" ELSE "done"
    BY <1>2, <1>5
<1>7. ASSUME NEW c \in Conns
      PROVE  Lnk(link'[c], link[c], none, link[c].down, FALSE)
    <2> HIDE DEF none
    <2>1. link'[c] = [link[c] EXCEPT !.far = FALSE, !.up = none]
        BY <1>2
    <2> QED BY <1>3, <1>4, <2>1 DEF Lnk, Link
<1>8. session' \in [Conns -> Thread]
    BY <1>2, <1>5
<1>9. link' \in [Conns -> Link]
    <2>1. \A c \in Conns : link'[c] \in Link
        BY <1>7 DEF Lnk
    <2> QED BY <1>2, <2>1
<1>10. ASSUME NEW c \in Conns, Unused(c)
       PROVE  link'[c] = NoLink /\ session'[c] = NoThread
    <2>1. session[c].at = "none" /\ link[c] = NoLink
        BY <1>5, <1>10 DEF Unused
    <2>2. NoLink.far = FALSE /\ NoLink.up = none /\ NoLink \in Link
        BY NoClientType DEF NoLink
    <2> HIDE DEF none
    <2>3. [NoLink EXCEPT !.far = FALSE, !.up = none] = NoLink
        BY <2>2 DEF Link
    <2> QED BY <1>2, <2>1, <2>3
<1>11. \A c \in Conns : Unused(c) => Unused(c)'
    BY <1>10 DEF Unused
<1> QED BY <1>1, <1>2, <1>6, <1>7, <1>8, <1>9, <1>11 DEF DownStep, dead, none

RestartStep ==
    /\ ~server.up
    /\ server' \in Servers /\ server'.up /\ server'.epoch = server.epoch + 1
    /\ server'.issued = 0
    /\ UNCHANGED <<budget, client, link, session, told, applied>>

LEMMA RestartEffect ==
    ASSUME TypeInv, Restart
    PROVE  RestartStep
<1>1. server \in Servers /\ MaxEpoch \in Nat
    BY TypeParts, SessionAssumption
<1>2. server.epoch + 1 \in 1 .. MaxEpoch
    BY <1>1 DEF Restart, Servers
<1> QED BY <1>1, <1>2 DEF Restart, RestartStep, Servers


-----------------------------------------------------------------------------
(* The type invariant. *)

\* Every step of the system is of one of these forms.
Steps ==
    \/ \E c \in Conns : \E lk, s : SideStep(c, lk, s)
    \/ \E cl, lk : ClientStep(cl, lk)
    \/ \E c \in RawConns : \E lk : RawStep(c, lk)
    \/ DownStep
    \/ RestartStep
    \/ UNCHANGED vars

LEMMA StepForms ==
    ASSUME TypeInv, [Next]_vars
    PROVE  Steps
<1>1. CASE Next
    <2>1. CASE \/ Connect \/ ClientThread \/ ClientRecvFails \/ Drop \/ CallTooLarge
               \/ \E size \in Sizes : Call("request", size)
               \/ Call("shutdown", 1)
        BY <2>1, ClientEffects DEF Steps
    <2>2. CASE \E c \in RawConns : RawConnect(c) \/ RawSend(c) \/ RawClose(c)
        BY <2>2, RawEffect DEF Steps
    <2>3. CASE \E c \in Conns :
                 Accept(c) \/ SessionThread(c) \/ SessionRecvFails(c) \/ SessionSendFails(c)
        <3>1. PICK c \in Conns :
                 Accept(c) \/ SessionThread(c) \/ SessionRecvFails(c) \/ SessionSendFails(c)
            BY <2>3
        <3>2. \E lk, s : SideStep(c, lk, s)
            BY <3>1, SideEffects
        <3> QED BY <3>2 DEF Steps
    <2>4. CASE Crash \/ Exit
        BY <2>4, DownEffect DEF Steps
    <2>5. CASE Restart
        BY <2>5, RestartEffect DEF Steps
    <2> QED BY <1>1, <2>1, <2>2, <2>3, <2>4, <2>5 DEF Next
<1> QED BY <1>1 DEF Steps

LEMMA DownTyped ==
    ASSUME TypeInv, DownStep
    PROVE  TypeInv'
<1>1. /\ client \in Client /\ Bounded(client.decoder) /\ told \in Seq(Outcomes)
      /\ applied \in Seq(Entries) /\ server \in Servers
      /\ \A c \in 1 .. MaxConns : c \in Conns
    BY TypeParts
<1>2. server' \in Servers
    BY <1>1 DEF DownStep, Servers
<1>3. TypeOK'
    BY <1>1, <1>2, TypeWhole, DecoderFacts DEF DownStep
<1>4. \A c \in Conns : Serves(session[c], server)'
    BY DEF DownStep, Serves
<1>5. BudgetOK' /\ client' = client
    BY DEF TypeInv, BudgetOK, DownStep
<1>6. \A c \in 1 .. MaxConns : (c > client.conn)' => Unused(c)'
    BY <1>1, <1>5 DEF TypeInv, DownStep
<1> QED BY <1>3, <1>4, <1>5, <1>6 DEF TypeInv

LEMMA RestartTyped ==
    ASSUME TypeInv, RestartStep
    PROVE  TypeInv'
<1>1. /\ client \in Client /\ Bounded(client.decoder) /\ told \in Seq(Outcomes)
      /\ applied \in Seq(Entries)
      /\ link \in [Conns -> Link] /\ session \in [Conns -> Thread]
      /\ \A c \in Conns : Bounded(session[c].decoder)
    BY TypeParts
<1>2. TypeOK'
    BY <1>1, TypeWhole DEF RestartStep
<1>3. \A c \in Conns : Serves(session[c], server)'
    BY DEF TypeInv, RestartStep, Serves
<1>4. BudgetOK'
    BY DEF TypeInv, BudgetOK, RestartStep
<1>5. \A c \in 1 .. MaxConns : (c > client.conn)' => Unused(c)'
    BY DEF TypeInv, RestartStep, Unused
<1>6. client' = client
    BY DEF RestartStep
<1> QED BY <1>2, <1>3, <1>4, <1>5, <1>6 DEF TypeInv

LEMMA TypeStep ==
    ASSUME TypeInv, Steps
    PROVE  TypeInv'
<1>1. CASE \E c \in Conns : \E lk, s : SideStep(c, lk, s)
    <2>0. PICK c \in Conns : \E lk, s : SideStep(c, lk, s)
        BY <1>1
    <2>1. PICK lk, s : SideStep(c, lk, s)
        BY <2>0
    <2> QED BY <2>1, SideTyped, TurnTyped
<1>2. CASE \E cl, lk : ClientStep(cl, lk)
    <2>1. PICK cl, lk : ClientStep(cl, lk)
        BY <1>2
    <2> QED BY <2>1, ClientTyped, ClientTurnTyped
<1>3. CASE \E c \in RawConns : \E lk : RawStep(c, lk)
    BY <1>3, RawTyped
<1>4. CASE UNCHANGED vars
    BY <1>4 DEF vars, TypeInv, TypeOK, BudgetOK, Serves, Unused
<1> QED BY <1>1, <1>2, <1>3, <1>4, DownTyped, RestartTyped DEF Steps

LEMMA TypeInit ==
    ASSUME Init
    PROVE  TypeInv
<1>1. NoClient \in Client /\ NoClient.decoder = Fresh /\ NoClient.at = "closed"
      /\ NoLink \in Link /\ NoThread \in Thread /\ Bounded(NoThread.decoder) /\ Bounded(Fresh)
    BY NoClientType, DecoderFacts
<1>2. /\ client = NoClient /\ link = [c \in Conns |-> NoLink]
      /\ session = [c \in Conns |-> NoThread] /\ told = <<>> /\ applied = <<>>
      /\ server = [up |-> TRUE, stop |-> FALSE, epoch |-> 1, issued |-> 0]
      /\ budget \in Budgets
    BY DEF Init
<1>3. server \in Servers
    BY <1>2, SessionAssumption DEF Servers
<1>4. told \in Seq(Outcomes) /\ applied \in Seq(Entries)
    BY <1>2
<1>5. link \in [Conns -> Link] /\ session \in [Conns -> Thread]
      /\ \A c \in Conns : link[c] = NoLink /\ session[c] = NoThread
    BY <1>1, <1>2
<1>6. TypeOK
    BY <1>1, <1>2, <1>3, <1>4, <1>5 DEF TypeOK, Servers, Outcomes, Entries, Bounded
<1>7. BudgetOK
    BY <1>2, SessionAssumption DEF BudgetOK
<1>8. client.conn = 0 /\ client.at = "closed" /\ MaxConns \in Nat
    BY <1>1, <1>2, SessionAssumption DEF NoClient
<1>9. \A c \in Conns : Serves(session[c], server)
    BY <1>5 DEF Serves, NoThread
<1>10. \A c \in 1 .. MaxConns : Unused(c)
    BY <1>5 DEF Unused, Conns
<1> QED BY <1>6, <1>7, <1>8, <1>9, <1>10 DEF TypeInv

LEMMA TypeAlways == Spec => []TypeInv
BY TypeInit, StepForms, TypeStep, PTL DEF Spec

\* Every variable stays in its domain, and neither end's decoder ever buffers
\* more than one maximal frame, for frames, chunks and streams of any size and
\* any number of connections (feed in src/src/protocol.cpp, called from
\* Client::round_trip and Server::serve_session).
THEOREM SessionTyped == Spec => []TypeOK
BY TypeAlways, PTL DEF TypeInv


-----------------------------------------------------------------------------
(* The names of requests. *)

Live(c) == session[c].phase = "requests"

\* What was handed over under this incarnation carries an identity that was
\* issued, and its session s is past its handshake or over.
Past(a, sv, s) ==
    /\ a.epoch <= sv.epoch
    /\ a.epoch = sv.epoch => a.session <= sv.issued
    /\ s.at = "done" \/ s.phase = "requests"

\* What a live session s of c handed over carries its name, and nothing else does.
Theirs(a, c, s) ==
    s.phase = "requests" =>
      /\ a.conn = c => a.epoch = s.epoch /\ a.session = s.id /\ a.req <= s.last
      /\ a.epoch = s.epoch /\ a.session = s.id => a.conn = c

Recorded(a) ==
    /\ Past(a, server, session[a.conn])
    /\ \A c \in Conns : Theirs(a, c, session[c])

Identities ==
    /\ \A c \in Conns : Live(c) => session[c].id <= server.issued
    /\ \A c, d \in Conns : Live(c) /\ Live(d) /\ session[c].id = session[d].id => c = d

NameInv ==
    /\ Identities
    /\ \A i \in 1 .. Len(applied) : Recorded(applied[i])

\* How the session t of a connection becomes s: it goes on, ends, or is named.
GoesOn(t, s) ==
    /\ s.phase = t.phase /\ s.id = t.id /\ s.epoch = t.epoch /\ s.last >= t.last
    /\ t.at # "done" /\ server'.issued = server.issued
Over(t, s) == s.at = "done" /\ s.phase = "hello" /\ server'.issued = server.issued
Named(t, s) ==
    /\ t.phase = "hello" /\ t.at = "pop" /\ s.phase = "requests"
    /\ s.id = server.issued + 1 /\ s.epoch = server.epoch
    /\ server'.issued = server.issued + 1
\* A handshake that is refused.
Unnamed(t, s) ==
    /\ t.phase = "hello" /\ t.at = "pop" /\ s.phase = "hello"
    /\ server'.issued = server.issued

LEMMA SideNames ==
    ASSUME TypeInv, NEW c \in Conns, NEW lk, NEW s, SideStep(c, lk, s)
    PROVE  LET t == session[c]
           IN  GoesOn(t, s) \/ Over(t, s) \/ Named(t, s) \/ Unnamed(t, s)
<1> DEFINE t == session[c]
<1>1. t \in Thread /\ t.last \in Nat /\ t.last >= t.last
    BY TypeParts DEF Thread
<1>2. CASE Accepts(c, lk, s) \/ Receives(c, lk, s) \/ Loops(c, lk, s) \/ Sends(c, lk, s)
    BY <1>1, <1>2 DEF Accepts, Receives, Loops, Sends, Thr, GoesOn
<1>3. CASE Leaves(c, lk, s)
    BY <1>3 DEF Leaves, Over
<1>4. CASE Replies(c, lk, s)
    <2> DEFINE f == FirstFrame(t.decoder)
    <2>1. t.at = "pop" /\ f.req \in Nat /\ (Greets(t, s, f) \/ Dispatches(c, t, s, f))
        BY <1>4, TypeParts, PopFacts DEF Replies, Frame
    <2> HIDE DEF f
    <2>2. CASE Greets(t, s, f)
        BY <2>1, <2>2 DEF Greets, Named, Unnamed
    <2>3. CASE Dispatches(c, t, s, f)
        <3>1. s.last = t.last \/ (s.last = f.req /\ f.req > t.last)
            BY <2>3 DEF Dispatches, Admissible
        <3>2. s.last >= t.last
            BY <1>1, <2>1, <3>1
        <3> QED BY <2>1, <2>3, <3>2 DEF Dispatches, GoesOn
    <2> QED BY <2>1, <2>2, <2>3
<1> QED BY <1>2, <1>3, <1>4 DEF SideStep

LEMMA IdentitiesSide ==
    ASSUME TypeInv, NameInv, NEW c \in Conns, NEW lk, NEW s, SideStep(c, lk, s)
    PROVE  Identities'
<1> DEFINE t == session[c]
<1>1. /\ session'[c] = s /\ \A d \in Conns : d # c => session'[d] = session[d]
      /\ \A d \in Conns : session[d].id \in Nat
      /\ server.issued \in Nat
    BY SideTyped, TypeParts DEF Thread, Servers
<1>2. GoesOn(t, s) \/ Over(t, s) \/ Named(t, s) \/ Unnamed(t, s)
    BY SideNames
<1>3. /\ \A d \in Conns : Live(d) => session[d].id <= server.issued
      /\ \A d, e \in Conns : Live(d) /\ Live(e) /\ session[d].id = session[e].id => d = e
    BY DEF NameInv, Identities
<1>4. \A d \in Conns : Live(d)' => session'[d].id <= server'.issued
    BY <1>1, <1>2, <1>3 DEF Live, GoesOn, Over, Named, Unnamed
<1>5. \A d \in Conns : d # c /\ Live(d)' => Live(d) /\ session'[d].id = session[d].id
    BY <1>1 DEF Live
<1>6. Live(c)' => s.id = server.issued + 1 \/ (Live(c) /\ s.id = t.id)
    BY <1>1, <1>2 DEF Live, GoesOn, Over, Named, Unnamed
<1>7. \A d \in Conns : d # c /\ Live(d)' /\ Live(c)' => session'[d].id # s.id
    BY <1>1, <1>3, <1>5, <1>6
<1>8. \A d, e \in Conns : Live(d)' /\ Live(e)' /\ session'[d].id = session'[e].id => d = e
    BY <1>1, <1>3, <1>5, <1>7
<1> QED BY <1>4, <1>8 DEF Identities

LEMMA RecordedSide ==
    ASSUME TypeInv, NEW c \in Conns, NEW lk, NEW s, SideStep(c, lk, s),
           NEW a \in Entries, Recorded(a)
    PROVE  Past(a, server', session'[a.conn]) /\ \A d \in Conns : Theirs(a, d, session'[d])
<1> DEFINE t == session[c]
<1>1. /\ session'[c] = s /\ \A d \in Conns : d # c => session'[d] = session[d]
      /\ server \in Servers /\ t \in Thread /\ s \in Thread
    BY SideTyped, TypeParts DEF Turns
<1>2. server'.epoch = server.epoch
    BY DEF SideStep
<1>3. GoesOn(t, s) \/ Over(t, s) \/ Named(t, s) \/ Unnamed(t, s)
    BY SideNames
<1>4. Past(a, server, session[a.conn]) /\ \A d \in Conns : Theirs(a, d, session[d])
    BY DEF Recorded
<1>5. /\ a.conn \in Conns /\ a.epoch \in Nat /\ a.session \in Nat /\ a.req \in Nat
      /\ server.epoch \in Nat /\ server.issued \in Nat
      /\ t.last \in Nat /\ s.last \in Nat
    BY <1>1 DEF Entries, Servers, Thread
<1>6. t.at = "pop" /\ t.phase = "hello" => a.conn # c
    BY <1>4 DEF Past
<1>7. Past(a, server', session'[a.conn])
    <2>1. server.issued <= server'.issued /\ server'.issued \in Nat
        BY <1>3, <1>5 DEF GoesOn, Over, Named, Unnamed
    <2>2. a.epoch <= server'.epoch /\ (a.epoch = server'.epoch => a.session <= server'.issued)
        BY <1>2, <1>4, <1>5, <2>1 DEF Past
    <2>3. session'[a.conn].at = "done" \/ session'[a.conn].phase = "requests"
        BY <1>1, <1>3, <1>4, <1>5, <1>6 DEF Past, GoesOn, Over, Named, Unnamed
    <2> QED BY <2>2, <2>3 DEF Past
<1>8. Theirs(a, c, s)
    <2>1. CASE GoesOn(t, s)
        <3>1. Theirs(a, c, t)
            BY <1>4
        <3>2. a.req <= t.last => a.req <= s.last
            BY <1>5, <2>1 DEF GoesOn
        <3> HIDE DEF t
        <3> QED BY <2>1, <3>1, <3>2 DEF GoesOn, Theirs
    <2>2. CASE Over(t, s) \/ Unnamed(t, s)
        BY <2>2 DEF Over, Unnamed, Theirs
    <2>3. CASE Named(t, s)
        BY <1>4, <1>5, <1>6, <2>3 DEF Named, Theirs, Past
    <2> QED BY <1>3, <2>1, <2>2, <2>3
<1> QED BY <1>1, <1>4, <1>7, <1>8

LEMMA NameSide ==
    ASSUME TypeInv, NameInv, NEW c \in Conns, NEW lk, NEW s, SideStep(c, lk, s)
    PROVE  NameInv'
<1> DEFINE t == session[c]
           f == FirstFrame(t.decoder)
           e == Entry(c, f)
<1>1. /\ session'[c] = s /\ \A d \in Conns : d # c => session'[d] = session[d]
      /\ applied \in Seq(Entries) /\ applied' \in Seq(Entries) /\ t \in Thread
      /\ s \in Thread /\ server \in Servers
    BY SideTyped, TypeParts DEF Turns
<1>2. ASSUME NEW i \in 1 .. Len(applied)
      PROVE  Past(applied[i], server', session'[applied[i].conn])
             /\ \A d \in Conns : Theirs(applied[i], d, session'[d])
    <2>1. applied[i] \in Entries /\ Recorded(applied[i])
        BY <1>1 DEF NameInv
    <2> QED BY <2>1, RecordedSide
<1>3. \/ applied' = applied
      \/ /\ applied' = Append(applied, e) /\ e \in Entries
         /\ Past(e, server', session'[e.conn]) /\ \A d \in Conns : Theirs(e, d, session'[d])
    <2>1. CASE ~Replies(c, lk, s)
        BY <2>1 DEF SideStep, Accepts, Receives, Loops, Leaves, Sends
    <2>2. CASE Replies(c, lk, s) /\ applied' # applied
        <3>1. /\ Dispatches(c, t, s, f) /\ f \in Frame
            BY <2>2, TypeParts, PopFacts DEF Replies, Greets
        <3> HIDE DEF f
        <3>2. /\ applied' = Append(applied, e) /\ Admissible(t, f) /\ s.last = f.req
              /\ server' = server /\ t.phase = "requests" /\ s.phase = "requests"
              /\ s.id = t.id /\ s.epoch = t.epoch
            BY <2>2, <3>1 DEF Dispatches
        <3>3. Serves(t, server) /\ t.epoch = server.epoch
            BY <3>2 DEF TypeInv, Serves
        <3>4. /\ e.conn = c /\ e.epoch = t.epoch /\ e.session = t.id /\ e.req = s.last
              /\ e.call = f.call
            BY <3>2 DEF Entry, Admissible
        <3>5. /\ server.epoch \in 1 .. MaxEpoch /\ server.epoch \in Nat /\ t.id \in Nat
              /\ f.call \in Nat /\ f.req \in Nat /\ s.last \in Nat
            <4>1. server.epoch \in 1 .. MaxEpoch /\ t.id \in Nat /\ s.last \in Nat
                BY <1>1 DEF Servers, Thread
            <4>2. f.call \in Nat /\ f.req \in Nat
                BY <3>1 DEF Frame
            <4> QED BY <4>1, <4>2
        <3>6. e \in Entries
            BY <3>2, <3>3, <3>5 DEF Entry, Entries, Admissible
        <3>7. t.id <= server.issued
            BY <3>2 DEF NameInv, Identities, Live
        <3>8. Past(e, server', session'[e.conn])
            BY <1>1, <3>2, <3>3, <3>4, <3>5, <3>7 DEF Past
        <3>9. ASSUME NEW d \in Conns
              PROVE  Theirs(e, d, session'[d])
            <4>1. CASE d = c
                BY <1>1, <3>2, <3>4, <3>5, <4>1 DEF Theirs
            <4>2. CASE d # c
                <5>1. session'[d] = session[d] /\ (Live(d) => session[d].id # t.id)
                    BY <1>1, <3>2, <4>2 DEF NameInv, Identities, Live
                <5> QED BY <3>4, <4>2, <5>1 DEF Theirs, Live
            <4> QED BY <4>1, <4>2
        <3> QED BY <3>2, <3>6, <3>8, <3>9
    <2> QED BY <2>1, <2>2
<1> HIDE DEF e
<1>4. \A i \in 1 .. Len(applied') :
        \/ i \in 1 .. Len(applied) /\ applied'[i] = applied[i]
        \/ applied' # applied /\ applied'[i] = e
    <2>1. CASE applied' = applied
        BY <2>1
    <2>2. CASE applied' # applied
        <3>1. applied' = Append(applied, e) /\ e \in Entries
            BY <1>3, <2>2
        <3>2. /\ Len(applied') = Len(applied) + 1 /\ Len(applied) \in Nat
              /\ \A i \in 1 .. Len(applied) : applied'[i] = applied[i]
              /\ applied'[Len(applied) + 1] = e
            BY <1>1, <3>1
        <3>3. ASSUME NEW i \in 1 .. Len(applied')
              PROVE  \/ i \in 1 .. Len(applied) /\ applied'[i] = applied[i]
                     \/ applied'[i] = e
            <4>1. i \in 1 .. Len(applied) \/ i = Len(applied) + 1
                BY <3>2
            <4> QED BY <3>2, <4>1
        <3> QED BY <2>2, <3>3
    <2> QED BY <2>1, <2>2
<1>5. \A i \in 1 .. Len(applied') :
        Past(applied'[i], server', session'[applied'[i].conn])
        /\ \A d \in Conns : Theirs(applied'[i], d, session'[d])
    BY <1>2, <1>3, <1>4
<1>6. \A i \in 1 .. Len(applied') : Recorded(applied[i])'
    BY <1>5 DEF Recorded, Past, Theirs
<1> QED BY <1>6, IdentitiesSide DEF NameInv

LEMMA NameDown ==
    ASSUME TypeInv, NameInv, DownStep
    PROVE  NameInv'
<1>1. /\ applied \in Seq(Entries) /\ applied' = applied /\ server \in Servers
    BY TypeParts DEF DownStep
<1>2. /\ server'.epoch = server.epoch /\ server'.issued = server.issued
      /\ \A c \in Conns : session'[c].phase = "hello"
                          /\ (session[c].at # "none" => session'[c].at = "done")
    BY <1>1 DEF DownStep, Servers
<1>3. ASSUME NEW i \in 1 .. Len(applied)
      PROVE  Past(applied[i], server', session'[applied[i].conn])
             /\ \A d \in Conns : Theirs(applied[i], d, session'[d])
    <2> DEFINE a == applied[i]
    <2>1. a \in Entries /\ Past(a, server, session[a.conn])
        BY <1>1 DEF NameInv, Recorded
    <2> HIDE DEF a
    <2>0. a.conn \in Conns
        BY <2>1 DEF Entries
    <2>2. session[a.conn].at # "none"
        BY <2>0, <2>1 DEF Past, TypeInv, Serves
    <2>3. Past(a, server', session'[a.conn])
        BY <1>2, <2>0, <2>1, <2>2 DEF Past
    <2>4. \A d \in Conns : Theirs(a, d, session'[d])
        BY <1>2 DEF Theirs
    <2> QED BY <2>3, <2>4 DEF a
<1>4. \A i \in 1 .. Len(applied') : Recorded(applied[i])'
    BY <1>1, <1>3 DEF Recorded, Past, Theirs
<1>5. Identities'
    BY <1>2 DEF Identities, Live
<1> QED BY <1>4, <1>5 DEF NameInv

LEMMA NameRestart ==
    ASSUME TypeInv, NameInv, RestartStep
    PROVE  NameInv'
<1>1. /\ applied \in Seq(Entries) /\ applied' = applied /\ server \in Servers
      /\ server.epoch \in Nat /\ server'.epoch = server.epoch + 1 /\ session' = session
    BY TypeParts DEF RestartStep, Servers
<1>2. \A c \in Conns : session[c].phase # "requests"
    BY DEF TypeInv, Serves, RestartStep
<1>3. ASSUME NEW i \in 1 .. Len(applied)
      PROVE  Past(applied[i], server', session'[applied[i].conn])
             /\ \A d \in Conns : Theirs(applied[i], d, session'[d])
    <2> DEFINE a == applied[i]
    <2>1. a \in Entries /\ Past(a, server, session[a.conn])
        BY <1>1 DEF NameInv, Recorded
    <2>2. a.epoch \in Nat /\ a.epoch < server'.epoch
        BY SMTT(30), <1>1, <2>1 DEF Past, Entries
    <2> HIDE DEF a
    <2>3. Past(a, server', session'[a.conn])
        BY <1>1, <2>1, <2>2 DEF Past
    <2>4. \A d \in Conns : Theirs(a, d, session'[d])
        BY <1>1, <1>2 DEF Theirs
    <2> QED BY <2>3, <2>4 DEF a
<1>4. \A i \in 1 .. Len(applied') : Recorded(applied[i])'
    BY <1>1, <1>3 DEF Recorded, Past, Theirs
<1>5. Identities'
    BY <1>1, <1>2 DEF Identities, Live
<1> QED BY <1>4, <1>5 DEF NameInv

LEMMA NameSame ==
    ASSUME NameInv, UNCHANGED <<server, session, applied>>
    PROVE  NameInv'
BY DEF NameInv, Identities, Live, Recorded, Past, Theirs

LEMMA NameStep ==
    ASSUME TypeInv, NameInv, Steps
    PROVE  NameInv'
<1>1. CASE \/ \E cl, lk : ClientStep(cl, lk)
           \/ \E c \in RawConns : \E lk : RawStep(c, lk)
           \/ UNCHANGED vars
    BY <1>1, NameSame DEF ClientStep, RawStep, vars
<1> QED BY <1>1, NameSide, NameDown, NameRestart DEF Steps

LEMMA NameInit ==
    ASSUME Init
    PROVE  NameInv
<1>1. \A c \in Conns : ~Live(c)
    BY DEF Init, Live, NoThread
<1>2. Len(applied) = 0
    BY DEF Init
<1> QED BY <1>1, <1>2 DEF NameInv, Identities


-----------------------------------------------------------------------------
(* Which requests are on their way, or have been handed over. *)

\* What the server's side of a connection still has to understand.
Units(d, lk) == In(d.buffer) \cup In(lk.up)

Asked(U, A, c) == {u.frame : u \in U} \cup {a \in In(A) : a.conn = c}

Asks(c) == Asked(Units(session[c].decoder, link[c]), applied, c)

\* Each of A is a request of B.
Covers(A, B) == \A p \in A : \E q \in B : p.req = q.req /\ p.call = q.call

\* On one connection requests are numbered in the order of the calls, up to the
\* client's count; no two connections carry the same call.
Ordered(A) == \A p, q \in A : p.req < q.req => p.call < q.call

Counted(cl, c, A, n) ==
    /\ cl.conn = c /\ cl.at # "closed" => \A p \in A : p.req <= cl.req
    /\ \A p \in A : p.call <= n

Apart(A, B) == \A p \in A, q \in B : p.call = q.call => p.call = 0

KeyInv ==
    /\ \A c \in 1 .. MaxConns : Ordered(Asks(c)) /\ Counted(client, c, Asks(c), Len(told))
    /\ \A c, d \in 1 .. MaxConns : c # d => Apart(Asks(c), Asks(d))

LEMMA AsksTyped ==
    ASSUME TypeInv, NEW c \in Conns
    PROVE  \A p \in Asks(c) : p.req \in Nat /\ p.call \in Nat
<1>1. /\ session[c].decoder.buffer \in Seq(Unit) /\ link[c].up \in Seq(Unit)
      /\ applied \in Seq(Entries)
    BY TypeParts DEF Bounded, Decoder, Link
<1>2. \A u \in Units(session[c].decoder, link[c]) : u \in Unit
    BY <1>1 DEF Units, In
<1>3. \A a \in In(applied) : a \in Entries
    BY <1>1 DEF In
<1>4. \A f \in Frame : f.req \in Nat /\ f.call \in Nat
    BY DEF Frame
<1>5. \A a \in Entries : a.req \in Nat /\ a.call \in Nat
    BY DEF Entries
<1>6. \A u \in Unit : u.frame \in Frame
    BY DEF Unit
<1> QED BY <1>2, <1>3, <1>4, <1>5, <1>6 DEF Asks, Asked

LEMMA Covered ==
    ASSUME NEW A, NEW B, Covers(A, B), \A p \in B : p.req \in Nat /\ p.call \in Nat
    PROVE  /\ Ordered(B) => Ordered(A)
           /\ \A cl, k, c, n, m :
                Counted(cl, c, B, n) /\ n \in Nat /\ m \in Nat /\ n <= m
                /\ (k.at # "closed" /\ k.conn = c => /\ cl.at # "closed" /\ cl.conn = c
                                                     /\ cl.req \in Nat /\ k.req \in Nat
                                                     /\ cl.req <= k.req)
                => Counted(k, c, A, m)
           /\ \A C, D : Covers(C, D) /\ Apart(B, D) => Apart(A, C)
<1>1. Ordered(B) => Ordered(A)
    BY DEF Ordered, Covers
<1>2. ASSUME NEW cl, NEW k, NEW c, NEW n \in Nat, NEW m \in Nat, n <= m, Counted(cl, c, B, n),
             k.at # "closed" /\ k.conn = c => /\ cl.at # "closed" /\ cl.conn = c
                                              /\ cl.req \in Nat /\ k.req \in Nat
                                              /\ cl.req <= k.req
      PROVE  Counted(k, c, A, m)
    <2>1. ASSUME NEW p \in A
          PROVE  p.call <= m /\ (k.at # "closed" /\ k.conn = c => p.req <= k.req)
        <3>1. PICK q \in B : p.req = q.req /\ p.call = q.call
            BY DEF Covers
        <3>2. q.call <= n /\ q.req \in Nat /\ q.call \in Nat
            BY <1>2, <3>1 DEF Counted
        <3>3. p.call <= m
            BY <1>2, <3>1, <3>2
        <3>4. ASSUME k.at # "closed", k.conn = c
              PROVE  p.req <= k.req
            <4>1. q.req <= cl.req /\ cl.req <= k.req /\ cl.req \in Nat /\ k.req \in Nat
                BY <1>2, <3>1, <3>4 DEF Counted
            <4> QED BY <3>1, <3>2, <4>1
        <3> QED BY <3>3, <3>4
    <2> QED BY <2>1 DEF Counted
<1>3. \A C, D : Covers(C, D) /\ Apart(B, D) => Apart(A, C)
    BY DEF Covers, Apart
<1> QED BY <1>1, <1>2, <1>3

\* A step that brings no new request keeps the order of the old ones.
LEMMA KeyKept ==
    ASSUME TypeInv, KeyInv, TypeInv',
           \A c \in 1 .. MaxConns : Covers(Asks(c)', Asks(c)),
           client'.at # "closed" => /\ client.at # "closed" /\ client'.conn = client.conn
                                    /\ client.req <= client'.req,
           Len(told) <= Len(told')
    PROVE  KeyInv'
<1>1. \A c \in 1 .. MaxConns : \A p \in Asks(c) : p.req \in Nat /\ p.call \in Nat
    BY AsksTyped, TypeParts
<1>2. client.req \in Nat /\ client'.req \in Nat /\ Len(told) \in Nat /\ Len(told') \in Nat
    <2>1. client \in Client /\ told \in Seq(Outcomes)
        BY TypeParts
    <2>2. client' \in Client /\ told' \in Seq(Outcomes)
        BY DEF TypeInv, TypeOK, Outcomes
    <2> QED BY <2>1, <2>2 DEF Client
<1>3. ASSUME NEW c \in 1 .. MaxConns
      PROVE  Ordered(Asks(c)') /\ Counted(client', c, Asks(c)', Len(told'))
    <2> DEFINE A == Asks(c)'
               B == Asks(c)
    <2>1. Covers(A, B) /\ Ordered(B) /\ Counted(client, c, B, Len(told))
          /\ \A p \in B : p.req \in Nat /\ p.call \in Nat
        BY <1>1 DEF KeyInv
    <2> HIDE DEF A, B
    <2>2. Ordered(A) /\ Counted(client', c, A, Len(told'))
        BY <1>2, <2>1, Covered
    <2> QED BY <2>2 DEF A
<1>4. ASSUME NEW c \in 1 .. MaxConns, NEW d \in 1 .. MaxConns, c # d
      PROVE  Apart(Asks(c)', Asks(d)')
    <2> DEFINE A == Asks(c)'
               B == Asks(c)
               C == Asks(d)'
               D == Asks(d)
    <2>1. Covers(A, B) /\ Covers(C, D) /\ Apart(B, D)
          /\ \A p \in B : p.req \in Nat /\ p.call \in Nat
        BY <1>1, <1>4 DEF KeyInv
    <2> HIDE DEF A, B, C, D
    <2>2. Apart(A, C)
        BY <2>1, Covered
    <2> QED BY <2>2 DEF A, C
<1>5. \A c \in 1 .. MaxConns : Ordered(Asks(c))' /\ Counted(client, c, Asks(c), Len(told))'
    BY <1>3 DEF Ordered, Counted
<1>6. \A c, d \in 1 .. MaxConns : c # d => Apart(Asks(c), Asks(d))'
    BY <1>4 DEF Apart
<1> QED BY <1>5, <1>6 DEF KeyInv

\* What is left to understand on c was there before.
LEMMA SideUnits ==
    ASSUME TypeInv, NEW c \in Conns, NEW lk, NEW s, SideStep(c, lk, s)
    PROVE  Units(s.decoder, lk) \subseteq Units(session[c].decoder, link[c])
<1> DEFINE t == session[c]
           l == link[c]
<1>1. Bounded(t.decoder) /\ l.up \in Seq(Unit)
    BY TypeParts DEF Link
<1>2. CASE Accepts(c, lk, s) \/ Sends(c, lk, s)
    BY <1>2 DEF Accepts, Sends, Thr, Lnk, Units
<1>3. CASE Receives(c, lk, s)
    <2>1. PICK n \in 1 .. Len(l.up) :
              /\ s.decoder = feed(t.decoder, SubSeq(l.up, 1, n))
              /\ lk.up = SubSeq(l.up, n + 1, Len(l.up))
        BY <1>3 DEF Receives, Thr, Lnk
    <2>2. n + 1 \in Nat \ {0} /\ 1 \in Nat \ {0} /\ n \in 0 .. Len(l.up) /\ Len(l.up) \in 0 .. Len(l.up)
        BY <1>1
    <2> DEFINE data == SubSeq(l.up, 1, n)
               rest == SubSeq(l.up, n + 1, Len(l.up))
    <2>3. data \in Seq(Unit) /\ In(data) \subseteq In(l.up) /\ In(rest) \subseteq In(l.up)
        BY <1>1, <2>2, InSubSeq
    <2> HIDE DEF data, rest
    <2>4. In(feed(t.decoder, data).buffer) \subseteq In(t.decoder.buffer) \cup In(data)
        BY <1>1, <2>3, FeedFacts
    <2>5. s.decoder = feed(t.decoder, data) /\ lk.up = rest
        BY <2>1 DEF data, rest
    <2> QED BY <2>3, <2>4, <2>5 DEF Units
<1>4. CASE Loops(c, lk, s)
    BY <1>4, DecoderFacts, InEmpty DEF Loops, Thr, Units
<1>5. CASE Leaves(c, lk, s)
    BY <1>5, DecoderFacts, InEmpty DEF Leaves, Lnk, Units
<1>6. CASE Replies(c, lk, s)
    BY <1>1, <1>6, PopFacts DEF Replies, Units
<1> QED BY <1>2, <1>3, <1>4, <1>5, <1>6 DEF SideStep

\* The history grows by the frame that the session has just understood.
LEMMA AppliedGrows ==
    ASSUME TypeInv, NEW c \in Conns, NEW lk, NEW s, SideStep(c, lk, s), applied' # applied
    PROVE  LET t == session[c]
               f == FirstFrame(t.decoder)
           IN  /\ Replies(c, lk, s) /\ t.at = "pop" /\ has_frame(t.decoder)
               /\ t.phase = "requests" /\ Admissible(t, f)
               /\ f \in Frame /\ [frame |-> f, part |-> f.size] \in In(t.decoder.buffer)
               /\ applied' = Append(applied, Entry(c, f)) /\ Entry(c, f) \in Entries
               /\ applied \in Seq(Entries)
<1> DEFINE t == session[c]
           f == FirstFrame(t.decoder)
<1>1. Replies(c, lk, s)
    BY DEF SideStep, Accepts, Receives, Loops, Leaves, Sends
<1>2. Bounded(t.decoder) /\ applied \in Seq(Entries) /\ server \in Servers /\ t \in Thread
    BY TypeParts
<1>3. /\ t.at = "pop" /\ has_frame(t.decoder) /\ f \in Frame
      /\ [frame |-> f, part |-> f.size] \in In(t.decoder.buffer)
    BY <1>1, <1>2, PopFacts DEF Replies
<1>4. Dispatches(c, t, s, f)
    BY <1>1 DEF Replies, Greets
<1> HIDE DEF f
<1>5. t.phase = "requests" /\ Admissible(t, f) /\ applied' = Append(applied, Entry(c, f))
    BY <1>4 DEF Dispatches
<1>6. t.epoch = server.epoch
    BY <1>5 DEF TypeInv, Serves
<1>7. f.epoch \in 1 .. MaxEpoch /\ f.call \in Nat /\ f.session \in Nat /\ f.req \in Nat
    <2>1. f.call \in Nat /\ f.session \in Nat /\ f.req \in Nat
        BY <1>3 DEF Frame
    <2>2. f.epoch = server.epoch /\ server.epoch \in 1 .. MaxEpoch
        BY <1>2, <1>5, <1>6 DEF Admissible, Servers
    <2> QED BY <2>1, <2>2
<1>8. Entry(c, f) \in Entries
    BY <1>7 DEF Entry, Entries
<1> QED BY <1>1, <1>2, <1>3, <1>5, <1>8 DEF f

LEMMA KeySide ==
    ASSUME TypeInv, KeyInv, NEW c \in Conns, NEW lk, NEW s, SideStep(c, lk, s)
    PROVE  KeyInv'
<1> DEFINE t == session[c]
           l == link[c]
           f == FirstFrame(t.decoder)
           e == Entry(c, f)
<1>1. /\ session'[c] = s /\ link'[c] = lk
      /\ \A d \in Conns : d # c => link'[d] = link[d] /\ session'[d] = session[d]
      /\ TypeInv'
    BY SideTyped, TurnTyped
<1>2. client' = client /\ told' = told
    BY DEF SideStep
<1>3. \A d \in Conns : Units(session'[d].decoder, link'[d]) \subseteq Units(session[d].decoder, link[d])
    BY <1>1, SideUnits
<1>4. \/ applied' = applied
      \/ /\ In(applied') = In(applied) \cup {e} /\ e.conn = c /\ e.req = f.req /\ e.call = f.call
         /\ \E u \in Units(t.decoder, l) : u.frame = f
    <2>1. CASE applied' # applied
        <3>1. /\ applied' = Append(applied, e) /\ e \in Entries /\ applied \in Seq(Entries)
              /\ [frame |-> f, part |-> f.size] \in In(t.decoder.buffer)
            BY <2>1, AppliedGrows
        <3>2. In(applied') = In(applied) \cup {e}
            BY <3>1, InAppend
        <3>3. e.conn = c /\ e.req = f.req /\ e.call = f.call
            BY DEF Entry
        <3> HIDE DEF f
        <3>4. [frame |-> f, part |-> f.size] \in Units(t.decoder, l)
            BY <3>1 DEF Units
        <3> QED BY <3>2, <3>3, <3>4
    <2> QED BY <2>1
<1>5. ASSUME NEW d \in Conns
      PROVE  Covers(Asks(d)', Asks(d))
    <2> DEFINE U == Units(session[d].decoder, link[d])
               W == Units(session'[d].decoder, link'[d])
    <2>1. W \subseteq U
        BY <1>3
    <2>2. Asks(d) = {u.frame : u \in U} \cup {a \in In(applied) : a.conn = d}
        BY DEF Asks, Asked
    <2>3. Asks(d)' = {u.frame : u \in W} \cup {a \in In(applied') : a.conn = d}
        BY DEF Asks, Asked, Units, In
    <2> HIDE DEF W
    <2>4. CASE applied' = applied
        BY <2>1, <2>2, <2>3, <2>4 DEF Covers
    <2>5. CASE applied' # applied
        <3>1. /\ In(applied') = In(applied) \cup {e} /\ e.conn = c
              /\ e.req = f.req /\ e.call = f.call
              /\ c = d => \E u \in U : u.frame = f
            BY <1>4, <2>5
        <3> HIDE DEF U, e, f
        <3> QED BY <2>1, <2>2, <2>3, <3>1 DEF Covers
    <2> QED BY <2>4, <2>5
<1>6. \A d \in 1 .. MaxConns : Covers(Asks(d)', Asks(d))
    BY <1>5, TypeParts
<1>7. client.req <= client'.req /\ Len(told) <= Len(told')
    <2>1. client.req \in Nat /\ Len(told) \in Nat
        BY TypeParts DEF Client
    <2> QED BY <1>2, <2>1
<1> QED BY <1>1, <1>2, <1>6, <1>7, KeyKept


\* A step of the client that may bring one new request f on its connection c.
Adds(c, f) ==
    /\ \A d \in 1 .. MaxConns : d # c => Covers(Asks(d)', Asks(d))
    /\ \A p \in Asks(c)' : \/ p.req = f.req /\ p.call = f.call
                           \/ \E q \in Asks(c) : p.req = q.req /\ p.call = q.call
    /\ f.req \in Nat /\ f.call \in Nat
    /\ \A q \in Asks(c) : q.req < f.req /\ q.call < f.call
    /\ f.call = 0 \/ f.call > Len(told)
    /\ client'.conn = c /\ f.req <= client'.req /\ f.call <= Len(told')
    /\ Len(told) <= Len(told')

LEMMA KeyAdds ==
    ASSUME TypeInv, KeyInv, TypeInv', NEW c \in 1 .. MaxConns, NEW f, Adds(c, f)
    PROVE  KeyInv'
<1>1. \A d \in 1 .. MaxConns : \A p \in Asks(d) : p.req \in Nat /\ p.call \in Nat
    BY AsksTyped, TypeParts
<1>2. client'.req \in Nat /\ Len(told) \in Nat /\ Len(told') \in Nat
    <2>1. told \in Seq(Outcomes)
        BY TypeParts
    <2>2. client' \in Client /\ told' \in Seq(Outcomes)
        BY DEF TypeInv, TypeOK, Outcomes
    <2> QED BY <2>1, <2>2 DEF Client
<1>3. ASSUME NEW d \in 1 .. MaxConns, d # c
      PROVE  Ordered(Asks(d)') /\ Counted(client', d, Asks(d)', Len(told'))
    <2> DEFINE A == Asks(d)'
               B == Asks(d)
    <2>1. Covers(A, B) /\ Ordered(B) /\ Counted(client, d, B, Len(told))
          /\ \A p \in B : p.req \in Nat /\ p.call \in Nat
        BY <1>1, <1>3 DEF KeyInv, Adds
    <2>2. client'.conn # d /\ Len(told) <= Len(told')
        BY <1>3 DEF Adds
    <2> HIDE DEF A, B
    <2>3. Ordered(A) /\ Counted(client', d, A, Len(told'))
        BY <1>2, <2>1, <2>2, Covered
    <2> QED BY <2>3 DEF A
<1> DEFINE N == Asks(c)'
           O == Asks(c)
<1>4. /\ \A p \in N : \/ p.req = f.req /\ p.call = f.call
                      \/ \E q \in O : p.req = q.req /\ p.call = q.call
      /\ f.req \in Nat /\ f.call \in Nat /\ f.req <= client'.req /\ f.call <= Len(told')
      /\ Len(told) <= Len(told')
      /\ \A q \in O : q.req < f.req /\ q.call < f.call /\ q.req \in Nat /\ q.call \in Nat
      /\ f.call = 0 \/ f.call > Len(told)
    BY <1>1 DEF Adds, KeyInv
<1>5. /\ Ordered(O) /\ \A q \in O : q.call <= Len(told)
    BY DEF KeyInv, Counted
<1> HIDE DEF N, O
<1>6. Ordered(N)
    <2> SUFFICES ASSUME NEW p \in N, NEW q \in N, p.req < q.req
                 PROVE  p.call < q.call
        BY DEF Ordered
    <2>1. CASE q.req = f.req /\ q.call = f.call
        BY <1>4, <2>1
    <2>2. CASE ~(q.req = f.req /\ q.call = f.call)
        <3>1. PICK r \in O : q.req = r.req /\ q.call = r.call
            BY <1>4, <2>2
        <3>2. CASE p.req = f.req /\ p.call = f.call
            BY <1>4, <3>1, <3>2
        <3>3. CASE ~(p.req = f.req /\ p.call = f.call)
            <4>1. PICK z \in O : p.req = z.req /\ p.call = z.call
                BY <1>4, <3>3
            <4> QED BY <1>5, <3>1, <4>1 DEF Ordered
        <3> QED BY <3>2, <3>3
    <2> QED BY <2>1, <2>2
<1>7. Counted(client', c, N, Len(told'))
    <2>1. ASSUME NEW p \in N
          PROVE  p.req <= client'.req /\ p.call <= Len(told')
        <3>1. CASE p.req = f.req /\ p.call = f.call
            BY <1>4, <3>1
        <3>2. CASE ~(p.req = f.req /\ p.call = f.call)
            <4>1. PICK z \in O : p.req = z.req /\ p.call = z.call
                BY <1>4, <3>2
            <4> QED BY <1>2, <1>4, <4>1
        <3> QED BY <3>1, <3>2
    <2> QED BY <2>1 DEF Counted
<1>8. ASSUME NEW d \in 1 .. MaxConns, d # c
      PROVE  Apart(N, Asks(d)') /\ Apart(Asks(d)', N)
    <2> DEFINE C == Asks(d)'
               D == Asks(d)
    <2>1. Covers(C, D) /\ Apart(O, D) /\ \A p \in D : p.call \in Nat /\ p.call <= Len(told)
        BY <1>1, <1>8 DEF KeyInv, Adds, O, Counted
    <2> HIDE DEF C, D
    <2>2. ASSUME NEW p \in N, NEW q \in C, p.call = q.call
          PROVE  p.call = 0
        <3>1. PICK z \in D : q.call = z.call
            BY <2>1 DEF Covers
        <3>2. CASE p.req = f.req /\ p.call = f.call
            BY <1>2, <1>4, <2>1, <2>2, <3>1, <3>2
        <3>3. CASE ~(p.req = f.req /\ p.call = f.call)
            <4>1. PICK y \in O : p.req = y.req /\ p.call = y.call
                BY <1>4, <3>3
            <4> QED BY <2>1, <2>2, <3>1, <4>1 DEF Apart
        <3> QED BY <3>2, <3>3
    <2>3. Apart(N, C) /\ Apart(C, N)
        BY <2>2 DEF Apart
    <2> QED BY <2>3 DEF C
<1>9. ASSUME NEW d \in 1 .. MaxConns, NEW e \in 1 .. MaxConns, d # e
      PROVE  Apart(Asks(d)', Asks(e)')
    <2>1. CASE d = c
        BY <1>8, <1>9, <2>1 DEF N
    <2>2. CASE e = c
        BY <1>8, <1>9, <2>2 DEF N
    <2>3. CASE d # c /\ e # c
        <3> DEFINE A == Asks(d)'
                   B == Asks(d)
                   C == Asks(e)'
                   D == Asks(e)
        <3>1. Covers(A, B) /\ Covers(C, D) /\ Apart(B, D)
              /\ \A p \in B : p.req \in Nat /\ p.call \in Nat
            BY <1>1, <1>9, <2>3 DEF KeyInv, Adds
        <3> HIDE DEF A, B, C, D
        <3>2. Apart(A, C)
            BY <3>1, Covered
        <3> QED BY <3>2 DEF A, C
    <2> QED BY <2>1, <2>2, <2>3
<1>10. \A d \in 1 .. MaxConns : Ordered(Asks(d)') /\ Counted(client', d, Asks(d)', Len(told'))
    BY <1>3, <1>6, <1>7 DEF N
<1>11. \A d \in 1 .. MaxConns : Ordered(Asks(d))' /\ Counted(client, d, Asks(d), Len(told))'
    BY <1>10 DEF Ordered, Counted
<1>12. \A d, e \in 1 .. MaxConns : d # e => Apart(Asks(d), Asks(e))'
    BY <1>9 DEF Apart
<1> QED BY <1>11, <1>12 DEF KeyInv

\* What a step does to the requests of c, from what it does to the units there.
LEMMA AsksNow ==
    ASSUME NEW c
    PROVE  Asks(c)' = {u.frame : u \in Units(session'[c].decoder, link'[c])}
                        \cup {a \in In(applied') : a.conn = c}
BY DEF Asks, Asked, Units, In

LEMMA CoversSame ==
    ASSUME NEW c, applied' = applied,
           Units(session'[c].decoder, link'[c]) \subseteq Units(session[c].decoder, link[c])
    PROVE  Covers(Asks(c)', Asks(c))
<1> DEFINE U == Units(session[c].decoder, link[c])
           W == Units(session'[c].decoder, link'[c])
<1>1. W \subseteq U
    OBVIOUS
<1>2. Asks(c) = {u.frame : u \in U} \cup {a \in In(applied) : a.conn = c}
    BY DEF Asks, Asked
<1>3. Asks(c)' = {u.frame : u \in W} \cup {a \in In(applied') : a.conn = c}
    BY AsksNow
<1> HIDE DEF W, U
<1> QED BY <1>1, <1>2, <1>3 DEF Covers


\* The members of what is sent with a frame, or a part of it.
LEMMA SentUnits ==
    ASSUME NEW f \in Frame, NEW n \in 0 .. f.size + 1, NEW q \in Seq(Unit)
    PROVE  LET r == q \o SubSeq(encode_frame(f), 1, n)
           IN  /\ r \in Seq(Unit)
               /\ \A u \in In(r) : \/ u \in In(q)
                                   \/ \E i \in 1 .. n : u = [frame |-> f, part |-> i - 1]
<1> DEFINE e == encode_frame(f)
           s == SubSeq(e, 1, n)
           r == q \o s
<1>1. /\ e \in Seq(Unit) /\ Len(e) = f.size + 1 /\ f.size \in Nat
      /\ \A i \in 1 .. f.size + 1 : e[i] = [frame |-> f, part |-> i - 1]
    BY EncodeFacts
<1> HIDE DEF e
<1>2. n \in 0 .. Len(e) /\ n \in Nat /\ 1 \in Nat \ {0}
    BY <1>1
<1>3. s \in Seq(Unit)
    BY <1>1, <1>2, InSubSeq
<1>4. Len(s) = n /\ \A i \in 1 .. n : s[i] = e[i]
    <2>1. \A i \in 1 .. n : i \in 1 .. Len(e) /\ e[i] \in Unit
        BY <1>1, <1>2
    <2> QED BY <1>2, <2>1, SubSeqProperties
<1> HIDE DEF s
<1>5. \A i \in 1 .. n : s[i] = [frame |-> f, part |-> i - 1]
    <2>1. \A i \in 1 .. n : i \in 1 .. f.size + 1
        BY <1>1, <1>2
    <2> QED BY <1>1, <1>4, <2>1
<1>6. r \in Seq(Unit) /\ In(r) = In(q) \cup In(s)
    BY <1>3, InConcat
<1> HIDE DEF r
<1>7. \A u \in In(s) : \E i \in 1 .. n : u = [frame |-> f, part |-> i - 1]
    BY <1>4, <1>5 DEF In
<1>8. r \in Seq(Unit)
      /\ \A u \in In(r) : \/ u \in In(q)
                          \/ \E i \in 1 .. n : u = [frame |-> f, part |-> i - 1]
    BY <1>6, <1>7
<1> QED BY <1>8 DEF r, s, e

LEMMA WholeSent ==
    ASSUME NEW f \in Frame
    PROVE  /\ SubSeq(encode_frame(f), 1, f.size + 1) = encode_frame(f)
           /\ f.size \in Nat /\ f.size + 1 \in 0 .. f.size + 1
<1> DEFINE e == encode_frame(f)
<1>1. e \in Seq(Unit) /\ Len(e) = f.size + 1 /\ f.size \in Nat
    BY EncodeFacts
<1> HIDE DEF e
<1>2. \A i \in 1 .. Len(e) : e[i] \in Unit
    BY <1>1
<1>3. /\ SubSeq(e, 1, Len(e)) \in Seq(Unit) /\ Len(SubSeq(e, 1, Len(e))) = Len(e)
      /\ \A i \in 1 .. Len(e) : SubSeq(e, 1, Len(e))[i] = e[i]
    <2>1. Len(e) \in Nat
        BY <1>1
    <2> QED BY <1>1, <1>2, <2>1, SubSeqProperties
<1>4. SubSeq(e, 1, Len(e)) = e
    BY <1>1, <1>3, SeqEqual
<1> QED BY <1>1, <1>4 DEF e

LEMMA KeyClient ==
    ASSUME TypeInv, NameInv, KeyInv, NEW cl, NEW lk, ClientStep(cl, lk)
    PROVE  KeyInv'
<1> DEFINE c == cl.conn
           l == link[c]
<1>1. /\ client' = cl /\ c \in 1 .. MaxConns /\ c \in Conns /\ link'[c] = lk
      /\ \A d \in Conns : d # c => link'[d] = link[d]
      /\ \A d \in 1 .. MaxConns : d \in Conns
      /\ UNCHANGED <<server, session, applied>> /\ TypeInv'
      /\ client \in Client /\ told \in Seq(Outcomes) /\ l \in Link /\ cl \in Client
    BY ClientTyped, ClientTurnTyped, TypeParts DEF ClientStep, ClientTurns
<1>2. client.req \in Nat /\ client.conn \in Nat /\ Len(told) \in Nat /\ l.up \in Seq(Unit)
    BY <1>1 DEF Client, Link
<1>3. \A d \in 1 .. MaxConns : d # c => Covers(Asks(d)', Asks(d))
    BY <1>1, CoversSame DEF Units
<1>4. CASE Connects(cl, lk)
    <2>1. c = client.conn + 1 /\ cl.req = 0 /\ told' = told
        BY <1>4 DEF Connects
    <2>2. Unused(c)
        BY <1>1, <1>2, <2>1 DEF TypeInv
    <2>3. ASSUME NEW a \in In(applied)
          PROVE  a.conn # c
        <3>1. PICK i \in 1 .. Len(applied) : a = applied[i]
            BY DEF In
        <3>2. Past(a, server, session[a.conn])
            BY <3>1 DEF NameInv, Recorded
        <3> QED BY <2>2, <3>2 DEF Past, Unused, NoThread
    <2>4. Units(session[c].decoder, l) = {}
        BY <2>2, DecoderFacts, InEmpty DEF Units, Unused, NoThread, NoLink
    <2>5. Asks(c) = {}
        BY <2>3, <2>4 DEF Asks, Asked
    <2>6. Units(session[c].decoder, lk) \subseteq In(encode_frame(Blank))
        <3>1. PICK n \in 0 .. Len(encode_frame(Blank)) : lk.up = SubSeq(encode_frame(Blank), 1, n)
            BY <1>4 DEF Connects
        <3>2. encode_frame(Blank) \in Seq(Unit) /\ 1 \in Nat \ {0}
            BY BlankType, EncodeFacts
        <3>3. In(lk.up) \subseteq In(encode_frame(Blank))
            BY <3>1, <3>2, InSubSeq
        <3> QED BY <2>2, <3>3, DecoderFacts, InEmpty DEF Units, Unused, NoThread
    <2>7. \A u \in Units(session[c].decoder, lk) : u.frame = Blank
        BY <2>6, BlankType, EncodeFacts
    <2>8. \A p \in Asks(c)' : p = Blank
        BY <1>1, <2>3, <2>7, AsksNow
    <2>9. Blank.req = 0 /\ Blank.call = 0
        BY DEF Blank
    <2>10. Adds(c, Blank)
        BY <1>1, <1>2, <1>3, <2>1, <2>5, <2>8, <2>9 DEF Adds
    <2> QED BY <1>1, <2>10, KeyAdds
<1>5. CASE (\E f : Calls(cl, lk, f)) \/ (\E f : Cuts(cl, lk, f))
    <2>1. PICK f : Calls(cl, lk, f) \/ Cuts(cl, lk, f)
        BY <1>5
    <2>2. /\ client.at = "idle" /\ c = client.conn /\ f \in Frame
          /\ f.req = client.req + 1 /\ f.call = Len(told) + 1 /\ cl.req = client.req + 1
        BY <2>1 DEF Calls, Cuts
    <2>3. \/ lk.up = l.up
          \/ \E n \in 0 .. f.size + 1 : lk.up = l.up \o SubSeq(encode_frame(f), 1, n)
        <3>1. f.size \in Nat /\ f.size + 1 \in 0 .. f.size + 1
              /\ SubSeq(encode_frame(f), 1, f.size + 1) = encode_frame(f)
              /\ \A n \in 0 .. f.size : n \in 0 .. f.size + 1
            BY <2>2, WholeSent
        <3>2. CASE Calls(cl, lk, f)
            BY <2>2, <3>1, <3>2 DEF Calls, Lnk
        <3>3. CASE Cuts(cl, lk, f)
            BY <2>2, <3>1, <3>3 DEF Cuts
        <3> QED BY <2>1, <3>2, <3>3
    <2>4. \A u \in In(lk.up) : u \in In(l.up) \/ u.frame = f
        <3>1. CASE lk.up = l.up
            BY <3>1
        <3>2. CASE \E n \in 0 .. f.size + 1 : lk.up = l.up \o SubSeq(encode_frame(f), 1, n)
            <4>1. \A u \in In(lk.up) :
                    \/ u \in In(l.up)
                    \/ \E i \in Nat : u = [frame |-> f, part |-> i - 1]
                <5>1. PICK n \in 0 .. f.size + 1 : lk.up = l.up \o SubSeq(encode_frame(f), 1, n)
                    BY <3>2
                <5>2. \A u \in In(lk.up) :
                        \/ u \in In(l.up)
                        \/ \E i \in 1 .. n : u = [frame |-> f, part |-> i - 1]
                    BY <1>2, <2>2, <5>1, SentUnits
                <5>3. f.size \in Nat
                    BY <2>2 DEF Frame
                <5>4. \A i \in 1 .. n : i \in Nat
                    BY <5>3
                <5> QED BY <5>2, <5>4
            <4> QED BY <4>1
        <3> QED BY <2>3, <3>1, <3>2
    <2>5. \A u \in Units(session[c].decoder, lk) :
              u \in Units(session[c].decoder, l) \/ u.frame = f
        BY <2>4 DEF Units
    <2>6. \A p \in Asks(c)' : p = f \/ p \in Asks(c)
        BY <1>1, <2>5, AsksNow DEF Asks, Asked
    <2>7. \A q \in Asks(c) : q.req <= client.req /\ q.call <= Len(told)
                             /\ q.req \in Nat /\ q.call \in Nat
        BY <1>1, <2>2, AsksTyped DEF KeyInv, Counted
    <2>8. \A q \in Asks(c) : q.req < f.req /\ q.call < f.call
        BY <1>2, <2>2, <2>7
    <2>9. Len(told') = Len(told) + 1
        BY <1>1, <2>1 DEF Calls, Cuts
    <2>10. /\ f.req \in Nat /\ f.call \in Nat /\ f.call > Len(told)
           /\ f.req <= cl.req /\ f.call <= Len(told') /\ Len(told) <= Len(told')
        BY <1>2, <2>2, <2>9
    <2>11. Adds(c, f)
        BY <1>1, <1>3, <2>2, <2>6, <2>8, <2>10 DEF Adds
    <2> QED BY <1>1, <2>11, KeyAdds
<1>6. CASE Refuses(cl, lk) \/ Reads(cl, lk) \/ Ends(cl, lk)
    <2>1. client.at # "closed" /\ c = client.conn /\ lk.up = l.up
          /\ (cl.at # "closed" => cl.req = client.req)
        BY <1>6 DEF Refuses, Reads, Ends, HangsUp, Cli, Lnk
    <2>2. Covers(Asks(c)', Asks(c))
        BY <1>1, <2>1, CoversSame DEF Units
    <2>3. Len(told) <= Len(told')
        <3>1. CASE Refuses(cl, lk)
            BY <1>1, <1>2, <3>1 DEF Refuses
        <3>2. CASE told' = told
            BY <1>2, <3>2
        <3>3. CASE \E outcome, by : Tells(outcome, by)
            BY <1>1, <1>2, <3>3 DEF Tells
        <3> QED BY <1>6, <3>1, <3>2, <3>3 DEF Reads, Ends
    <2>4. cl.at # "closed" => client.req <= cl.req
        BY <1>2, <2>1
    <2> QED BY <1>1, <1>3, <2>1, <2>2, <2>3, <2>4, KeyKept
<1> QED BY <1>4, <1>5, <1>6 DEF ClientStep

LEMMA KeyRest ==
    ASSUME TypeInv, KeyInv, TypeInv',
           \/ \E c \in RawConns : \E lk : RawStep(c, lk)
           \/ DownStep \/ RestartStep \/ UNCHANGED vars
    PROVE  KeyInv'
<1>1. UNCHANGED <<client, told, applied>>
    BY DEF RawStep, DownStep, RestartStep, vars
<1>2. ASSUME NEW d \in 1 .. MaxConns
      PROVE  Units(session'[d].decoder, link'[d]) \subseteq Units(session[d].decoder, link[d])
    <2>1. d \in Conns /\ d \notin RawConns
        BY TypeParts
    <2>2. CASE \E c \in RawConns : \E lk : RawStep(c, lk)
        BY <2>1, <2>2, RawTyped DEF RawStep, Units
    <2>3. CASE DownStep
        BY <2>1, <2>3, DecoderFacts, InEmpty DEF DownStep, Lnk, Units
    <2>4. CASE RestartStep \/ UNCHANGED vars
        BY <2>4 DEF RestartStep, vars
    <2> QED BY <2>2, <2>3, <2>4
<1>3. \A d \in 1 .. MaxConns : Covers(Asks(d)', Asks(d))
    BY <1>1, <1>2, CoversSame
<1>4. client.req <= client'.req /\ Len(told) <= Len(told')
    <2>1. client.req \in Nat /\ Len(told) \in Nat
        BY TypeParts DEF Client
    <2> QED BY <1>1, <2>1
<1> QED BY <1>1, <1>3, <1>4, KeyKept

LEMMA KeyStep ==
    ASSUME TypeInv, NameInv, KeyInv, Steps
    PROVE  KeyInv'
BY TypeStep, KeySide, KeyClient, KeyRest DEF Steps

LEMMA KeyInit ==
    ASSUME Init
    PROVE  KeyInv
<1>1. ASSUME NEW c \in Conns
      PROVE  Asks(c) = {}
    <2>1. session[c].decoder = Fresh /\ link[c].up = <<>> /\ applied = <<>>
        BY DEF Init, NoThread, NoLink
    <2>2. Units(session[c].decoder, link[c]) = {} /\ In(applied) = {}
        BY <2>1, DecoderFacts, InEmpty DEF Units
    <2> QED BY <2>2 DEF Asks, Asked
<1>2. \A c \in 1 .. MaxConns : Asks(c) = {}
    BY <1>1 DEF Conns
<1> QED BY <1>2 DEF KeyInv, Ordered, Counted, Apart


-----------------------------------------------------------------------------
(* A name for one request only. *)

\* What RequestNamedOnce says of two requests, a handed over before b.
Distinct(a, b) ==
    /\ <<a.epoch, a.session, a.req>> # <<b.epoch, b.session, b.req>>
    /\ a.conn = b.conn => /\ a.session = b.session /\ a.req < b.req
                          /\ a.conn \notin RawConns => a.call < b.call
    /\ <<a.epoch, a.session>> = <<b.epoch, b.session>> => a.conn = b.conn

LEMMA NamedPairs ==
    ASSUME NEW A \in Seq(Entries)
    PROVE  (\A i, j \in DOMAIN A : i < j => Distinct(A[i], A[j]))
             <=> \A i, j \in 1 .. Len(A) : i < j => Distinct(A[i], A[j])
<1>1. DOMAIN A = 1 .. Len(A)
    OBVIOUS
<1> QED BY <1>1

LEMMA NamedStep ==
    ASSUME TypeInv, NameInv, KeyInv, RequestNamedOnce, Steps
    PROVE  RequestNamedOnce'
<1>1. applied \in Seq(Entries)
    BY TypeParts
<1>2. \A i, j \in 1 .. Len(applied) : i < j => Distinct(applied[i], applied[j])
    BY <1>1, NamedPairs DEF RequestNamedOnce, Distinct
<1>3. CASE applied' = applied
    BY <1>3 DEF RequestNamedOnce
<1>4. CASE applied' # applied
    <2>0. PICK c \in Conns : \E lk, s : SideStep(c, lk, s)
        BY <1>4 DEF Steps, ClientStep, RawStep, DownStep, RestartStep, vars
    <2>1. PICK lk, s : SideStep(c, lk, s)
        BY <2>0
    <2> DEFINE t == session[c]
               f == FirstFrame(t.decoder)
               e == Entry(c, f)
    <2>2. /\ t.phase = "requests" /\ Admissible(t, f) /\ f \in Frame
          /\ [frame |-> f, part |-> f.size] \in In(t.decoder.buffer)
          /\ applied' = Append(applied, e) /\ e \in Entries
        BY <1>4, <2>1, AppliedGrows
    <2> HIDE DEF f
    <2>3. /\ e.conn = c /\ e.epoch = t.epoch /\ e.session = t.id /\ e.req = f.req
          /\ e.call = f.call /\ f.req > t.last /\ f.req \in Nat /\ t.last \in Nat
        <3>1. t \in Thread
            BY TypeParts
        <3> QED BY <2>2, <3>1 DEF Entry, Admissible, Frame, Thread
    <2>4. ASSUME NEW i \in 1 .. Len(applied)
          PROVE  Distinct(applied[i], e)
        <3> DEFINE a == applied[i]
        <3>1. a \in Entries /\ Theirs(a, c, t)
            BY <1>1 DEF NameInv, Recorded
        <3>2. a \in In(applied)
            BY DEF In
        <3> HIDE DEF a
        <3>3. a.req \in Nat
            BY <3>1 DEF Entries
        <3>4. /\ a.conn = c => a.session = e.session /\ a.req < e.req
              /\ a.epoch = e.epoch /\ a.session = e.session => a.conn = c
            BY <2>2, <2>3, <3>1, <3>3 DEF Theirs
        <3>5. ASSUME a.conn = c, c \notin RawConns
              PROVE  a.call < e.call
            <4>1. c \in 1 .. MaxConns
                BY <3>5 DEF Conns
            <4>2. [frame |-> f, part |-> f.size] \in Units(t.decoder, link[c])
                BY <2>2 DEF Units
            <4>3. f \in Asks(c) /\ a \in Asks(c)
                <5>1. [frame |-> f, part |-> f.size].frame = f
                    OBVIOUS
                <5> QED BY <3>2, <3>5, <4>2, <5>1 DEF Asks, Asked
            <4>4. a.req < f.req => a.call < f.call
                BY <4>1, <4>3 DEF KeyInv, Ordered
            <4> QED BY <2>3, <3>4, <3>5, <4>4
        <3>6. <<a.epoch, a.session, a.req>> # <<e.epoch, e.session, e.req>>
            <4>1. a.epoch = e.epoch /\ a.session = e.session => a.req # e.req
                BY <2>3, <3>3, <3>4
            <4> QED BY <4>1
        <3>7. Distinct(a, e)
            BY <2>3, <3>4, <3>5, <3>6 DEF Distinct
        <3> QED BY <3>7 DEF a
    <2> HIDE DEF e
    <2>5. /\ applied' \in Seq(Entries) /\ Len(applied') = Len(applied) + 1 /\ Len(applied) \in Nat
          /\ \A i \in 1 .. Len(applied) : applied'[i] = applied[i]
          /\ applied'[Len(applied) + 1] = e
        BY <1>1, <2>2
    <2>6. ASSUME NEW i \in 1 .. Len(applied'), NEW j \in 1 .. Len(applied'), i < j
          PROVE  Distinct(applied'[i], applied'[j])
        <3>1. i \in 1 .. Len(applied) /\ (j \in 1 .. Len(applied) \/ j = Len(applied) + 1)
            BY <2>5, <2>6
        <3>2. CASE j \in 1 .. Len(applied)
            BY <1>2, <2>5, <2>6, <3>1, <3>2
        <3>3. CASE j = Len(applied) + 1
            BY <2>4, <2>5, <3>1, <3>3
        <3> QED BY <3>1, <3>2, <3>3
    <2>7. \A i, j \in DOMAIN applied' : i < j => Distinct(applied'[i], applied'[j])
        BY <2>5, <2>6, NamedPairs
    <2> QED BY <2>7 DEF RequestNamedOnce, Distinct
<1> QED BY <1>3, <1>4

RequestInv == TypeInv /\ NameInv /\ KeyInv

LEMMA RequestsAlways == Spec => [](RequestInv /\ RequestNamedOnce)
<1>1. Init => RequestInv /\ RequestNamedOnce
    <2>1. Init => RequestNamedOnce
        BY DEF Init, RequestNamedOnce
    <2> QED BY <2>1, TypeInit, NameInit, KeyInit DEF RequestInv
<1>2. RequestInv /\ RequestNamedOnce /\ [Next]_vars => (RequestInv /\ RequestNamedOnce)'
    BY StepForms, TypeStep, NameStep, KeyStep, NamedStep DEF RequestInv
<1> QED BY <1>1, <1>2, PTL DEF Spec

\* Incarnation, session and request sequence name one request forever, for any
\* number of connections, restarts and foreign peers: the checks of dispatch
\* (src/src/server.cpp) never let two requests through under one name, and on
\* one connection of the library they let them through in the order of the calls.
THEOREM RequestsNamedOnce == Spec => []RequestNamedOnce
BY RequestsAlways, PTL


-----------------------------------------------------------------------------
(* The answer that a caller takes for its own. *)

\* The frames of a connection that may still reach the client as an answer:
\* requests all of which arrived, the answer that is being sent, and what the
\* client has to read.  A frame that was cut off reuses its sequence and is none.
Echoes(s, lk, cl) ==
    {u.frame : u \in {w \in Units(s.decoder, lk) : w.part = w.frame.size}}
      \cup {u.frame : u \in In(lk.down) \cup In(cl.decoder.buffer)}
      \cup (IF s.at = "send" THEN {s.reply} ELSE {})

\* They carry sequences that were sent, the last one that of the current call.
Matches(A, cl) ==
    \A p \in A : /\ p.seq <= cl.seq
                 /\ cl.at = "waiting" /\ p.seq = cl.seq => p.call = cl.call

TagInv ==
    client.at # "closed" =>
      Matches(Echoes(session[client.conn], link[client.conn], client), client)

Echoed(A, B) == \A p \in A : \E q \in B : p.seq = q.seq /\ p.call = q.call

LEMMA MatchesKept ==
    ASSUME NEW A, NEW B, NEW cl, Echoed(A, B), Matches(B, cl)
    PROVE  Matches(A, cl)
BY DEF Echoed, Matches

LEMMA EchoesTyped ==
    ASSUME TypeInv, NEW c \in Conns
    PROVE  \A p \in Echoes(session[c], link[c], client) : p.seq \in Nat /\ p.call \in Nat
<1>1. /\ session[c].decoder.buffer \in Seq(Unit) /\ link[c].up \in Seq(Unit)
      /\ link[c].down \in Seq(Unit) /\ client.decoder.buffer \in Seq(Unit)
      /\ session[c].reply \in Frame
    BY TypeParts DEF Bounded, Decoder, Link, Thread
<1>2. \A u \in Units(session[c].decoder, link[c]) : u \in Unit
    BY <1>1 DEF Units, In
<1>3. \A u \in In(link[c].down) \cup In(client.decoder.buffer) : u \in Unit
    BY <1>1 DEF In
<1>4. \A f \in Frame : f.seq \in Nat /\ f.call \in Nat
    BY DEF Frame
<1>5. \A u \in Unit : u.frame \in Frame
    BY DEF Unit
<1>6. \A p \in Echoes(session[c], link[c], client) : p \in Frame
    BY <1>1, <1>2, <1>3, <1>5 DEF Echoes
<1> QED BY <1>4, <1>6

LEMMA ReplyUnits ==
    ASSUME NEW f \in Frame, NEW q \in Seq(Unit), NEW n \in 0 .. Len(encode_frame(f))
    PROVE  /\ \A u \in In(q \o SubSeq(encode_frame(f), 1, n)) : u \in In(q) \/ u.frame = f
           /\ \A u \in In(q \o encode_frame(f)) : u \in In(q) \/ u.frame = f
<1> DEFINE e == encode_frame(f)
           s == SubSeq(e, 1, n)
<1>1. e \in Seq(Unit) /\ \A u \in In(e) : u.frame = f
    BY EncodeFacts
<1>2. s \in Seq(Unit) /\ In(s) \subseteq In(e)
    <2>1. 1 \in Nat \ {0}
        OBVIOUS
    <2> HIDE DEF e
    <2>2. n \in 0 .. Len(e)
        BY DEF e
    <2> QED BY <1>1, <2>1, <2>2, InSubSeq
<1> HIDE DEF e, s
<1>3. In(q \o s) = In(q) \cup In(s) /\ In(q \o e) = In(q) \cup In(e)
    BY <1>1, <1>2, InConcat
<1>4. \A u \in In(q \o s) : u \in In(q) \/ u.frame = f
    BY <1>1, <1>2, <1>3
<1>5. \A u \in In(q \o e) : u \in In(q) \/ u.frame = f
    BY <1>1, <1>3
<1> QED BY <1>4, <1>5 DEF e, s

LEMMA SideEchoes ==
    ASSUME TypeInv, NEW c \in Conns, NEW lk, NEW s, SideStep(c, lk, s)
    PROVE  Echoed(Echoes(s, lk, client), Echoes(session[c], link[c], client))
<1> DEFINE t == session[c]
           l == link[c]
           B == Echoes(t, l, client)
<1>1. Units(s.decoder, lk) \subseteq Units(t.decoder, l)
    BY SideUnits
<1>2. /\ Bounded(t.decoder) /\ t.reply \in Frame /\ l.down \in Seq(Unit)
    BY TypeParts DEF Thread, Link
<1>3. ASSUME NEW u \in Units(s.decoder, lk), u.part = u.frame.size
      PROVE  u.frame \in B
    BY <1>1, <1>3 DEF Echoes
<1>4. ASSUME NEW u \in In(client.decoder.buffer)
      PROVE  u.frame \in B
    BY DEF Echoes
<1>5. ASSUME NEW u \in In(lk.down)
      PROVE  u.frame \in B
    <2>1. u \in In(l.down) \/ (t.at = "send" /\ u.frame = t.reply)
        <3>1. CASE Accepts(c, lk, s) \/ Receives(c, lk, s) \/ Loops(c, lk, s) \/ Replies(c, lk, s)
            BY <3>1 DEF Accepts, Receives, Loops, Replies, Lnk
        <3>2. CASE Leaves(c, lk, s)
            <4>1. PICK down : /\ lk.down = down
                              /\ \/ down = l.down
                                 \/ /\ t.at = "send"
                                    /\ \E n \in 0 .. Len(encode_frame(t.reply)) :
                                         down = l.down \o SubSeq(encode_frame(t.reply), 1, n)
                BY <3>2 DEF Leaves, Lnk
            <4> QED BY <1>2, <4>1, ReplyUnits
        <3>3. CASE Sends(c, lk, s)
            <4>1. t.at = "send" /\ (lk.down = l.down \/ lk.down = l.down \o encode_frame(t.reply))
                BY <3>3 DEF Sends, Lnk
            <4>2. 0 \in 0 .. Len(encode_frame(t.reply))
                BY <1>2, EncodeFacts
            <4> QED BY <1>2, <4>1, <4>2, ReplyUnits
        <3> QED BY <3>1, <3>2, <3>3 DEF SideStep
    <2> QED BY <2>1 DEF Echoes
<1>6. ASSUME s.at = "send"
      PROVE  \E q \in B : s.reply.seq = q.seq /\ s.reply.call = q.call
    <2>1. Replies(c, lk, s)
        BY <1>6 DEF SideStep, Accepts, Receives, Loops, Leaves, Sends, Thr
    <2> DEFINE f == FirstFrame(t.decoder)
               w == [frame |-> f, part |-> f.size]
    <2>2. w \in In(t.decoder.buffer) /\ s.reply.seq = f.seq /\ s.reply.call = f.call
        BY <1>2, <2>1, PopFacts DEF Replies
    <2> HIDE DEF f
    <2>3. w \in Units(t.decoder, l) /\ w.frame = f /\ w.part = w.frame.size
        BY <2>2 DEF Units
    <2> HIDE DEF w
    <2>4. f \in B
        BY <2>3 DEF Echoes
    <2> QED BY <2>2, <2>4
<1> HIDE DEF B
<1>7. \A p \in Echoes(s, lk, client) : \E q \in B : p.seq = q.seq /\ p.call = q.call
    BY <1>3, <1>4, <1>5, <1>6 DEF Echoes
<1> QED BY <1>7 DEF Echoed, B

\* What there is to answer does not change, or shrinks.
LEMMA EchoesLess ==
    ASSUME NEW s, NEW t, NEW lk, NEW l, NEW cl, NEW k,
           Units(s.decoder, lk) \subseteq Units(t.decoder, l),
           In(lk.down) \cup In(cl.decoder.buffer) \subseteq In(l.down) \cup In(k.decoder.buffer),
           s.at = "send" => t.at = "send" /\ s.reply = t.reply
    PROVE  Echoed(Echoes(s, lk, cl), Echoes(t, l, k))
<1>1. Echoes(s, lk, cl) \subseteq Echoes(t, l, k)
    BY DEF Echoes
<1> QED BY <1>1 DEF Echoed

LEMMA TagNow ==
    ASSUME client'.at # "closed" =>
             Matches(Echoes(session'[client'.conn], link'[client'.conn], client'), client')
    PROVE  TagInv'
<1>1. Echoes(session'[client'.conn], link'[client'.conn], client')
        = Echoes(session[client.conn], link[client.conn], client)'
    BY DEF Echoes, Units, In
<1>2. ASSUME client'.at # "closed"
      PROVE  Matches(Echoes(session[client.conn], link[client.conn], client), client)'
    BY <1>1, <1>2 DEF Matches
<1> QED BY <1>2 DEF TagInv

LEMMA TagSide ==
    ASSUME TypeInv, TagInv, NEW c \in Conns, NEW lk, NEW s, SideStep(c, lk, s)
    PROVE  TagInv'
<1>0. client' = client
    BY DEF SideStep
<1>1. /\ client' = client /\ link'[c] = lk /\ session'[c] = s
      /\ \A d \in Conns : d # c => link'[d] = link[d] /\ session'[d] = session[d]
    BY <1>0, SideTyped
<1>2. ASSUME client'.at # "closed"
      PROVE  Matches(Echoes(session'[client'.conn], link'[client'.conn], client'), client')
    <2> DEFINE k == client.conn
    <2>1. k \in Conns /\ Matches(Echoes(session[k], link[k], client), client)
        BY <1>1, <1>2, OpenClient DEF TagInv
    <2>2. CASE k = c
        BY <1>1, <2>1, <2>2, SideEchoes, MatchesKept
    <2>3. CASE k # c
        BY <1>1, <2>1, <2>3
    <2> QED BY <2>2, <2>3
<1> QED BY <1>2, TagNow


LEMMA TagClient ==
    ASSUME TypeInv, TagInv, NEW cl, NEW lk, ClientStep(cl, lk)
    PROVE  TagInv'
<1> DEFINE c == cl.conn
           l == link[c]
           s == session[c]
<1>1. /\ client' = cl /\ c \in Conns /\ link'[c] = lk /\ session' = session
      /\ l \in Link /\ cl \in Client /\ client \in Client /\ told \in Seq(Outcomes)
      /\ c \in 1 .. MaxConns /\ Bounded(client.decoder)
    BY ClientTyped, TypeParts DEF ClientStep, ClientTurns
<1>2. /\ client.seq \in Nat /\ client.conn \in Nat /\ Len(told) \in Nat
      /\ l.up \in Seq(Unit) /\ l.down \in Seq(Unit)
    BY SMTT(30), <1>1 DEF Client, Link
<1> SUFFICES ASSUME cl.at # "closed"
             PROVE  Matches(Echoes(s, lk, cl), cl)
    BY <1>1, TagNow
<1>3. CASE Connects(cl, lk)
    <2>1. /\ c = client.conn + 1 /\ cl.at = "waiting" /\ cl.seq = 1 /\ cl.call = 0
          /\ cl.decoder = Fresh /\ lk.down = <<>>
        BY <1>3 DEF Connects
    <2>2. Unused(c)
        BY <1>1, <1>2, <2>1 DEF TypeInv
    <2>3. s.decoder = Fresh /\ s.at = "none"
        BY <2>2 DEF Unused, NoThread
    <2>4. In(lk.up) \subseteq In(encode_frame(Blank))
        <3>1. PICK n \in 0 .. Len(encode_frame(Blank)) : lk.up = SubSeq(encode_frame(Blank), 1, n)
            BY <1>3 DEF Connects
        <3>2. encode_frame(Blank) \in Seq(Unit) /\ 1 \in Nat \ {0}
            BY BlankType, EncodeFacts
        <3> QED BY <3>1, <3>2, InSubSeq
    <2>5. \A u \in Units(s.decoder, lk) : u.frame = Blank
        BY <2>3, <2>4, BlankType, EncodeFacts, DecoderFacts, InEmpty DEF Units
    <2>6. In(lk.down) = {} /\ In(cl.decoder.buffer) = {}
        BY <2>1, DecoderFacts, InEmpty
    <2>7. \A p \in Echoes(s, lk, cl) : p = Blank
        BY <2>3, <2>5, <2>6 DEF Echoes
    <2>8. Blank.seq = 1 /\ Blank.call = 0
        BY DEF Blank
    <2> QED BY <2>1, <2>7, <2>8 DEF Matches
<1>4. CASE ~Connects(cl, lk)
    <2>1. client.at # "closed" /\ c = client.conn
        BY <1>4 DEF ClientStep, Calls, Cuts, Refuses, Reads, Ends, HangsUp, Cli
    <2> DEFINE B == Echoes(s, l, client)
    <2>2. Matches(B, client) /\ \A p \in B : p.seq \in Nat /\ p.call \in Nat
        BY <1>1, <2>1, EchoesTyped DEF TagInv
    <2>3. CASE \E f : Calls(cl, lk, f)
        <3>1. PICK f : Calls(cl, lk, f)
            BY <2>3
        <3>2. /\ f \in Frame /\ f.seq = client.seq + 1 /\ f.call = cl.call
              /\ cl.seq = client.seq + 1 /\ cl.decoder = client.decoder /\ lk.down = l.down
              /\ (lk.up = l.up \o encode_frame(f) \/ lk.up = l.up)
            BY <2>1, <3>1 DEF Calls, Lnk
        <3>3. 0 \in 0 .. Len(encode_frame(f))
            BY <3>2, EncodeFacts
        <3>4. \A u \in In(lk.up) : u \in In(l.up) \/ u.frame = f
            BY <1>2, <3>2, <3>3, ReplyUnits
        <3>5. \A u \in Units(s.decoder, lk) : u \in Units(s.decoder, l) \/ u.frame = f
            BY <3>4 DEF Units
        <3>6. \A p \in Echoes(s, lk, cl) : p = f \/ p \in B
            BY <3>2, <3>5 DEF Echoes
        <3> HIDE DEF B
        <3>7. \A p \in B : p.seq < cl.seq
            BY <1>2, <2>2, <3>2 DEF Matches
        <3>8. \A p \in B : p.seq <= cl.seq /\ p.seq # cl.seq
            BY <1>2, <2>2, <3>2, <3>7
        <3>9. f.seq <= cl.seq /\ f.call = cl.call
            BY <1>2, <3>2
        <3> QED BY <3>6, <3>8, <3>9 DEF Matches
    <2>4. CASE ~ \E f : Calls(cl, lk, f)
        <3>1. cl.seq = client.seq /\ (cl.at = "waiting" => client.at = "waiting" /\ cl.call = client.call)
            BY <1>4, <2>4 DEF ClientStep, Cuts, Refuses, Reads, Ends, HangsUp, Cli
        <3>2. Matches(B, cl)
            BY <2>2, <3>1 DEF Matches
        <3>3. ASSUME NEW u \in Units(s.decoder, lk), u.part = u.frame.size
              PROVE  u \in Units(s.decoder, l)
            <4>1. CASE \E f : Cuts(cl, lk, f)
                <5>1. PICK f : Cuts(cl, lk, f)
                    BY <4>1
                <5>2. f \in Frame /\ f.size \in Nat
                      /\ \/ lk.up = l.up
                         \/ \E n \in 0 .. f.size : lk.up = l.up \o SubSeq(encode_frame(f), 1, n)
                    BY <2>1, <5>1 DEF Cuts, Frame
                <5>3. ASSUME NEW n \in 0 .. f.size, lk.up = l.up \o SubSeq(encode_frame(f), 1, n)
                      PROVE  u \in Units(s.decoder, l)
                    <6>1. n \in 0 .. f.size + 1
                        BY <5>2
                    <6>2. u \in In(s.decoder.buffer) \/ u \in In(l.up)
                          \/ \E i \in 1 .. n : u = [frame |-> f, part |-> i - 1]
                        <7> DEFINE r == l.up \o SubSeq(encode_frame(f), 1, n)
                        <7>1. \A v \in In(r) : \/ v \in In(l.up)
                                               \/ \E i \in 1 .. n : v = [frame |-> f, part |-> i - 1]
                            BY <1>2, <5>2, <6>1, SentUnits
                        <7>2. lk.up = r
                            BY <5>3
                        <7> HIDE DEF r
                        <7>3. u \in In(s.decoder.buffer) \/ u \in In(r)
                            BY <3>3, <7>2 DEF Units
                        <7> QED BY <7>1, <7>3
                    <6>3. ASSUME NEW i \in 1 .. n, u = [frame |-> f, part |-> i - 1]
                          PROVE  FALSE
                        <7>1. u.part = i - 1 /\ u.frame = f
                            BY <6>3
                        <7>2. i - 1 < f.size
                            BY <5>2
                        <7>3. u.part = f.size
                            BY <3>3, <7>1
                        <7>4. i - 1 \in Int /\ f.size \in Int /\ i - 1 # f.size
                            BY <5>2, <7>2
                        <7> QED BY <7>1, <7>3, <7>4
                    <6> QED BY <6>2, <6>3 DEF Units
                <5>4. CASE lk.up = l.up
                    BY <5>4 DEF Units
                <5> QED BY <5>2, <5>3, <5>4
            <4>2. CASE ~ \E f : Cuts(cl, lk, f)
                <5>1. lk.up = l.up
                    BY <1>4, <2>1, <2>4, <4>2 DEF ClientStep, Refuses, Reads, Ends, HangsUp, Cli, Lnk
                <5> QED BY <5>1 DEF Units
            <4> QED BY <4>1, <4>2
        <3>4. In(lk.down) \cup In(cl.decoder.buffer) \subseteq In(l.down) \cup In(client.decoder.buffer)
            <4>1. CASE Reads(cl, lk)
                <5>1. PICK n \in 1 .. Len(l.down) :
                          /\ cl.decoder = feed(client.decoder, SubSeq(l.down, 1, n))
                          /\ lk.down = SubSeq(l.down, n + 1, Len(l.down))
                    BY <2>1, <4>1 DEF Reads, Cli, Lnk
                <5>2. /\ n + 1 \in Nat \ {0} /\ 1 \in Nat \ {0} /\ n \in 0 .. Len(l.down)
                      /\ Len(l.down) \in 0 .. Len(l.down)
                    BY <1>2
                <5> DEFINE data == SubSeq(l.down, 1, n)
                           rest == SubSeq(l.down, n + 1, Len(l.down))
                <5>3. data \in Seq(Unit) /\ In(data) \subseteq In(l.down) /\ In(rest) \subseteq In(l.down)
                    BY <1>2, <5>2, InSubSeq
                <5>4. cl.decoder = feed(client.decoder, data) /\ lk.down = rest
                    BY <5>1
                <5> HIDE DEF data, rest
                <5>5. In(cl.decoder.buffer) \subseteq In(client.decoder.buffer) \cup In(data)
                    BY <1>1, <5>3, <5>4, FeedFacts
                <5> QED BY <5>3, <5>4, <5>5
            <4>2. CASE ~Reads(cl, lk)
                <5>1. /\ lk.down = l.down
                      /\ \/ cl.decoder \in {client.decoder, Failed}
                         \/ has_frame(client.decoder) /\ cl.decoder = popped(client.decoder)
                    BY <1>4, <2>1, <2>4, <4>2 DEF ClientStep, Cuts, Refuses, Ends, HangsUp, Cli, Lnk
                <5> QED BY <1>1, <5>1, PopFacts, DecoderFacts, InEmpty
            <4> QED BY <4>1, <4>2
        <3>5. Echoes(s, lk, cl) \subseteq B
            BY <3>3, <3>4 DEF Echoes
        <3> HIDE DEF B
        <3> QED BY <3>2, <3>5 DEF Matches
    <2> QED BY <2>3, <2>4
<1> QED BY <1>3, <1>4

LEMMA TagRest ==
    ASSUME TypeInv, TagInv,
           \/ \E c \in RawConns : \E lk : RawStep(c, lk)
           \/ DownStep \/ RestartStep \/ UNCHANGED vars
    PROVE  TagInv'
<1>1. client' = client
    BY DEF RawStep, DownStep, RestartStep, vars
<1>2. ASSUME client'.at # "closed"
      PROVE  Matches(Echoes(session'[client'.conn], link'[client'.conn], client'), client')
    <2> DEFINE k == client.conn
    <2>1. /\ k \in 1 .. MaxConns /\ k \in Conns /\ k \notin RawConns
          /\ Matches(Echoes(session[k], link[k], client), client)
        BY <1>1, <1>2, OpenClient, TypeParts DEF TagInv
    <2>2. CASE \E c \in RawConns : \E lk : RawStep(c, lk)
        <3>1. link'[k] = link[k] /\ session' = session
            BY <2>1, <2>2, RawTyped DEF RawStep
        <3> QED BY <1>1, <2>1, <3>1
    <2>3. CASE DownStep
        <3>1. /\ session'[k].decoder = Fresh /\ session'[k].at # "send"
              /\ link'[k].up = <<>> /\ link'[k].down = link[k].down
            BY <2>1, <2>3 DEF DownStep, Lnk
        <3>2. Units(session'[k].decoder, link'[k]) = {}
            BY <3>1, DecoderFacts, InEmpty DEF Units
        <3>3. Echoed(Echoes(session'[k], link'[k], client), Echoes(session[k], link[k], client))
            BY <3>1, <3>2, EchoesLess
        <3> QED BY <1>1, <2>1, <3>3, MatchesKept
    <2>4. CASE RestartStep \/ UNCHANGED vars
        <3>1. link' = link /\ session' = session
            BY <2>4 DEF RestartStep, vars
        <3> QED BY <1>1, <2>1, <3>1
    <2> QED BY <2>2, <2>3, <2>4
<1> QED BY <1>2, TagNow

LEMMA TagStep ==
    ASSUME TypeInv, TagInv, Steps
    PROVE  TagInv'
BY TagSide, TagClient, TagRest DEF Steps

LEMMA TagInit ==
    ASSUME Init
    PROVE  TagInv
BY DEF Init, TagInv, NoClient

LEMMA AnswerStep ==
    ASSUME TypeInv, TagInv, AnswerMatches, Steps
    PROVE  AnswerMatches'
<1>1. CASE told' = told
    BY <1>1 DEF AnswerMatches
<1>2. CASE told' # told
    <2>1. PICK cl, lk : ClientStep(cl, lk)
        BY <1>2 DEF Steps, SideStep, RawStep, DownStep, RestartStep, vars
    <2>2. told \in Seq(Outcomes) /\ Bounded(client.decoder)
        BY TypeParts
    <2>3. CASE \E e \in [outcome : {"open", "failed"}, by : {0}] : told' = Append(told, e)
        <3>1. PICK e \in [outcome : {"open", "failed"}, by : {0}] : told' = Append(told, e)
            BY <2>3
        <3>2. e.outcome \notin {"ok", "refused"} /\ e \in Outcomes
            BY DEF Outcomes
        <3>3. /\ Len(told) \in Nat /\ DOMAIN told = 1 .. Len(told)
              /\ DOMAIN told' = 1 .. Len(told) + 1
              /\ \A i \in 1 .. Len(told) : told'[i] = told[i]
              /\ told'[Len(told) + 1] = e
            BY <2>2, <3>1, <3>2
        <3>4. ASSUME NEW k \in DOMAIN told', told'[k].outcome \in {"ok", "refused"}
              PROVE  told'[k].by = k
            <4>1. k \in 1 .. Len(told) \/ k = Len(told) + 1
                BY <3>3
            <4> QED BY <3>2, <3>3, <3>4, <4>1 DEF AnswerMatches
        <3> QED BY <3>4 DEF AnswerMatches
    <2>4. CASE ~ \E e \in [outcome : {"open", "failed"}, by : {0}] : told' = Append(told, e)
        <3> DEFINE open == [outcome |-> "open", by |-> 0]
                   lost == [outcome |-> "failed", by |-> 0]
        <3>1. open \in [outcome : {"open", "failed"}, by : {0}]
              /\ lost \in [outcome : {"open", "failed"}, by : {0}]
            OBVIOUS
        <3>2. ~(\E f : Calls(cl, lk, f)) /\ ~(\E f : Cuts(cl, lk, f)) /\ ~Refuses(cl, lk)
            BY <2>4, <3>1 DEF Calls, Cuts, Refuses
        <3>3. Ends(cl, lk) /\ client.at = "waiting"
            BY <1>2, <2>1, <3>2 DEF ClientStep, Connects, Reads, Ends
        <3>4. \E outcome, by : Tells(outcome, by) /\ (outcome \in {"ok", "refused"} => by = client.call)
            <4> DEFINE f == FirstFrame(client.decoder)
            <4>1. has_frame(client.decoder) /\ f.seq = client.seq => f.call = client.call
                <5> SUFFICES ASSUME has_frame(client.decoder), f.seq = client.seq
                             PROVE  f.call = client.call
                    OBVIOUS
                <5> DEFINE w == [frame |-> f, part |-> f.size]
                <5>1. w \in In(client.decoder.buffer)
                    BY <2>2, PopFacts
                <5> HIDE DEF f
                <5>2. w.frame = f
                    OBVIOUS
                <5> HIDE DEF w
                <5>3. f \in Echoes(session[client.conn], link[client.conn], client)
                    BY <5>1, <5>2 DEF Echoes
                <5> QED BY <3>3, <5>3 DEF TagInv, Matches
            <4>2. \/ Tells("failed", 0)
                  \/ has_frame(client.decoder) /\ f.seq = client.seq
                     /\ (Tells("ok", f.call) \/ Tells("refused", f.call) \/ Tells("failed", f.call))
                BY <1>2, <3>3 DEF Ends
            <4> QED BY <4>1, <4>2
        <3>5. PICK outcome, by : Tells(outcome, by) /\ (outcome \in {"ok", "refused"} => by = client.call)
            BY <3>4
        <3> DEFINE e == [outcome |-> outcome, by |-> by]
        <3>6. e.outcome = outcome /\ e.by = by /\ told' = [told EXCEPT ![client.call] = e]
            BY <3>5 DEF Tells
        <3> HIDE DEF e
        <3>7. DOMAIN told' = DOMAIN told
              /\ \A k \in DOMAIN told : told'[k] = IF k = client.call THEN e ELSE told[k]
            BY <3>6
        <3>8. \A k \in DOMAIN told' : told'[k].outcome \in {"ok", "refused"} => told'[k].by = k
            BY <3>5, <3>6, <3>7 DEF AnswerMatches
        <3> QED BY <3>8 DEF AnswerMatches
    <2> QED BY <2>3, <2>4
<1> QED BY <1>1, <1>2

\* A call that returns an answer returns the answer to its own request: what
\* Client::round_trip accepts (src/src/client.cpp) carries the sequence of the
\* frame it sent last, and no other request of the connection ever carried it
\* to the server whole; for any number of failures, connections and calls.
THEOREM AnswersMatch == Spec => []AnswerMatches
<1>1. Init => TypeInv /\ TagInv /\ AnswerMatches
    <2>1. Init => AnswerMatches
        BY DEF Init, AnswerMatches
    <2> QED BY <2>1, TypeInit, TagInit
<1>2. TypeInv /\ TagInv /\ AnswerMatches /\ [Next]_vars => (TypeInv /\ TagInv /\ AnswerMatches)'
    BY StepForms, TypeStep, TagStep, AnswerStep
<1> QED BY <1>1, <1>2, PTL DEF Spec


-----------------------------------------------------------------------------
(* Frames that were cut off. *)

LEMMA Rejoined ==
    ASSUME NEW S, NEW a \in Seq(S), NEW q \in Seq(S), NEW n \in 0 .. Len(q)
    PROVE  (a \o SubSeq(q, 1, n)) \o SubSeq(q, n + 1, Len(q)) = a \o q
<1> DEFINE x == SubSeq(q, 1, n)
           y == SubSeq(q, n + 1, Len(q))
           ax == a \o x
           l == ax \o y
           r == a \o q
<1>1. /\ n \in Nat /\ Len(q) \in Nat /\ n <= Len(q) /\ 1 \in Nat \ {0} /\ n + 1 \in Nat \ {0}
      /\ Len(q) \in 0 .. Len(q) /\ Len(a) \in Nat
    OBVIOUS
<1>2. x \in Seq(S) /\ y \in Seq(S)
    BY <1>1, InSubSeq
<1>3. Len(x) = n /\ \A i \in 1 .. n : x[i] = q[i]
    <2>1. \A i \in 1 .. n : i \in 1 .. Len(q) /\ q[i] \in S
        BY <1>1
    <2> QED BY <1>1, <2>1, SubSeqProperties
<1>4. Len(y) = Len(q) - n /\ \A i \in 1 .. Len(q) - n : y[i] = q[n + i]
    <2>1. \A i \in n + 1 .. Len(q) : i \in 1 .. Len(q) /\ q[i] \in S
        BY <1>1
    <2>2. /\ Len(y) = IF n + 1 <= Len(q) THEN Len(q) - (n + 1) + 1 ELSE 0
          /\ \A i \in 1 .. Len(q) - (n + 1) + 1 : y[i] = q[(n + 1) + i - 1]
        BY <1>1, <2>1, SubSeqProperties
    <2>3. Len(q) - (n + 1) + 1 = Len(q) - n /\ \A i \in Nat : (n + 1) + i - 1 = n + i
        BY <1>1
    <2>4. Len(y) = Len(q) - n
        BY <1>1, <2>2
    <2> HIDE DEF y
    <2>5. ASSUME NEW i \in 1 .. Len(q) - n
          PROVE  y[i] = q[n + i]
        <3>1. i \in 1 .. Len(q) - (n + 1) + 1 /\ (n + 1) + i - 1 = n + i
            BY <1>1
        <3> QED BY <2>2, <3>1
    <2> QED BY <2>4, <2>5
<1> HIDE DEF x, y
<1>5. /\ ax \in Seq(S) /\ Len(ax) = Len(a) + n
      /\ \A i \in 1 .. Len(a) + n : ax[i] = IF i <= Len(a) THEN a[i] ELSE q[i - Len(a)]
    <2>1. /\ ax \in Seq(S) /\ Len(ax) = Len(a) + Len(x)
          /\ \A i \in 1 .. Len(a) + Len(x) : ax[i] = IF i <= Len(a) THEN a[i] ELSE x[i - Len(a)]
        BY <1>2, ConcatProperties
    <2> HIDE DEF ax
    <2>2. \A i \in 1 .. Len(a) + n : ~(i <= Len(a)) => i - Len(a) \in 1 .. n
        BY <1>1
    <2> QED BY <1>3, <2>1, <2>2
<1>6. /\ r \in Seq(S) /\ Len(r) = Len(a) + Len(q)
      /\ \A i \in 1 .. Len(a) + Len(q) : r[i] = IF i <= Len(a) THEN a[i] ELSE q[i - Len(a)]
    BY ConcatProperties
<1> HIDE DEF ax
<1>7. /\ l \in Seq(S) /\ Len(l) = Len(ax) + Len(y)
      /\ \A i \in 1 .. Len(ax) + Len(y) : l[i] = IF i <= Len(ax) THEN ax[i] ELSE y[i - Len(ax)]
    BY <1>2, <1>5, ConcatProperties
<1> HIDE DEF l, r
<1>8. Len(l) = Len(r)
    BY <1>1, <1>4, <1>5, <1>6, <1>7
<1>9. ASSUME NEW i \in 1 .. Len(l)
      PROVE  l[i] = r[i]
    <2>1. i \in 1 .. Len(a) + Len(q) /\ i \in 1 .. Len(ax) + Len(y)
        BY <1>6, <1>7, <1>8
    <2>2. CASE i <= Len(ax)
        <3>1. i \in 1 .. Len(a) + n
            BY <1>1, <1>5, <2>1, <2>2
        <3> QED BY <1>5, <1>6, <1>7, <2>1, <2>2, <3>1
    <2>3. CASE ~(i <= Len(ax))
        <3>1. /\ i - Len(ax) \in 1 .. Len(q) - n /\ ~(i <= Len(a))
              /\ n + (i - Len(ax)) = i - Len(a)
            BY <1>1, <1>4, <1>5, <2>1, <2>3
        <3>2. l[i] = q[n + (i - Len(ax))]
            BY <1>4, <1>7, <2>1, <2>3, <3>1
        <3> QED BY <1>6, <2>1, <3>1, <3>2
    <2> QED BY <2>2, <2>3
<1>10. l = r
    BY <1>6, <1>7, <1>8, <1>9, SeqEqual
<1> QED BY <1>10 DEF l, r, ax, x, y

\* Dropping the first m of a drops them from what follows it, too.
LEMMA Dropped ==
    ASSUME NEW S, NEW a \in Seq(S), NEW q \in Seq(S), NEW m \in 0 .. Len(a)
    PROVE  LET l == SubSeq(a, m + 1, Len(a)) \o q
               r == a \o q
           IN  /\ Len(r) \in Nat /\ Len(l) \in Nat /\ Len(r) = Len(l) + m /\ m <= Len(a)
               /\ \A i \in 1 .. Len(l) : l[i] = r[m + i]
               /\ \A i \in 1 .. Len(a) : r[i] = a[i]
               /\ Len(a) <= Len(r)
<1> DEFINE y == SubSeq(a, m + 1, Len(a))
           l == y \o q
           r == a \o q
<1>1. /\ m \in Nat /\ Len(a) \in Nat /\ m <= Len(a) /\ m + 1 \in Nat \ {0}
      /\ Len(a) \in 0 .. Len(a) /\ Len(q) \in Nat
    OBVIOUS
<1>2. y \in Seq(S)
    BY <1>1, InSubSeq
<1>3. Len(y) = Len(a) - m /\ \A i \in 1 .. Len(a) - m : y[i] = a[m + i]
    <2>1. \A i \in m + 1 .. Len(a) : i \in 1 .. Len(a) /\ a[i] \in S
        BY <1>1
    <2>2. /\ Len(y) = IF m + 1 <= Len(a) THEN Len(a) - (m + 1) + 1 ELSE 0
          /\ \A i \in 1 .. Len(a) - (m + 1) + 1 : y[i] = a[(m + 1) + i - 1]
        BY <1>1, <2>1, SubSeqProperties
    <2>3. Len(y) = Len(a) - m
        BY <1>1, <2>2
    <2> HIDE DEF y
    <2>4. ASSUME NEW i \in 1 .. Len(a) - m
          PROVE  y[i] = a[m + i]
        <3>1. i \in 1 .. Len(a) - (m + 1) + 1 /\ (m + 1) + i - 1 = m + i
            BY <1>1
        <3> QED BY <2>2, <3>1
    <2> QED BY <2>3, <2>4
<1> HIDE DEF y
<1>4. /\ Len(l) = Len(y) + Len(q)
      /\ \A i \in 1 .. Len(y) + Len(q) : l[i] = IF i <= Len(y) THEN y[i] ELSE q[i - Len(y)]
    BY <1>2, ConcatProperties
<1>5. /\ Len(r) = Len(a) + Len(q)
      /\ \A i \in 1 .. Len(a) + Len(q) : r[i] = IF i <= Len(a) THEN a[i] ELSE q[i - Len(a)]
    BY ConcatProperties
<1> HIDE DEF l, r
<1>6. Len(r) \in Nat /\ Len(l) \in Nat /\ Len(r) = Len(l) + m /\ Len(a) <= Len(r)
    BY <1>1, <1>3, <1>4, <1>5
<1>7. ASSUME NEW i \in 1 .. Len(l)
      PROVE  l[i] = r[m + i]
    <2>1. m + i \in 1 .. Len(a) + Len(q) /\ i \in 1 .. Len(y) + Len(q)
        BY <1>1, <1>3, <1>4
    <2>2. CASE i <= Len(y)
        <3>1. m + i <= Len(a) /\ i \in 1 .. Len(a) - m
            BY <1>1, <1>3, <2>1, <2>2
        <3> QED BY <1>3, <1>4, <1>5, <2>1, <2>2, <3>1
    <2>3. CASE ~(i <= Len(y))
        <3>1. ~(m + i <= Len(a)) /\ i - Len(y) = (m + i) - Len(a)
            BY <1>1, <1>3, <2>1, <2>3
        <3> QED BY <1>4, <1>5, <2>1, <2>3, <3>1
    <2> QED BY <2>2, <2>3
<1>8. \A i \in 1 .. Len(a) : r[i] = a[i]
    BY <1>1, <1>5
<1> QED BY <1>1, <1>6, <1>7, <1>8 DEF l, r, y

\* In the stream q a frame of call k was cut off, and only frames of earlier
\* calls come before it.
Barrier(q, k) ==
    /\ \E i \in 1 .. Len(q) : /\ q[i].frame.call = k
                              /\ \A j \in 1 .. i - 1 : q[j].frame.call < k
    /\ \A j \in 1 .. Len(q) : q[j].frame.call = k => q[j].part # q[j].frame.size

Stream(s, lk) == s.decoder.buffer \o lk.up

\* What is left of a torn frame waits for the session that reads the connection.
Torn(c, s, lk, n) ==
    lk.torn # 0 =>
      /\ c \in 1 .. MaxConns /\ lk.torn <= n
      /\ lk.far /\ s.decoder.ok => Barrier(Stream(s, lk), lk.torn)

TornInv ==
    /\ \A c \in Conns : ~link[c].far => session[c].at \in {"none", "done"}
    /\ \A c \in Conns : Torn(c, session[c], link[c], Len(told))

\* A decoder never gets past the barrier.
LEMMA BarrierPop ==
    ASSUME NEW d, Bounded(d), has_frame(d), NEW up \in Seq(Unit), NEW k \in Nat,
           Barrier(d.buffer \o up, k)
    PROVE  /\ FirstFrame(d).call < k
           /\ Barrier(popped(d).buffer \o up, k)
<1> DEFINE f == FirstFrame(d)
           a == d.buffer
           m == f.size + 1
           r == a \o up
           l == SubSeq(a, m + 1, Len(a)) \o up
<1>1. /\ a \in Seq(Unit) /\ f \in Frame /\ f.size + 1 <= Len(a)
      /\ popped(d).buffer = SubSeq(a, f.size + 2, Len(a))
      /\ \A i \in 1 .. f.size + 1 : a[i] = [frame |-> f, part |-> i - 1]
    BY PopFacts DEF Bounded, Decoder
<1>2. f.size \in Nat /\ f.call \in Nat /\ Len(a) \in Nat
    BY <1>1 DEF Frame
<1> HIDE DEF f, a
<1>3. m \in 0 .. Len(a) /\ m + 1 = f.size + 2 /\ m \in Nat
    BY <1>1, <1>2
<1>4. popped(d).buffer \o up = l
    BY <1>1, <1>3
<1>5. /\ Len(r) \in Nat /\ Len(l) \in Nat /\ Len(r) = Len(l) + m
      /\ \A i \in 1 .. Len(l) : l[i] = r[m + i]
      /\ \A i \in 1 .. Len(a) : r[i] = a[i]
      /\ Len(a) <= Len(r)
    <2> HIDE DEF m
    <2> QED BY SMTT(30), <1>1, <1>3, Dropped
<1>6. /\ \E i \in 1 .. Len(r) : /\ r[i].frame.call = k
                                /\ \A j \in 1 .. i - 1 : r[j].frame.call < k
      /\ \A j \in 1 .. Len(r) : r[j].frame.call = k => r[j].part # r[j].frame.size
    BY DEF Barrier, a
<1> HIDE DEF l, r
<1>7. \A i \in 1 .. m : i \in 1 .. Len(r) /\ r[i].frame = f /\ r[i].part = i - 1
    <2> SUFFICES ASSUME NEW i \in 1 .. m
                 PROVE  i \in 1 .. Len(r) /\ r[i].frame = f /\ r[i].part = i - 1
        OBVIOUS
    <2>1. i \in 1 .. Len(a) /\ i \in 1 .. Len(r) /\ i \in 1 .. f.size + 1
        BY <1>2, <1>3, <1>5
    <2>2. r[i] = [frame |-> f, part |-> i - 1]
        BY <1>1, <1>5, <2>1
    <2> QED BY <2>1, <2>2
<1>8. f.call # k
    <2>1. m \in 1 .. m /\ m - 1 = f.size
        BY <1>2, <1>3
    <2>2. m \in 1 .. Len(r) /\ r[m].frame = f /\ r[m].part = f.size
        BY <1>7, <2>1
    <2> QED BY <1>6, <2>2
<1>9. PICK i \in 1 .. Len(r) : r[i].frame.call = k /\ \A j \in 1 .. i - 1 : r[j].frame.call < k
    BY <1>6
<1>10. i > m /\ 1 \in 1 .. i - 1 /\ 1 \in 1 .. m
    <2>1. ~(i \in 1 .. m)
        BY <1>7, <1>8, <1>9
    <2> QED BY <1>2, <1>5, <2>1
<1>11. f.call < k
    BY <1>7, <1>9, <1>10
<1>12. i - m \in 1 .. Len(l) /\ m + (i - m) = i
    BY <1>3, <1>5, <1>10
<1>13. l[i - m].frame.call = k
    BY <1>5, <1>9, <1>12
<1>14. ASSUME NEW j \in 1 .. (i - m) - 1
       PROVE  l[j].frame.call < k
    <2> HIDE DEF m
    <2>0. j \in Nat /\ i \in Nat /\ m \in Nat /\ Len(l) \in Nat /\ i - m <= Len(l)
        BY <1>3, <1>5, <1>12
    <2>1. j \in 1 .. Len(l) /\ m + j \in 1 .. i - 1
        BY <2>0
    <2> QED BY <1>5, <1>9, <2>1
<1>15. ASSUME NEW j \in 1 .. Len(l), l[j].frame.call = k
       PROVE  l[j].part # l[j].frame.size
    <2>1. m + j \in 1 .. Len(r) /\ l[j] = r[m + j]
        BY SMTT(30), <1>3, <1>5
    <2>2. r[m + j].frame.call = k => r[m + j].part # r[m + j].frame.size
        BY <1>6, <2>1
    <2> QED BY <1>15, <2>1, <2>2
<1>16. Barrier(l, k)
    BY <1>12, <1>13, <1>14, <1>15 DEF Barrier
<1> QED BY <1>4, <1>11, <1>16 DEF f

\* What is sent after the barrier does not remove it.
LEMMA BarrierMore ==
    ASSUME NEW q \in Seq(Unit), NEW x \in Seq(Unit), NEW k \in Nat, Barrier(q, k),
           \A u \in In(x) : u.frame.call # k
    PROVE  Barrier(q \o x, k)
<1> DEFINE r == q \o x
<1>1. /\ Len(r) = Len(q) + Len(x) /\ Len(q) \in Nat /\ Len(x) \in Nat
      /\ \A i \in 1 .. Len(q) + Len(x) : r[i] = IF i <= Len(q) THEN q[i] ELSE x[i - Len(q)]
    BY ConcatProperties
<1> HIDE DEF r
<1>2. PICK i \in 1 .. Len(q) : q[i].frame.call = k /\ \A j \in 1 .. i - 1 : q[j].frame.call < k
    BY DEF Barrier
<1>3. \A j \in 1 .. i : j \in 1 .. Len(r) /\ r[j] = q[j]
    BY <1>1
<1>4. i \in 1 .. Len(r) /\ r[i].frame.call = k
    BY <1>1, <1>2, <1>3
<1>5. \A j \in 1 .. i - 1 : j \in 1 .. i
    BY <1>1
<1>6. \A j \in 1 .. i - 1 : r[j].frame.call < k
    BY <1>2, <1>3, <1>5
<1>7. ASSUME NEW j \in 1 .. Len(r), r[j].frame.call = k
      PROVE  r[j].part # r[j].frame.size
    <2>1. CASE j <= Len(q)
        <3>1. j \in 1 .. Len(q) /\ r[j] = q[j]
            BY <1>1, <2>1
        <3> QED BY <1>7, <3>1 DEF Barrier
    <2>2. CASE ~(j <= Len(q))
        <3>1. j - Len(q) \in 1 .. Len(x) /\ r[j] = x[j - Len(q)]
            BY <1>1, <2>2
        <3>2. r[j] \in In(x)
            BY <3>1 DEF In
        <3> QED BY <1>7, <3>2
    <2> QED BY <2>1, <2>2
<1>8. Barrier(r, k)
    BY <1>4, <1>6, <1>7 DEF Barrier
<1> QED BY <1>8 DEF r

\* A frame that is cut off now is one.
LEMMA BarrierNew ==
    ASSUME NEW q \in Seq(Unit), NEW f \in Frame, NEW n \in 1 .. f.size,
           \A u \in In(q) : u.frame.call < f.call
    PROVE  Barrier(q \o SubSeq(encode_frame(f), 1, n), f.call)
<1> DEFINE x == SubSeq(encode_frame(f), 1, n)
           r == q \o x
<1>1. /\ f.size \in Nat /\ f.call \in Nat /\ n \in 0 .. f.size + 1 /\ n \in Nat /\ n > 0
      /\ n <= f.size
    BY DEF Frame
<1>2. x \in Seq(Unit) /\ Len(x) = n /\ \A i \in 1 .. n : x[i] = [frame |-> f, part |-> i - 1]
    <2> DEFINE e == encode_frame(f)
    <2>1. /\ e \in Seq(Unit) /\ Len(e) = f.size + 1
          /\ \A i \in 1 .. f.size + 1 : e[i] = [frame |-> f, part |-> i - 1]
        BY EncodeFacts
    <2> HIDE DEF e
    <2>2. \A i \in 1 .. n : i \in 1 .. f.size + 1 /\ i \in 1 .. Len(e) /\ e[i] \in Unit
        BY <1>1, <2>1
    <2>3. SubSeq(e, 1, n) \in Seq(Unit) /\ Len(SubSeq(e, 1, n)) = n
          /\ \A i \in 1 .. n : SubSeq(e, 1, n)[i] = e[i]
        BY <1>1, <2>1, <2>2, SubSeqProperties
    <2>4. x = SubSeq(e, 1, n)
        BY DEF e
    <2> HIDE DEF x
    <2> QED BY <2>1, <2>2, <2>3, <2>4
<1> HIDE DEF x
<1>3. /\ Len(r) = Len(q) + n /\ Len(q) \in Nat
      /\ \A i \in 1 .. Len(q) + n : r[i] = IF i <= Len(q) THEN q[i] ELSE x[i - Len(q)]
    BY <1>2, ConcatProperties
<1> HIDE DEF r
<1>4. ASSUME NEW j \in 1 .. Len(q)
      PROVE  j \in 1 .. Len(r) /\ r[j].frame.call < f.call
    <2>1. j \in 1 .. Len(q) + n /\ j <= Len(q)
        BY <1>1, <1>3
    <2>2. r[j] = q[j] /\ q[j] \in In(q)
        BY <1>3, <2>1 DEF In
    <2> QED BY <1>3, <2>1, <2>2
<1>5. ASSUME NEW j \in 1 .. Len(r), ~(j <= Len(q))
      PROVE  r[j].frame = f /\ r[j].part < f.size /\ r[j].part \in Int
    <2>1. j - Len(q) \in 1 .. n /\ j \in 1 .. Len(q) + n
        BY <1>1, <1>3, <1>5
    <2>2. r[j] = [frame |-> f, part |-> (j - Len(q)) - 1]
        BY <1>2, <1>3, <1>5, <2>1
    <2>3. (j - Len(q)) - 1 < f.size /\ (j - Len(q)) - 1 \in Int
        BY <1>1, <2>1
    <2> QED BY <2>2, <2>3
<1> DEFINE i == Len(q) + 1
<1>6. i \in 1 .. Len(r) /\ ~(i <= Len(q)) /\ \A j \in 1 .. i - 1 : j \in 1 .. Len(q)
    BY <1>1, <1>3
<1>7. r[i].frame.call = f.call
    BY <1>5, <1>6
<1>8. \A j \in 1 .. i - 1 : r[j].frame.call < f.call
    BY <1>4, <1>6
<1>9. ASSUME NEW j \in 1 .. Len(r), r[j].frame.call = f.call
      PROVE  r[j].part # r[j].frame.size
    <2>1. ~(j <= Len(q))
        <3>1. j <= Len(q) => j \in 1 .. Len(q)
            BY <1>3
        <3> QED BY <1>1, <1>4, <1>9, <3>1
    <2>2. r[j].frame = f /\ r[j].part < f.size /\ r[j].part \in Int
        BY <1>5, <2>1
    <2> QED BY <1>1, <2>2
<1> HIDE DEF i
<1>10. Barrier(r, f.call)
    BY <1>6, <1>7, <1>8, <1>9 DEF Barrier
<1> QED BY <1>10 DEF r, x


LEMMA TornNow ==
    ASSUME \A c \in Conns : ~link'[c].far => session'[c].at \in {"none", "done"},
           \A c \in Conns : Torn(c, session'[c], link'[c], Len(told'))
    PROVE  TornInv'
<1>1. \A c \in Conns : Torn(c, session[c], link[c], Len(told))'
    BY DEF Torn, Stream, Barrier
<1> QED BY <1>1 DEF TornInv

LEMMA TornSide ==
    ASSUME TypeInv, TornInv, NEW c \in Conns, NEW lk, NEW s, SideStep(c, lk, s)
    PROVE  TornInv'
<1> DEFINE t == session[c]
           l == link[c]
           k == l.torn
<1>0. told' = told
    BY DEF SideStep
<1>1. /\ told' = told /\ link'[c] = lk /\ session'[c] = s
      /\ \A d \in Conns : d # c => link'[d] = link[d] /\ session'[d] = session[d]
    BY <1>0, SideTyped
<1>2. /\ Bounded(t.decoder) /\ l \in Link /\ l.up \in Seq(Unit) /\ l.torn \in Nat
      /\ t.decoder.buffer \in Seq(Unit)
    BY TypeParts DEF Link, Bounded, Decoder
<1>3. lk.torn = k
    BY DEF SideStep, Accepts, Receives, Loops, Leaves, Sends, Replies, Lnk
<1>4. ~lk.far => s.at \in {"none", "done"}
    <2>1. lk.far = l.far \/ s.at = "done"
        BY DEF SideStep, Accepts, Receives, Loops, Leaves, Sends, Replies, Lnk
    <2>2. t.at \notin {"none", "done"} \/ l.far
        BY DEF SideStep, Accepts, Receives, Loops, Leaves, Sends, Replies
    <2> QED BY <2>1, <2>2 DEF TornInv
<1>5. ASSUME k # 0, lk.far, s.decoder.ok
      PROVE  l.far /\ t.decoder.ok /\ Barrier(Stream(s, lk), k)
    <2>1. CASE Accepts(c, lk, s) \/ Sends(c, lk, s)
        <3>1. lk.up = l.up /\ s.decoder = t.decoder /\ lk.far = l.far
            BY <2>1 DEF Accepts, Sends, Thr, Lnk
        <3> QED BY <1>5, <3>1 DEF TornInv, Torn, Stream
    <2>2. CASE Receives(c, lk, s)
        <3>1. PICK n \in 1 .. Len(l.up) :
                  /\ s.decoder = feed(t.decoder, SubSeq(l.up, 1, n))
                  /\ lk.up = SubSeq(l.up, n + 1, Len(l.up)) /\ lk.far = l.far
            BY <2>2 DEF Receives, Thr, Lnk
        <3>2. 1 \in Nat \ {0} /\ n \in 0 .. Len(l.up)
            BY <1>2
        <3> DEFINE data == SubSeq(l.up, 1, n)
        <3>3. data \in Seq(Unit)
            BY <1>2, <3>2, InSubSeq
        <3>4. s.decoder = feed(t.decoder, data)
            BY <3>1
        <3> HIDE DEF data
        <3>5. t.decoder.ok /\ s.decoder.buffer = t.decoder.buffer \o data
            BY <1>2, <1>5, <3>3, <3>4, FeedFacts
        <3>6. Stream(s, lk) = Stream(t, l)
            <4> DEFINE a == t.decoder.buffer
                       u == l.up
            <4>1. a \in Seq(Unit) /\ u \in Seq(Unit) /\ n \in 0 .. Len(u)
                BY <1>2, <3>2
            <4> HIDE DEF a, u
            <4>2. (a \o SubSeq(u, 1, n)) \o SubSeq(u, n + 1, Len(u)) = a \o u
                BY <4>1, Rejoined
            <4> QED BY <3>1, <3>5, <4>2 DEF Stream, data, a, u
        <3> QED BY <1>5, <3>1, <3>5, <3>6 DEF TornInv, Torn
    <2>3. CASE Loops(c, lk, s)
        <3>1. s.decoder = t.decoder /\ lk = l
            BY <1>5, <2>3, DecoderFacts DEF Loops, Thr
        <3> QED BY <1>5, <3>1 DEF TornInv, Torn, Stream
    <2>4. CASE Leaves(c, lk, s)
        BY <1>5, <2>4 DEF Leaves, Lnk
    <2>5. CASE Replies(c, lk, s)
        <3>1. has_frame(t.decoder) /\ s.decoder = popped(t.decoder) /\ lk = l
            BY <2>5 DEF Replies
        <3>2. t.decoder.ok
            BY <3>1 DEF has_frame, StartsFrame
        <3>3. Barrier(t.decoder.buffer \o l.up, k)
            BY <1>5, <3>1, <3>2 DEF TornInv, Torn, Stream
        <3>4. Barrier(popped(t.decoder).buffer \o l.up, k)
            BY <1>2, <3>1, <3>3, BarrierPop
        <3> QED BY <1>5, <3>1, <3>2, <3>4 DEF Stream
    <2> QED BY <2>1, <2>2, <2>3, <2>4, <2>5 DEF SideStep
<1>6. Torn(c, s, lk, Len(told))
    BY <1>3, <1>5 DEF TornInv, Torn
<1>7. \A d \in Conns : ~link'[d].far => session'[d].at \in {"none", "done"}
    BY <1>1, <1>4 DEF TornInv
<1>8. \A d \in Conns : Torn(d, session'[d], link'[d], Len(told'))
    BY <1>1, <1>6 DEF TornInv
<1> QED BY <1>7, <1>8, TornNow

\* Every unit of the stream belongs to a call that was made.
LEMMA StreamCalls ==
    ASSUME TypeInv, KeyInv, NEW c \in 1 .. MaxConns
    PROVE  \A u \in In(Stream(session[c], link[c])) : u.frame.call <= Len(told)
<1>1. /\ c \in Conns
    BY TypeParts
<1>2. session[c].decoder.buffer \in Seq(Unit) /\ link[c].up \in Seq(Unit)
    BY <1>1, TypeParts DEF Link, Bounded, Decoder
<1>3. In(Stream(session[c], link[c])) = Units(session[c].decoder, link[c])
    BY <1>2, InConcat DEF Stream, Units
<1>4. \A u \in Units(session[c].decoder, link[c]) : u.frame \in Asks(c)
    BY DEF Asks, Asked
<1>5. \A p \in Asks(c) : p.call <= Len(told)
    BY DEF KeyInv, Counted
<1> QED BY <1>3, <1>4, <1>5

LEMMA TornClient ==
    ASSUME TypeInv, KeyInv, TornInv, NEW cl, NEW lk, ClientStep(cl, lk)
    PROVE  TornInv'
<1> DEFINE c == cl.conn
           l == link[c]
           s == session[c]
           q == Stream(s, l)
<1>1. /\ c \in 1 .. MaxConns /\ c \in Conns /\ link'[c] = lk /\ session' = session
      /\ \A d \in Conns : d # c => link'[d] = link[d]
      /\ l \in Link /\ told \in Seq(Outcomes) /\ s \in Thread /\ lk \in Link
    BY ClientTyped, TypeParts DEF ClientStep, ClientTurns
<1>2. /\ Len(told) \in Nat /\ l.up \in Seq(Unit) /\ s.decoder.buffer \in Seq(Unit)
      /\ l.torn \in Nat /\ lk.torn \in Nat
    BY <1>1 DEF Link, Thread, Decoder
<1>3. q \in Seq(Unit)
    BY <1>2, InConcat DEF Stream
<1>4. Len(told) <= Len(told')
    <2>1. CASE \E e \in Outcomes : told' = Append(told, e)
        BY <1>1, <1>2, <2>1
    <2>2. CASE told' = told
        BY <1>2, <2>2
    <2>3. CASE \E outcome, by : Tells(outcome, by)
        BY <1>1, <1>2, <2>3 DEF Tells
    <2>4. [outcome |-> "open", by |-> 0] \in Outcomes /\ [outcome |-> "failed", by |-> 0] \in Outcomes
        BY DEF Outcomes
    <2> QED BY <2>1, <2>2, <2>3, <2>4
            DEF ClientStep, Connects, Calls, Cuts, Refuses, Reads, Ends
<1>5. Torn(c, s, l, Len(told))
    BY <1>1 DEF TornInv
<1>6. /\ ~lk.far => s.at \in {"none", "done"}
      /\ Torn(c, s, lk, Len(told'))
    <2>1. CASE Connects(cl, lk)
        BY <2>1 DEF Connects, Torn
    <2>2. CASE ~Connects(cl, lk)
        <3>1. lk.far = l.far /\ c = client.conn
            BY <2>2 DEF ClientStep, Calls, Cuts, Refuses, Reads, Ends, HangsUp, Lnk, Cli
        <3>2. ~lk.far => s.at \in {"none", "done"}
            BY <1>1, <3>1 DEF TornInv
        <3>3. CASE lk.up = l.up /\ lk.torn = l.torn
            <4>1. Len(told') \in Nat
                <5>1. told' \in Seq(Outcomes)
                    BY ClientTyped DEF ClientTurns
                <5> QED BY <5>1
            <4>2. l.torn <= Len(told) => l.torn <= Len(told')
                BY <1>2, <1>4, <4>1
            <4> QED BY <1>5, <3>1, <3>2, <3>3, <4>2 DEF Torn, Stream
        <3>4. CASE ~(lk.up = l.up /\ lk.torn = l.torn)
            <4>1. PICK f : Calls(cl, lk, f) \/ Cuts(cl, lk, f)
                BY <2>2, <3>1, <3>4 DEF ClientStep, Refuses, Reads, Ends, HangsUp, Lnk
            <4>2. f \in Frame /\ f.call = Len(told) + 1 /\ Len(told') = Len(told) + 1
                BY <1>1, <4>1 DEF Calls, Cuts
            <4>3. f.size \in Nat /\ f.size + 1 \in 0 .. f.size + 1
                  /\ SubSeq(encode_frame(f), 1, f.size + 1) = encode_frame(f)
                  /\ \A n \in 0 .. f.size : n \in 0 .. f.size + 1
                BY <4>2, WholeSent
            <4>4. \E n \in 0 .. f.size + 1 :
                    /\ lk.up = IF l.far THEN l.up \o SubSeq(encode_frame(f), 1, n) ELSE l.up
                    /\ \/ lk.torn = l.torn
                       \/ l.torn = 0 /\ n \in 1 .. f.size /\ lk.torn = f.call
                <5>1. CASE Calls(cl, lk, f)
                    BY <3>1, <4>3, <5>1 DEF Calls, Lnk
                <5>2. CASE Cuts(cl, lk, f)
                    <6>1. PICK n \in 0 .. f.size :
                            /\ lk.up = IF l.far THEN l.up \o SubSeq(encode_frame(f), 1, n) ELSE l.up
                            /\ lk.torn = IF l.torn = 0 /\ n > 0 THEN f.call ELSE l.torn
                        BY <3>1, <5>2 DEF Cuts
                    <6>2. n > 0 => n \in 1 .. f.size
                        BY <4>3
                    <6> QED BY <4>3, <6>1, <6>2
                <5> QED BY <4>1, <5>1, <5>2
            <4>5. PICK n \in 0 .. f.size + 1 :
                    /\ lk.up = IF l.far THEN l.up \o SubSeq(encode_frame(f), 1, n) ELSE l.up
                    /\ \/ lk.torn = l.torn
                       \/ l.torn = 0 /\ n \in 1 .. f.size /\ lk.torn = f.call
                BY <4>4
            <4> DEFINE x == SubSeq(encode_frame(f), 1, n)
            <4>6. x \in Seq(Unit) /\ \A u \in In(x) : u.frame = f
                <5>1. n \in 0 .. Len(encode_frame(f)) /\ 1 \in Nat \ {0}
                      /\ encode_frame(f) \in Seq(Unit) /\ \A u \in In(encode_frame(f)) : u.frame = f
                    BY <4>2, <4>5, EncodeFacts
                <5>2. x \in Seq(Unit) /\ In(x) \subseteq In(encode_frame(f))
                    BY <5>1, InSubSeq
                <5> HIDE DEF x
                <5> QED BY <5>1, <5>2
            <4>7. l.far => Stream(s, lk) = q \o x
                <5>1. l.far => lk.up = l.up \o x
                    BY <4>5
                <5> HIDE DEF x
                <5>2. s.decoder.buffer \o (l.up \o x) = (s.decoder.buffer \o l.up) \o x
                    <6> DEFINE a == s.decoder.buffer
                               u == l.up
                    <6>1. a \in Seq(Unit) /\ u \in Seq(Unit) /\ x \in Seq(Unit)
                        BY <1>2, <4>6
                    <6> HIDE DEF a, u
                    <6>2. a \o (u \o x) = (a \o u) \o x
                        BY <6>1, ConcatAssociative
                    <6> QED BY <6>2 DEF a, u
                <5> QED BY <5>1, <5>2 DEF Stream
            <4>8. \A u \in In(q) : u.frame.call <= Len(told) /\ u.frame.call \in Nat
                <5>1. \A u \in In(q) : u \in Unit
                    BY <1>3 DEF In
                <5>2. \A u \in In(q) : u.frame.call \in Nat
                    BY <5>1 DEF Unit, Frame
                <5> QED BY <1>1, <5>2, StreamCalls
            <4> HIDE DEF q
            <4>9. CASE lk.torn = l.torn
                <5>1. ASSUME l.torn # 0
                      PROVE  l.torn <= Len(told) /\ l.torn <= Len(told') /\ l.torn # f.call
                    BY <1>2, <1>5, <4>2, <5>1 DEF Torn
                <5>2. ASSUME l.torn # 0, l.far, s.decoder.ok
                      PROVE  Barrier(Stream(s, lk), l.torn)
                    <6>1. Barrier(q, l.torn)
                        BY <1>5, <5>2 DEF Torn, q
                    <6>2. \A u \in In(x) : u.frame.call # l.torn
                        BY <4>6, <5>1, <5>2
                    <6> HIDE DEF x
                    <6>3. Barrier(q \o x, l.torn)
                        BY <1>2, <1>3, <4>6, <6>1, <6>2, BarrierMore
                    <6> QED BY <4>7, <5>2, <6>3
                <5> QED BY <1>1, <3>1, <3>2, <4>9, <5>1, <5>2 DEF Torn
            <4>10. CASE lk.torn # l.torn
                <5>1. n \in 1 .. f.size /\ lk.torn = f.call
                    BY <4>5, <4>10
                <5>2. \A u \in In(q) : u.frame.call < f.call
                    BY <1>2, <4>2, <4>8
                <5>3. Barrier(q \o x, f.call)
                    BY <1>3, <4>2, <5>1, <5>2, BarrierNew
                <5>4. f.call <= Len(told')
                    BY <1>2, <4>2
                <5> HIDE DEF x
                <5> QED BY <1>1, <3>1, <3>2, <4>7, <5>1, <5>3, <5>4 DEF Torn
            <4> QED BY <4>9, <4>10
        <3> QED BY <3>3, <3>4
    <2> QED BY <2>1, <2>2
<1>7. ASSUME NEW d \in Conns, d # c
      PROVE  Torn(d, session[d], link[d], Len(told'))
    <2>1. link[d].torn \in Nat /\ Len(told') \in Nat
        <3>1. told' \in Seq(Outcomes) /\ link[d] \in Link
            BY ClientTyped, TypeParts DEF ClientTurns
        <3> QED BY <3>1 DEF Link
    <2>2. link[d].torn <= Len(told) => link[d].torn <= Len(told')
        BY <1>2, <1>4, <2>1
    <2> QED BY <2>2 DEF TornInv, Torn
<1>8. \A d \in Conns : ~link'[d].far => session'[d].at \in {"none", "done"}
    BY <1>1, <1>6 DEF TornInv
<1>9. \A d \in Conns : Torn(d, session'[d], link'[d], Len(told'))
    BY <1>1, <1>6, <1>7
<1> QED BY <1>8, <1>9, TornNow

LEMMA TornRest ==
    ASSUME TypeInv, TornInv,
           \/ \E c \in RawConns : \E lk : RawStep(c, lk)
           \/ DownStep \/ RestartStep \/ UNCHANGED vars
    PROVE  TornInv'
<1>1. told' = told
    BY DEF RawStep, DownStep, RestartStep, vars
<1>2. CASE \E c \in RawConns : \E lk : RawStep(c, lk)
    <2>0. PICK c \in RawConns : \E lk : RawStep(c, lk)
        BY <1>2
    <2>1. PICK lk : RawStep(c, lk)
        BY <2>0
    <2>2. /\ link'[c] = lk /\ session' = session /\ c \in Conns
          /\ \A d \in Conns : d # c => link'[d] = link[d]
          /\ lk.torn = link[c].torn /\ (link[c].far => lk.far) /\ c \notin 1 .. MaxConns
        BY <2>1, RawTyped, TypeParts DEF RawStep, Conns
    <2>3. \A d \in Conns : ~link'[d].far => session'[d].at \in {"none", "done"}
        BY <2>2 DEF TornInv
    <2>4. \A d \in Conns : Torn(d, session'[d], link'[d], Len(told'))
        BY <1>1, <2>2 DEF TornInv, Torn
    <2> QED BY <2>3, <2>4, TornNow
<1>3. CASE DownStep
    <2>1. \A d \in Conns : /\ session'[d].at \in {"none", "done"}
                           /\ ~link'[d].far /\ link'[d].torn = link[d].torn
        BY <1>3 DEF DownStep, Lnk
    <2>2. \A d \in Conns : Torn(d, session'[d], link'[d], Len(told'))
        BY <1>1, <2>1 DEF TornInv, Torn
    <2> QED BY <2>1, <2>2, TornNow
<1>4. CASE RestartStep \/ UNCHANGED vars
    <2>1. link' = link /\ session' = session
        BY <1>4 DEF RestartStep, vars
    <2> QED BY <1>1, <2>1, TornNow DEF TornInv
<1> QED BY <1>2, <1>3, <1>4

LEMMA TornStep ==
    ASSUME TypeInv, KeyInv, TornInv, Steps
    PROVE  TornInv'
BY TornSide, TornClient, TornRest DEF Steps

LEMMA TornInit ==
    ASSUME Init
    PROVE  TornInv
BY DEF Init, TornInv, Torn, NoLink, NoThread

LEMMA ResynchStep ==
    ASSUME TypeInv, NameInv, KeyInv, TornInv, NoResynchronisation, Steps
    PROVE  NoResynchronisation'
<1>1. applied \in Seq(Entries) /\ \A i \in 1 .. Len(applied) : applied[i].conn \in Conns
    <2>1. applied \in Seq(Entries)
        BY TypeParts
    <2>2. \A a \in Entries : a.conn \in Conns
        BY DEF Entries
    <2> QED BY <2>1, <2>2
<1>2. ASSUME NEW i \in 1 .. Len(applied), link'[applied[i].conn].torn # 0
      PROVE  applied[i].call < link'[applied[i].conn].torn
    <2> DEFINE a == applied[i]
               d == a.conn
    <2>1. d \in Conns
        BY <1>1
    <2>2. CASE link'[d].torn = link[d].torn
        <3>1. i \in DOMAIN applied
            BY <1>1
        <3> QED BY <1>2, <2>2, <3>1 DEF NoResynchronisation
    <2>3. CASE link'[d].torn # link[d].torn
        <3>1. PICK cl, lk : ClientStep(cl, lk)
            <4>1. ASSUME NEW c \in Conns, NEW lk, NEW s, SideStep(c, lk, s)
                  PROVE  FALSE
                <5>1. lk.torn = link[c].torn
                    BY <4>1 DEF SideStep, Accepts, Receives, Loops, Leaves, Sends, Replies, Lnk
                <5> QED BY <2>1, <2>3, <4>1, <5>1, SideTyped
            <4>2. ASSUME NEW c \in RawConns, NEW lk, RawStep(c, lk)
                  PROVE  FALSE
                <5>1. lk.torn = link[c].torn
                    BY <4>2 DEF RawStep
                <5> QED BY <2>1, <2>3, <4>2, <5>1, RawTyped
            <4>3. CASE DownStep \/ RestartStep \/ UNCHANGED vars
                BY <2>1, <2>3, <4>3 DEF DownStep, RestartStep, vars, Lnk
            <4> QED BY <4>1, <4>2, <4>3 DEF Steps
        <3>2. /\ d = cl.conn /\ link'[d] = lk /\ cl.conn \in 1 .. MaxConns
            BY <2>1, <2>3, <3>1, ClientTyped
        <3>3. a \in In(applied) /\ a \in Entries
            BY <1>1 DEF In
        <3>4. a \in Asks(d)
            BY <3>3 DEF Asks, Asked
        <3>5. a.call <= Len(told) /\ a.call \in Nat /\ Len(told) \in Nat
            <4>1. a.call <= Len(told)
                BY <3>2, <3>4 DEF KeyInv, Counted
            <4>2. told \in Seq(Outcomes)
                BY TypeParts
            <4> HIDE DEF a
            <4> QED BY <3>3, <4>1, <4>2 DEF Entries
        <3>6. lk.torn \in {0, Len(told) + 1}
            <4>1. CASE Connects(cl, lk)
                BY <4>1 DEF Connects
            <4>2. CASE ~Connects(cl, lk)
                <5>1. lk.torn = link[client.conn].torn \/ lk.torn = Len(told) + 1
                    BY <3>1, <4>2 DEF ClientStep, Calls, Cuts, Refuses, Reads, Ends, HangsUp, Lnk
                <5>2. cl.conn = client.conn
                    BY <3>1, <4>2 DEF ClientStep, Calls, Cuts, Refuses, Reads, Ends, HangsUp, Cli
                <5> QED BY <2>3, <3>2, <5>1, <5>2
            <4> QED BY <4>1, <4>2
        <3> QED BY <1>2, <3>2, <3>5, <3>6
    <2> QED BY <2>2, <2>3
<1>3. CASE applied' = applied
    <2>1. \A i \in DOMAIN applied : i \in 1 .. Len(applied)
        BY <1>1
    <2> QED BY <1>2, <1>3, <2>1 DEF NoResynchronisation
<1>4. CASE applied' # applied
    <2>0. PICK c \in Conns : \E lk, s : SideStep(c, lk, s)
        BY <1>4 DEF Steps, ClientStep, RawStep, DownStep, RestartStep, vars
    <2>1. PICK lk, s : SideStep(c, lk, s)
        BY <2>0
    <2> DEFINE t == session[c]
               f == FirstFrame(t.decoder)
               e == Entry(c, f)
    <2>2. /\ t.at = "pop" /\ has_frame(t.decoder) /\ f \in Frame
          /\ applied' = Append(applied, e) /\ e \in Entries
        BY <1>4, <2>1, AppliedGrows
    <2>3. /\ link'[c].torn = link[c].torn
        <3>1. lk.torn = link[c].torn
            BY <2>1 DEF SideStep, Accepts, Receives, Loops, Leaves, Sends, Replies, Lnk
        <3> QED BY <2>1, <3>1, SideTyped
    <2>4. link[c].torn # 0 => f.call < link[c].torn
        <3> SUFFICES ASSUME link[c].torn # 0
                     PROVE  f.call < link[c].torn
            OBVIOUS
        <3>1. link[c].far /\ t.decoder.ok
            BY <2>2 DEF TornInv, has_frame, StartsFrame
        <3>2. Barrier(t.decoder.buffer \o link[c].up, link[c].torn)
            BY <3>1 DEF TornInv, Torn, Stream
        <3>3. Bounded(t.decoder) /\ link[c].up \in Seq(Unit) /\ link[c].torn \in Nat
            BY TypeParts DEF Link
        <3> QED BY <2>2, <3>2, <3>3, BarrierPop
    <2>5. e.conn = c /\ e.call = f.call
        BY DEF Entry
    <2> HIDE DEF e, f
    <2>6. /\ Len(applied) \in Nat /\ DOMAIN applied' = 1 .. Len(applied) + 1
          /\ \A i \in 1 .. Len(applied) : applied'[i] = applied[i]
          /\ applied'[Len(applied) + 1] = e
        BY <1>1, <2>2
    <2>7. ASSUME NEW i \in DOMAIN applied', link'[applied'[i].conn].torn # 0
          PROVE  applied'[i].call < link'[applied'[i].conn].torn
        <3>1. i \in 1 .. Len(applied) \/ i = Len(applied) + 1
            BY <2>6
        <3>2. CASE i \in 1 .. Len(applied)
            BY <1>2, <2>6, <2>7, <3>2
        <3>3. CASE i = Len(applied) + 1
            BY <2>3, <2>4, <2>5, <2>6, <2>7, <3>3
        <3> QED BY <3>1, <3>2, <3>3
    <2> QED BY <2>7 DEF NoResynchronisation
<1> QED BY <1>3, <1>4

\* A session whose stream was cut inside a frame never finds its way back into
\* it: nothing the client sends on that connection later reaches the fabric,
\* however the stream is cut into pieces and whatever it carries
\* (FrameDecoder::pop in src/src/protocol.cpp fails for good).
THEOREM NeverResynchronises == Spec => []NoResynchronisation
<1> DEFINE Inv == RequestInv /\ TornInv /\ NoResynchronisation
<1>1. Init => Inv
    <2>1. Init => NoResynchronisation
        BY DEF Init, NoResynchronisation
    <2> QED BY <2>1, TypeInit, NameInit, KeyInit, TornInit DEF RequestInv
<1>2. Inv /\ [Next]_vars => Inv'
    BY StepForms, TypeStep, NameStep, KeyStep, TornStep, ResynchStep DEF RequestInv
<1> QED BY <1>1, <1>2, PTL DEF Spec


-----------------------------------------------------------------------------
(* Decoders on connections without failed calls. *)

\* A stream that holds one frame or the beginning of one, and no large one.
Piece(q) ==
    q # <<>> =>
      LET f == q[1].frame
      IN  /\ f.size < MaxFrame /\ Len(q) <= f.size + 1
          /\ \A i \in 1 .. Len(q) : q[i] = [frame |-> f, part |-> i - 1]

\* What the session has still to read, and what it is about to answer.
Owed(s, lk) == Stream(s, lk) # <<>> \/ s.at = "send"

\* What the client has still to read.
Inbox(cl, lk) == cl.decoder.buffer \o lk.down

CalmSession(s, lk) ==
    /\ s.decoder.ok /\ Piece(Stream(s, lk))
    /\ s.at = "send" => Stream(s, lk) = <<>> /\ s.reply.size < MaxFrame

\* One of the two is on its way, the request or the answer, and neither where no
\* call waits.
CalmClient(cl, s, lk) ==
    /\ cl.decoder.ok
    /\ cl.at # "closed" =>
         /\ Piece(Inbox(cl, lk))
         /\ Inbox(cl, lk) # <<>> => ~Owed(s, lk)
         /\ cl.at = "idle" => Inbox(cl, lk) = <<>> /\ ~Owed(s, lk)

Calm(cl, c, s, lk) ==
    lk.clean => CalmSession(s, lk) /\ (cl.conn = c => CalmClient(cl, s, lk))

CalmInv == \A c \in 1 .. MaxConns : Calm(client, c, session[c], link[c])


\* Of a frame, any number of its first units is a piece.
LEMMA PieceEncode ==
    ASSUME NEW f \in Frame, f.size < MaxFrame, NEW n \in 0 .. Len(encode_frame(f))
    PROVE  LET q == SubSeq(encode_frame(f), 1, n)
           IN  q \in Seq(Unit) /\ Piece(q)
<1> DEFINE e == encode_frame(f)
           q == SubSeq(e, 1, n)
<1>1. /\ e \in Seq(Unit) /\ Len(e) = f.size + 1 /\ f.size \in Nat
      /\ \A i \in 1 .. f.size + 1 : e[i] = [frame |-> f, part |-> i - 1]
    BY EncodeFacts
<1> HIDE DEF e
<1>2. n \in 0 .. f.size + 1 /\ n \in Nat /\ n \in 0 .. Len(e) /\ 1 \in Nat \ {0}
    BY <1>1 DEF e
<1>3. q \in Seq(Unit)
    BY <1>1, <1>2, InSubSeq
<1>4. Len(q) = n /\ \A i \in 1 .. n : q[i] = e[i]
    <2>1. \A i \in 1 .. n : i \in 1 .. Len(e) /\ e[i] \in Unit
        BY <1>1, <1>2
    <2> QED BY <1>2, <2>1, SubSeqProperties
<1> HIDE DEF q
<1>5. ASSUME NEW i \in 1 .. n
      PROVE  q[i] = [frame |-> f, part |-> i - 1]
    <2>1. i \in 1 .. f.size + 1
        BY <1>1, <1>2
    <2>2. q[i] = e[i] /\ e[i] = [frame |-> f, part |-> i - 1]
        BY <1>1, <1>4, <2>1
    <2> QED BY <2>2
<1>6. ASSUME q # <<>>
      PROVE  1 \in 1 .. n /\ q[1].frame = f
    <2>1. Len(q) # 0
        BY <1>3, <1>6, EmptySeq
    <2>2. 1 \in 1 .. n
        BY <1>2, <1>4, <2>1
    <2>3. q[1] = [frame |-> f, part |-> 1 - 1]
        BY <1>5, <2>2
    <2> QED BY <2>2, <2>3
<1>7. Piece(q)
    BY <1>1, <1>2, <1>4, <1>5, <1>6 DEF Piece
<1> QED BY <1>3, <1>7 DEF q, e

\* Nothing that arrives is refused: a piece is never longer than the buffer.
LEMMA PieceFeed ==
    ASSUME NEW d, Bounded(d), d.ok, NEW u \in Seq(Unit), Piece(d.buffer \o u),
           NEW n \in 1 .. Len(u)
    PROVE  LET e == feed(d, SubSeq(u, 1, n))
           IN  e.ok /\ e.buffer \o SubSeq(u, n + 1, Len(u)) = d.buffer \o u
<1> DEFINE b == d.buffer
           q == b \o u
           x == SubSeq(u, 1, n)
<1>1. b \in Seq(Unit) /\ MaxFrame \in Nat /\ d \in Decoder
    BY FrameAssumption DEF Bounded, Decoder
<1>2. n \in 0 .. Len(u) /\ n \in Nat /\ Len(u) \in Nat /\ Len(b) \in Nat /\ 1 \in Nat \ {0}
    BY <1>1
<1>3. x \in Seq(Unit) /\ Len(x) <= Len(u)
    BY <1>2, InSubSeq
<1>4. q \in Seq(Unit) /\ Len(q) = Len(b) + Len(u)
    BY <1>1, InConcat, ConcatProperties
<1>5. Len(q) <= MaxFrame
    <2> HIDE DEF q
    <2>1. q # <<>>
        <3>1. Len(q) > 0
            BY <1>2, <1>4
        <3> QED BY <3>1
    <2>2. q[1] \in Unit
        BY <1>2, <1>4
    <2>3. q[1].frame.size \in Nat
        BY <2>2 DEF Unit, Frame
    <2>4. Piece(q)
        BY DEF q
    <2>5. q[1].frame.size < MaxFrame /\ Len(q) <= q[1].frame.size + 1
        BY <2>1, <2>4 DEF Piece
    <2> QED BY <1>1, <1>4, <2>3, <2>5
<1> HIDE DEF q, x
<1>6. Len(x) \in Nat /\ ~(Len(x) > MaxFrame - Len(b))
    BY <1>1, <1>2, <1>3, <1>4, <1>5
<1> DEFINE e == [d EXCEPT !.buffer = b \o x]
<1>7. feed(d, x) = e
    BY <1>6 DEF feed
<1>8. e.ok /\ e.buffer = b \o x
    BY <1>1 DEF Decoder
<1> HIDE DEF e, b
<1>9. (b \o SubSeq(u, 1, n)) \o SubSeq(u, n + 1, Len(u)) = b \o u
    BY <1>1, <1>2, Rejoined
<1> QED BY <1>7, <1>8, <1>9 DEF x, b

\* A decoder that sees the beginning of a piece waits for more of it or has it
\* whole, and then nothing follows.
LEMMA PiecePop ==
    ASSUME NEW d, Bounded(d), d.ok, NEW u \in Seq(Unit), Piece(d.buffer \o u)
    PROVE  /\ Incomplete(d) \/ has_frame(d)
           /\ has_frame(d) => /\ d.buffer \o u # <<>>
                              /\ popped(d).ok /\ popped(d).buffer \o u = <<>>
<1> DEFINE b == d.buffer
           q == b \o u
           f == q[1].frame
           n == f.size + 1
<1>1. b \in Seq(Unit) /\ d \in Decoder /\ Len(b) \in Nat /\ Len(u) \in Nat
    BY DEF Bounded, Decoder
<1>2. /\ q \in Seq(Unit) /\ Len(q) = Len(b) + Len(u)
      /\ \A i \in 1 .. Len(b) + Len(u) : q[i] = IF i <= Len(b) THEN b[i] ELSE u[i - Len(b)]
    BY <1>1, InConcat, ConcatProperties
<1>p. Piece(q)
    OBVIOUS
<1> HIDE DEF q
<1>3. CASE b = <<>>
    BY <1>3 DEF Incomplete, has_frame, StartsFrame
<1>4. CASE b # <<>>
    <2>1. Len(b) > 0 /\ Head(b) = b[1]
        BY <1>1, <1>4, EmptySeq
    <2>2. 1 \in 1 .. Len(q) /\ q # <<>> /\ q[1] = b[1]
        <3>1. 1 \in 1 .. Len(q) /\ 1 <= Len(b) /\ 1 \in 1 .. Len(b) + Len(u)
            BY <1>1, <1>2, <2>1
        <3>2. q # <<>>
            BY <3>1
        <3> QED BY <1>2, <3>1, <3>2
    <2>3. q[1] \in Unit
        BY <1>2, <2>2
    <2>4. f \in Frame /\ f.size \in Nat /\ n \in Nat
        BY <2>3 DEF Unit, Frame
    <2>5. Len(q) <= n /\ \A i \in 1 .. Len(q) : q[i] = [frame |-> f, part |-> i - 1]
        BY <1>p, <2>2 DEF Piece
    <2> HIDE DEF f
    <2>6. ASSUME NEW i \in 1 .. Len(b)
          PROVE  b[i] = [frame |-> f, part |-> i - 1]
        <3>1. i \in 1 .. Len(b) + Len(u) /\ i \in 1 .. Len(q) /\ i <= Len(b)
            BY <1>1, <1>2
        <3>2. q[i] = b[i] /\ q[i] = [frame |-> f, part |-> i - 1]
            BY <1>2, <2>5, <3>1
        <3> QED BY <3>2
    <2>7. Head(b).frame = f /\ Head(b).part = 0
        <3>1. b[1] = [frame |-> f, part |-> 1 - 1] /\ 1 - 1 = 0
            BY <1>1, <2>1, <2>6
        <3> QED BY <2>1, <3>1
    <2>8. StartsFrame(d) /\ Declared(d) = n
        BY <1>4, <2>7 DEF StartsFrame, Declared
    <2>9. CASE Len(b) < n
        <3>1. ~(Len(b) >= n)
            BY <1>1, <2>4, <2>9
        <3> QED BY <2>8, <2>9, <3>1 DEF Incomplete, has_frame
    <2>10. CASE ~(Len(b) < n)
        <3>1. Len(b) = n /\ Len(u) = 0
            BY <1>1, <1>2, <2>4, <2>5, <2>10
        <3>2. SubSeq(b, 1, n) = b
            BY <1>1, <3>1, SubSeqFull
        <3>3. b = encode_frame(f)
            <4> DEFINE e == encode_frame(f)
            <4>1. /\ e \in Seq(Unit) /\ Len(e) = n
                  /\ \A i \in 1 .. n : e[i] = [frame |-> f, part |-> i - 1]
                BY <2>4, EncodeFacts
            <4> HIDE DEF e
            <4>2. \A i \in 1 .. Len(b) : b[i] = e[i]
                BY <2>6, <3>1, <4>1
            <4>3. b = e
                BY <1>1, <3>1, <4>1, <4>2, SeqEqual
            <4> QED BY <4>3 DEF e
        <3>4. has_frame(d)
            BY <2>4, <2>7, <2>8, <3>1, <3>2, <3>3 DEF has_frame
        <3>5. FirstFrame(d) = f
            BY <2>7 DEF FirstFrame
        <3>6. popped(d).ok /\ popped(d).buffer = SubSeq(b, f.size + 2, Len(b))
            BY <3>4, <3>5, PopFacts
        <3>7. SubSeq(b, f.size + 2, Len(b)) = <<>>
            <4>1. f.size + 2 > Len(b) /\ f.size + 2 \in Nat
                BY <2>4, <3>1
            <4> QED BY <1>1, <4>1, SubSeqEmpty
        <3>8. u = <<>>
            BY <3>1, EmptySeq
        <3>9. <<>> \o <<>> = <<>>
            OBVIOUS
        <3> QED BY <2>2, <3>4, <3>6, <3>7, <3>8, <3>9 DEF q
    <2> QED BY <2>9, <2>10
<1> QED BY <1>3, <1>4


LEMMA PieceEmpty == Piece(<<>>) /\ <<>> \in Seq(Unit)
BY DEF Piece

LEMMA EmptyParts ==
    ASSUME NEW S, NEW a \in Seq(S), NEW b \in Seq(S), NEW x \in Seq(S), a \o b = <<>>
    PROVE  a \o (b \o x) = x
<1>1. a \o (b \o x) = (a \o b) \o x
    BY ConcatAssociative
<1>2. <<>> \o x = x
    BY ConcatEmptySeq
<1> QED BY <1>1, <1>2

LEMMA CalmNow ==
    ASSUME \A c \in 1 .. MaxConns : Calm(client', c, session'[c], link'[c])
    PROVE  CalmInv'
BY DEF CalmInv, Calm, CalmSession, CalmClient, Owed, Inbox, Stream, Piece

\* The session reads the request to its end before it answers, and answers once.
LEMMA CalmSide ==
    ASSUME TypeInv, CalmInv, NEW c \in Conns, NEW lk, NEW s, SideStep(c, lk, s)
    PROVE  CalmInv'
<1> DEFINE t == session[c]
           l == link[c]
           q == Stream(t, l)
<1>0. client' = client
    BY DEF SideStep
<1>1. /\ link'[c] = lk /\ session'[c] = s
      /\ \A d \in Conns : d # c => link'[d] = link[d] /\ session'[d] = session[d]
      /\ \A d \in 1 .. MaxConns : d \in Conns
    BY SideTyped, TypeParts
<1>2. ASSUME c \in 1 .. MaxConns, lk.clean
      PROVE  CalmSession(s, lk) /\ (client.conn = c => CalmClient(client, s, lk))
    <2>1. /\ Bounded(t.decoder) /\ l.up \in Seq(Unit) /\ l.down \in Seq(Unit)
          /\ t.decoder.buffer \in Seq(Unit) /\ client.decoder.buffer \in Seq(Unit)
          /\ t.reply \in Frame
        BY TypeParts DEF Link, Bounded, Decoder, Thread
    <2>2. l.clean
        BY <1>2 DEF SideStep, Accepts, Receives, Loops, Leaves, Sends, Replies, Lnk
    <2>3. CalmSession(t, l) /\ (client.conn = c => CalmClient(client, t, l))
        BY <1>2, <2>2 DEF CalmInv, Calm
    <2>4. t.decoder.ok /\ Piece(q) /\ Piece(t.decoder.buffer \o l.up)
        BY <2>3 DEF CalmSession, Stream
    <2>5. Stream(t, l) = t.decoder.buffer \o l.up
        BY DEF Stream
    \* Nothing is answered by this step.
    <2>6. ASSUME s.decoder.ok, Stream(s, lk) = q \/ Stream(s, lk) = <<>>, s.at # "send",
                 lk.down = l.down
          PROVE  CalmSession(s, lk) /\ (client.conn = c => CalmClient(client, s, lk))
        <3> HIDE DEF q
        <3>1. CalmSession(s, lk)
            BY <2>4, <2>6, PieceEmpty DEF CalmSession
        <3>2. Owed(s, lk) => Owed(t, l)
            BY <2>6 DEF Owed, q
        <3>3. Inbox(client, lk) = Inbox(client, l)
            BY <2>6 DEF Inbox
        <3> QED BY <2>3, <3>1, <3>2, <3>3 DEF CalmClient
    \* An answer is sent, or a part of one.
    <2>7. ASSUME t.at = "send", s.at # "send", s.decoder.ok, Stream(s, lk) = <<>>,
                 NEW n \in 0 .. Len(encode_frame(t.reply)),
                 lk.down = l.down \o SubSeq(encode_frame(t.reply), 1, n)
          PROVE  CalmSession(s, lk) /\ (client.conn = c => CalmClient(client, s, lk))
        <3> DEFINE x == SubSeq(encode_frame(t.reply), 1, n)
        <3>1. x \in Seq(Unit) /\ Piece(x)
            BY <2>1, <2>3, <2>7, PieceEncode DEF CalmSession
        <3>2. lk.down = l.down \o x
            BY <2>7
        <3> HIDE DEF x
        <3>3. CalmSession(s, lk)
            BY <2>7, PieceEmpty DEF CalmSession
        <3>4. ~Owed(s, lk) /\ Owed(t, l)
            BY <2>7 DEF Owed
        <3>5. ASSUME client.conn = c, client.at # "closed"
              PROVE  Inbox(client, lk) = x /\ client.at # "idle"
            <4>1. client.at # "idle" /\ client.decoder.buffer \o l.down = <<>>
                BY <2>3, <3>4, <3>5 DEF CalmClient, Inbox
            <4>2. client.decoder.buffer \o (l.down \o x) = x
                BY <2>1, <3>1, <4>1, EmptyParts
            <4> QED BY <3>2, <4>1, <4>2 DEF Inbox
        <3> QED BY <2>3, <3>1, <3>3, <3>4, <3>5 DEF CalmClient
    <2>8. CASE Accepts(c, lk, s)
        BY <2>4, <2>6, <2>8 DEF Accepts, Thr, Stream
    <2>9. CASE Receives(c, lk, s)
        <3>1. PICK n \in 1 .. Len(l.up) :
                  /\ s.decoder = feed(t.decoder, SubSeq(l.up, 1, n)) /\ s.at = "pop"
                  /\ lk.up = SubSeq(l.up, n + 1, Len(l.up)) /\ lk.down = l.down
            BY <2>9 DEF Receives, Thr, Lnk
        <3>2. s.decoder.ok /\ s.decoder.buffer \o lk.up = t.decoder.buffer \o l.up
            <4> DEFINE d == t.decoder
                       u == l.up
                       e == feed(d, SubSeq(u, 1, n))
            <4>1. Bounded(d) /\ d.ok /\ u \in Seq(Unit) /\ Piece(d.buffer \o u) /\ n \in 1 .. Len(u)
                BY <2>1, <2>4, <3>1
            <4> HIDE DEF d, u
            <4>2. e.ok /\ e.buffer \o SubSeq(u, n + 1, Len(u)) = d.buffer \o u
                BY <4>1, PieceFeed
            <4> QED BY <3>1, <4>2 DEF d, u
        <3> QED BY <2>6, <3>1, <3>2 DEF Stream
    <2>10. CASE Loops(c, lk, s)
        <3>1. Incomplete(t.decoder) \/ has_frame(t.decoder)
            BY <2>1, <2>4, PiecePop
        <3>2. s.decoder = t.decoder /\ lk = l /\ s.at = "recv"
            BY <2>10, <3>1 DEF Loops, Thr
        <3> QED BY <2>4, <2>6, <3>2 DEF Stream
    <2>11. CASE Leaves(c, lk, s)
        <3>1. s.at = "done" /\ s.decoder = Fresh /\ lk.up = <<>>
            BY <2>11 DEF Leaves, Lnk
        <3>2. s.decoder.ok /\ Stream(s, lk) = <<>>
            <4>1. <<>> \o <<>> = <<>>
                OBVIOUS
            <4> QED BY <3>1, <4>1, DecoderFacts DEF Stream
        <3>3. \/ lk.down = l.down
              \/ /\ t.at = "send"
                 /\ \E n \in 0 .. Len(encode_frame(t.reply)) :
                      lk.down = l.down \o SubSeq(encode_frame(t.reply), 1, n)
            BY <2>11 DEF Leaves, Lnk
        <3> QED BY <2>6, <2>7, <3>1, <3>2, <3>3
    <2>12. CASE Sends(c, lk, s)
        <3>1. /\ t.at = "send" /\ s.at # "send" /\ s.decoder = t.decoder /\ lk.up = l.up
              /\ lk.down = l.down \/ lk.down = l.down \o encode_frame(t.reply)
            BY <2>12 DEF Sends, Thr, Lnk
        <3>2. s.decoder.ok /\ Stream(s, lk) = q /\ q = <<>>
            BY <2>3, <2>4, <3>1 DEF Stream, CalmSession
        <3>3. /\ encode_frame(t.reply) = SubSeq(encode_frame(t.reply), 1, Len(encode_frame(t.reply)))
              /\ Len(encode_frame(t.reply)) \in 0 .. Len(encode_frame(t.reply))
            <4> DEFINE e == encode_frame(t.reply)
            <4>1. e \in Seq(Unit)
                BY <2>1, EncodeFacts
            <4> HIDE DEF e
            <4>2. e = SubSeq(e, 1, Len(e)) /\ Len(e) \in 0 .. Len(e)
                BY <4>1, SubSeqFull
            <4> QED BY <4>2 DEF e
        <3> QED BY <2>6, <2>7, <3>1, <3>2, <3>3
    <2>13. CASE Replies(c, lk, s)
        <3>1. /\ has_frame(t.decoder) /\ lk = l /\ s.at = "send"
              /\ s.decoder = popped(t.decoder) /\ s.reply.size < MaxFrame
            BY <2>13 DEF Replies
        <3>2. s.decoder.ok /\ Stream(s, lk) = <<>> /\ q # <<>>
            BY <2>1, <2>4, <3>1, PiecePop DEF Stream
        <3>3. CalmSession(s, lk)
            BY <3>1, <3>2, PieceEmpty DEF CalmSession
        <3>4. Owed(t, l)
            BY <3>2 DEF Owed
        <3>5. client.conn = c => CalmClient(client, s, lk)
            BY <2>3, <3>1, <3>4 DEF CalmClient
        <3> QED BY <3>3, <3>5
    <2> QED BY <2>8, <2>9, <2>10, <2>11, <2>12, <2>13 DEF SideStep
<1>3. ASSUME NEW d \in 1 .. MaxConns
      PROVE  Calm(client, d, session'[d], link'[d])
    <2>1. CASE d = c
        BY <1>1, <1>2, <2>1 DEF Calm
    <2>2. CASE d # c
        BY <1>1, <2>2 DEF CalmInv
    <2> QED BY <2>1, <2>2
<1> QED BY <1>0, <1>3, CalmNow


LEMMA BlankFits == Blank \in Frame /\ Blank.size < MaxFrame
<1>1. MaxFrame \in Nat /\ Sizes \subseteq 1 .. MaxFrame - 1 /\ 1 \in Sizes
    BY FrameAssumption, SessionAssumption
<1>2. 1 < MaxFrame
    BY <1>1
<1> QED BY <1>2, BlankType DEF Blank

\* The caller sends the next request when the last answer is read to its end.
LEMMA CalmCaller ==
    ASSUME TypeInv, CalmInv, NEW cl, NEW lk, ClientStep(cl, lk)
    PROVE  CalmInv'
<1> DEFINE c == cl.conn
           l == link[c]
           s == session[c]
<1>1. /\ c \in 1 .. MaxConns /\ c \in Conns /\ link'[c] = lk /\ session' = session
      /\ client' = cl /\ \A d \in Conns : d # c => link'[d] = link[d]
      /\ \A d \in 1 .. MaxConns : d \in Conns
    BY ClientTyped, TypeParts DEF ClientStep
<1>2. ASSUME lk.clean
      PROVE  CalmSession(s, lk) /\ CalmClient(cl, s, lk)
    <2>1. /\ Bounded(client.decoder) /\ l.up \in Seq(Unit) /\ l.down \in Seq(Unit)
          /\ s.decoder.buffer \in Seq(Unit) /\ client.conn \in 0 .. MaxConns
        BY <1>1, TypeParts DEF Link, Bounded, Decoder, Thread
    <2>2. CASE Connects(cl, lk)
        <3>1. Unused(c)
            BY <1>1, <2>1, <2>2 DEF Connects, TypeInv
        <3>2. s.decoder = Fresh /\ s.at = "none"
            BY <3>1 DEF Unused, NoThread
        <3>3. PICK n \in 0 .. Len(encode_frame(Blank)) : lk.up = SubSeq(encode_frame(Blank), 1, n)
            BY <2>2 DEF Connects
        <3>4. lk.up \in Seq(Unit) /\ Piece(lk.up)
            BY <3>3, BlankFits, PieceEncode
        <3>5. Stream(s, lk) = lk.up
            <4>1. <<>> \o lk.up = lk.up
                BY <3>4, ConcatEmptySeq
            <4> QED BY <3>2, <4>1, DecoderFacts DEF Stream
        <3>6. cl.decoder.ok /\ Inbox(cl, lk) = <<>> /\ cl.at # "idle"
            <4>1. cl.decoder = Fresh /\ lk.down = <<>> /\ cl.at # "idle" /\ <<>> \o <<>> = <<>>
                BY <2>2 DEF Connects
            <4> QED BY <4>1, DecoderFacts DEF Inbox
        <3> QED BY <3>2, <3>4, <3>5, <3>6, DecoderFacts, PieceEmpty DEF CalmSession, CalmClient
    <2>3. CASE ~Connects(cl, lk)
        <3>1. client.at # "closed" /\ c = client.conn
            BY <2>3 DEF ClientStep, Calls, Cuts, Refuses, Reads, Ends, HangsUp, Cli
        <3>2. /\ l.clean
              /\ (\E f : Calls(cl, lk, f)) \/ Refuses(cl, lk) \/ Reads(cl, lk) \/ Ends(cl, lk)
            BY <1>2, <2>3, <3>1 DEF ClientStep, Calls, Cuts, Refuses, Reads, Ends, HangsUp, Lnk
        <3>3. CalmSession(s, l) /\ CalmClient(client, s, l)
            BY <1>1, <3>1, <3>2 DEF CalmInv, Calm
        <3>4. /\ client.decoder.ok /\ Piece(Inbox(client, l))
              /\ Inbox(client, l) # <<>> => ~Owed(s, l)
              /\ client.at = "idle" => Inbox(client, l) = <<>> /\ ~Owed(s, l)
            BY <3>1, <3>3 DEF CalmClient
        <3>5. lk.up = l.up => CalmSession(s, lk) /\ Stream(s, lk) = Stream(s, l)
            BY <3>3 DEF CalmSession, Stream
        <3>6. CASE \E f : Calls(cl, lk, f)
            <4>1. PICK f : Calls(cl, lk, f)
                BY <3>6
            <4> DEFINE e == encode_frame(f)
            <4>2. /\ f \in Frame /\ f.size < MaxFrame /\ client.at = "idle" /\ cl.at = "waiting"
                  /\ cl.decoder = client.decoder /\ lk.down = l.down
                  /\ lk.up = l.up \/ lk.up = l.up \o e
                BY <3>1, <4>1 DEF Calls, Lnk
            <4>3. e \in Seq(Unit) /\ Piece(e)
                <5>1. e \in Seq(Unit)
                    BY <4>2, EncodeFacts
                <5> HIDE DEF e
                <5>2. e = SubSeq(e, 1, Len(e)) /\ Len(e) \in 0 .. Len(e)
                    BY <5>1, SubSeqFull
                <5> QED BY <4>2, <5>1, <5>2, PieceEncode DEF e
            <4> HIDE DEF e
            <4>4. Stream(s, l) = <<>> /\ s.at # "send" /\ Inbox(client, l) = <<>>
                BY <3>4, <4>2 DEF Owed
            <4>5. Stream(s, lk) = <<>> \/ Stream(s, lk) = e
                <5>1. s.decoder.buffer \o (l.up \o e) = e
                    BY <2>1, <4>3, <4>4, EmptyParts DEF Stream
                <5> QED BY <4>2, <4>4, <5>1 DEF Stream
            <4>6. CalmSession(s, lk)
                BY <3>3, <4>3, <4>4, <4>5, PieceEmpty DEF CalmSession
            <4>7. CalmClient(cl, s, lk)
                BY <3>4, <4>2, <4>4, PieceEmpty DEF CalmClient, Inbox
            <4> QED BY <4>6, <4>7
        <3>7. CASE Refuses(cl, lk)
            BY <3>1, <3>3, <3>7 DEF Refuses
        <3>8. CASE Reads(cl, lk)
            <4> DEFINE d == client.decoder
                       u == l.down
            <4>1. PICK n \in 1 .. Len(u) :
                      /\ cl.decoder = feed(d, SubSeq(u, 1, n)) /\ cl.at = "waiting"
                      /\ lk.down = SubSeq(u, n + 1, Len(u)) /\ lk.up = l.up
                BY <3>1, <3>8 DEF Reads, Cli, Lnk
            <4>2. Bounded(d) /\ d.ok /\ u \in Seq(Unit) /\ Piece(d.buffer \o u)
                BY <2>1, <3>4 DEF Inbox
            <4>3. Inbox(client, l) = d.buffer \o u
                BY DEF Inbox
            <4> HIDE DEF d, u
            <4> DEFINE e == feed(d, SubSeq(u, 1, n))
            <4>4. e.ok /\ e.buffer \o SubSeq(u, n + 1, Len(u)) = d.buffer \o u
                BY <4>2, PieceFeed
            <4>5. cl.decoder.ok /\ Inbox(cl, lk) = Inbox(client, l)
                BY <4>1, <4>3, <4>4 DEF Inbox
            <4>6. Owed(s, lk) = Owed(s, l)
                BY <3>5, <4>1 DEF Owed
            <4> QED BY <3>4, <3>5, <4>1, <4>5, <4>6 DEF CalmClient
        <3>9. CASE Ends(cl, lk)
            <4>1. \/ HangsUp(cl, lk)
                  \/ /\ lk = l /\ has_frame(client.decoder) /\ cl.at = "idle"
                     /\ cl.decoder = popped(client.decoder)
                BY <1>2, <3>1, <3>9 DEF Ends, Cli
            <4>2. CASE HangsUp(cl, lk)
                <5>1. lk.up = l.up /\ cl.at = "closed" /\ cl.decoder = Fresh
                    BY <3>1, <4>2 DEF HangsUp
                <5> QED BY <3>5, <5>1, DecoderFacts DEF CalmClient
            <4>3. CASE ~HangsUp(cl, lk)
                <5>1. /\ Inbox(client, l) # <<>> /\ cl.decoder.ok /\ Inbox(cl, lk) = <<>>
                    BY <2>1, <3>4, <4>1, <4>3, PiecePop DEF Inbox
                <5> QED BY <3>3, <3>4, <4>1, <4>3, <5>1, PieceEmpty DEF CalmClient
            <4> QED BY <4>2, <4>3
        <3> QED BY <3>2, <3>6, <3>7, <3>8, <3>9
    <2> QED BY <2>2, <2>3
<1>3. ASSUME NEW d \in 1 .. MaxConns
      PROVE  Calm(cl, d, session[d], link'[d])
    <2>1. CASE d = c
        BY <1>1, <1>2, <2>1 DEF Calm
    <2>2. CASE d # c
        BY <1>1, <2>2 DEF CalmInv, Calm
    <2> QED BY <2>1, <2>2
<1> QED BY <1>1, <1>3, CalmNow

LEMMA CalmRest ==
    ASSUME TypeInv, CalmInv,
           \/ \E c \in RawConns : \E lk : RawStep(c, lk)
           \/ DownStep \/ RestartStep \/ UNCHANGED vars
    PROVE  CalmInv'
<1>1. client' = client
    BY DEF RawStep, DownStep, RestartStep, vars
<1>2. \A d \in 1 .. MaxConns : d \in Conns /\ d \notin RawConns
    BY TypeParts
<1>3. CASE DownStep
    <2> SUFFICES ASSUME NEW d \in 1 .. MaxConns
                 PROVE  Calm(client, d, session'[d], link'[d])
        BY <1>1, CalmNow
    <2> DEFINE s == session'[d]
               lk == link'[d]
               l == link[d]
    <2>1. /\ s.decoder = Fresh /\ s.at # "send" /\ lk.up = <<>> /\ lk.down = l.down
          /\ lk.clean = l.clean
        BY <1>2, <1>3 DEF DownStep, Lnk
    <2>2. Calm(client, d, session[d], l)
        BY DEF CalmInv
    <2> HIDE DEF s, lk
    <2>3. Stream(s, lk) = <<>> /\ s.decoder.ok
        <3>1. <<>> \o <<>> = <<>>
            OBVIOUS
        <3> QED BY <2>1, <3>1, DecoderFacts DEF Stream
    <2>4. CalmSession(s, lk) /\ ~Owed(s, lk) /\ Inbox(client, lk) = Inbox(client, l)
        BY <2>1, <2>3, PieceEmpty DEF CalmSession, Owed, Inbox
    <2>5. Calm(client, d, s, lk)
        BY <2>1, <2>2, <2>4 DEF Calm, CalmClient
    <2> QED BY <2>5 DEF s, lk
<1>4. CASE ~DownStep
    <2>1. session' = session /\ \A d \in 1 .. MaxConns : link'[d] = link[d]
        <3>1. CASE \E c \in RawConns : \E lk : RawStep(c, lk)
            BY <1>2, <3>1, RawTyped DEF RawStep
        <3>2. CASE RestartStep \/ UNCHANGED vars
            BY <3>2 DEF RestartStep, vars
        <3> QED BY <1>4, <3>1, <3>2
    <2> QED BY <1>1, <2>1, CalmNow DEF CalmInv
<1> QED BY <1>3, <1>4

LEMMA CalmInit ==
    ASSUME Init
    PROVE  CalmInv
<1>1. /\ client = NoClient /\ \A c \in 1 .. MaxConns : link[c] = NoLink /\ session[c] = NoThread
    BY DEF Init, Conns
<1>2. /\ NoThread.decoder = Fresh /\ NoThread.at = "none" /\ NoLink.up = <<>>
      /\ NoClient.decoder = Fresh /\ NoClient.at = "closed" /\ <<>> \o <<>> = <<>>
    BY DEF NoThread, NoLink, NoClient
<1>3. CalmSession(NoThread, NoLink)
    BY <1>2, DecoderFacts, PieceEmpty DEF CalmSession, Stream
<1>4. CalmClient(NoClient, NoThread, NoLink)
    BY <1>2, DecoderFacts DEF CalmClient
<1> QED BY <1>1, <1>3, <1>4 DEF CalmInv, Calm

\* Neither decoder ever gives up on a caller that waits for each answer: between
\* them at most one frame is under way on such a connection, and its first units
\* always fit the buffer of one maximal frame and always begin a frame, for any
\* sizes and however recv cuts the stream (FrameDecoder::feed and pop in
\* src/src/protocol.cpp, called from Client::round_trip and
\* Server::serve_session).
THEOREM StopAndWaitUnderstood == Spec => []StopAndWaitIsUnderstood
<1>1. Init => TypeInv /\ CalmInv
    BY TypeInit, CalmInit
<1>2. TypeInv /\ CalmInv /\ [Next]_vars => (TypeInv /\ CalmInv)'
    BY StepForms, TypeStep, CalmSide, CalmCaller, CalmRest DEF Steps
<1>3. CalmInv => StopAndWaitIsUnderstood
    <2>1. \A c \in Conns \ RawConns : c \in 1 .. MaxConns
        BY DEF Conns
    <2> QED BY <2>1 DEF CalmInv, Calm, CalmSession, CalmClient, StopAndWaitIsUnderstood
<1> QED BY <1>1, <1>2, <1>3, PTL DEF Spec
==============================================================================
