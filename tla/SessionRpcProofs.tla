--------------------------- MODULE SessionRpcProofs ---------------------------
(***************************************************************************)
(* Session implements Rpc: the calls of the library are carried out at     *)
(* most once, for any number of connections, calls, failures, crashes,     *)
(* foreign peers and frame sizes.                                          *)
(***************************************************************************)
EXTENDS SessionProofs

-----------------------------------------------------------------------------
(* The order of what a session has to understand. *)

\* A unit comes after those of its own frame and those of earlier calls.
Precedes(u, v) ==
    \/ u.frame = v.frame /\ u.part < v.part
    \/ u.frame.call < v.frame.call

Ascends(q) ==
    /\ \A i, j \in 1 .. Len(q) : i < j => Precedes(q[i], q[j])
    /\ \A i \in 1 .. Len(q) : q[i].part <= q[i].frame.size

\* q is what is left of r.
Suffix(q, r) ==
    \E m \in Nat : Len(r) = Len(q) + m /\ \A i \in 1 .. Len(q) : q[i] = r[m + i]

LEMMA AscendsSuffix ==
    ASSUME NEW q \in Seq(Unit), NEW r \in Seq(Unit), Ascends(r), Suffix(q, r)
    PROVE  Ascends(q)
<1>1. PICK m \in Nat : Len(r) = Len(q) + m /\ \A i \in 1 .. Len(q) : q[i] = r[m + i]
    BY DEF Suffix
<1>2. Len(q) \in Nat
    OBVIOUS
<1>3. \A i \in 1 .. Len(q) : m + i \in 1 .. Len(r)
    BY <1>1, <1>2
<1>4. \A i, j \in 1 .. Len(q) : i < j => m + i < m + j
    BY <1>2
<1> QED BY <1>1, <1>3, <1>4 DEF Ascends

LEMMA AscendsMore ==
    ASSUME NEW q \in Seq(Unit), Ascends(q), NEW f \in Frame, NEW n \in 0 .. f.size + 1,
           \A u \in In(q) : u.frame.call < f.call
    PROVE  Ascends(q \o SubSeq(encode_frame(f), 1, n))
<1> DEFINE x == SubSeq(encode_frame(f), 1, n)
           r == q \o x
<1>1. f.size \in Nat /\ n \in Nat /\ n <= f.size + 1
    BY DEF Frame
<1>2. x \in Seq(Unit) /\ Len(x) = n /\ \A i \in 1 .. n : x[i] = [frame |-> f, part |-> i - 1]
    <2> DEFINE e == encode_frame(f)
    <2>1. /\ e \in Seq(Unit) /\ Len(e) = f.size + 1
          /\ \A i \in 1 .. f.size + 1 : e[i] = [frame |-> f, part |-> i - 1]
        BY EncodeFacts
    <2> HIDE DEF e
    <2>2. \A i \in 1 .. n : i \in 1 .. f.size + 1 /\ i \in 1 .. Len(e) /\ e[i] \in Unit
        BY <1>1, <2>1
    <2>3. SubSeq(e, 1, n) \in Seq(Unit) /\ Len(SubSeq(e, 1, n)) = n
          /\ \A i \in 1 .. n : SubSeq(e, 1, n)[i] = e[i]
        BY <1>1, <2>1, <2>2, SubSeqProperties
    <2>4. x = SubSeq(e, 1, n)
        BY DEF e
    <2> HIDE DEF x
    <2> QED BY <2>1, <2>2, <2>3, <2>4
<1> HIDE DEF x
<1>3. /\ Len(r) = Len(q) + n /\ Len(q) \in Nat
      /\ \A i \in 1 .. Len(q) + n : r[i] = IF i <= Len(q) THEN q[i] ELSE x[i - Len(q)]
    <2>1. /\ Len(r) = Len(q) + Len(x)
          /\ \A i \in 1 .. Len(q) + Len(x) : r[i] = IF i <= Len(q) THEN q[i] ELSE x[i - Len(q)]
        BY <1>2, ConcatProperties
    <2> HIDE DEF r
    <2> QED BY <1>2, <2>1
<1> HIDE DEF r
<1>4. ASSUME NEW i \in 1 .. Len(r), i <= Len(q)
      PROVE  i \in 1 .. Len(q) /\ r[i] = q[i] /\ r[i].frame.call < f.call
    <2>1. i \in 1 .. Len(q) /\ i \in 1 .. Len(q) + n
        BY <1>1, <1>3, <1>4
    <2>2. r[i] = q[i] /\ q[i] \in In(q)
        BY <1>3, <1>4, <2>1 DEF In
    <2> QED BY <2>1, <2>2
<1>5. ASSUME NEW i \in 1 .. Len(r), ~(i <= Len(q))
      PROVE  r[i].frame = f /\ r[i].part = i - Len(q) - 1 /\ r[i].part <= f.size
    <2>1. i - Len(q) \in 1 .. n /\ i \in 1 .. Len(q) + n
        BY <1>1, <1>3, <1>5
    <2>2. r[i] = [frame |-> f, part |-> (i - Len(q)) - 1]
        BY <1>2, <1>3, <1>5, <2>1
    <2>3. (i - Len(q)) - 1 <= f.size
        BY <1>1, <2>1
    <2> QED BY <2>2, <2>3
<1>6. ASSUME NEW i \in 1 .. Len(r), NEW j \in 1 .. Len(r), i < j
      PROVE  Precedes(r[i], r[j])
    <2>1. CASE j <= Len(q)
        <3>1. i <= Len(q)
            BY <1>3, <1>6, <2>1
        <3> QED BY <1>4, <1>6, <2>1, <3>1 DEF Ascends
    <2>2. CASE ~(j <= Len(q))
        <3>1. CASE i <= Len(q)
            BY <1>4, <1>5, <2>2, <3>1 DEF Precedes
        <3>2. CASE ~(i <= Len(q))
            <4>1. i - Len(q) - 1 < j - Len(q) - 1
                BY <1>1, <1>3, <1>6
            <4> QED BY <1>5, <2>2, <3>2, <4>1 DEF Precedes
        <3> QED BY <3>1, <3>2
    <2> QED BY <2>1, <2>2
<1>7. ASSUME NEW i \in 1 .. Len(r)
      PROVE  r[i].part <= r[i].frame.size
    <2>1. CASE i <= Len(q)
        BY <1>4, <2>1 DEF Ascends
    <2>2. CASE ~(i <= Len(q))
        BY <1>5, <2>2
    <2> QED BY <2>1, <2>2
<1>8. Ascends(r)
    BY <1>6, <1>7 DEF Ascends
<1> QED BY <1>8 DEF r, x

LEMMA StreamTyped ==
    ASSUME TypeInv, NEW c \in Conns
    PROVE  /\ session[c].decoder.buffer \in Seq(Unit) /\ link[c].up \in Seq(Unit)
           /\ Bounded(session[c].decoder) /\ link[c] \in Link
           /\ Stream(session[c], link[c]) \in Seq(Unit)
           /\ In(Stream(session[c], link[c])) = Units(session[c].decoder, link[c])
<1>1. /\ session[c].decoder.buffer \in Seq(Unit) /\ link[c].up \in Seq(Unit)
      /\ Bounded(session[c].decoder) /\ link[c] \in Link
    BY TypeParts DEF Link, Bounded, Decoder
<1> QED BY <1>1, InConcat DEF Stream, Units

LEMMA Emptied ==
    ASSUME NEW a \in Seq(Unit), NEW q \in Seq(Unit)
    PROVE  Suffix(<<>> \o q, a \o q) /\ <<>> \o q \in Seq(Unit)
<1>1. Len(a) \in Nat /\ Len(a) \in 0 .. Len(a)
    OBVIOUS
<1>2. SubSeq(a, Len(a) + 1, Len(a)) = <<>>
    OBVIOUS
<1> DEFINE l == <<>> \o q
           r == a \o q
<1>3. /\ Len(r) = Len(l) + Len(a) /\ \A i \in 1 .. Len(l) : l[i] = r[Len(a) + i]
    <2> DEFINE k == SubSeq(a, Len(a) + 1, Len(a)) \o q
    <2>1. Len(r) = Len(k) + Len(a) /\ \A i \in 1 .. Len(k) : k[i] = r[Len(a) + i]
        BY <1>1, Dropped
    <2>2. k = l
        BY <1>2
    <2> HIDE DEF k, l, r
    <2> QED BY <2>1, <2>2
<1>4. l \in Seq(Unit)
    BY InConcat
<1> HIDE DEF l, r
<1>5. Suffix(l, r) /\ l \in Seq(Unit)
    BY <1>1, <1>3, <1>4 DEF Suffix
<1> QED BY <1>5 DEF l, r

\* A step of a session takes from the front of its stream.
LEMMA SideStream ==
    ASSUME TypeInv, NEW c \in Conns, NEW lk, NEW s, SideStep(c, lk, s)
    PROVE  /\ Stream(s, lk) \in Seq(Unit)
           /\ Suffix(Stream(s, lk), Stream(session[c], link[c]))
<1> DEFINE t == session[c]
           l == link[c]
           a == t.decoder.buffer
           u == l.up
<1>1. a \in Seq(Unit) /\ u \in Seq(Unit) /\ Bounded(t.decoder)
    BY StreamTyped
<1>2. Stream(t, l) = a \o u /\ a \o u \in Seq(Unit)
    BY <1>1, InConcat DEF Stream
<1>3. ASSUME Stream(s, lk) = a \o u
      PROVE  Stream(s, lk) \in Seq(Unit) /\ Suffix(Stream(s, lk), Stream(t, l))
    <2> DEFINE r == a \o u
    <2>1. Len(r) \in Nat /\ r \in Seq(Unit)
        <3>1. r \in Seq(Unit)
            BY <1>2
        <3> HIDE DEF r
        <3> QED BY <3>1
    <2> HIDE DEF r
    <2>2. Len(r) = Len(r) + 0 /\ \A i \in 1 .. Len(r) : r[i] = r[0 + i]
        BY <2>1
    <2>3. Suffix(r, r)
        BY <2>2 DEF Suffix
    <2>4. Stream(s, lk) = r /\ Stream(t, l) = r
        BY <1>2, <1>3 DEF r
    <2> QED BY <2>1, <2>3, <2>4
<1>4. ASSUME NEW b \in Seq(Unit), NEW v \in Seq(Unit), b \o v = a \o u,
             s.decoder.buffer = <<>>, lk.up = v
      PROVE  Stream(s, lk) \in Seq(Unit) /\ Suffix(Stream(s, lk), Stream(t, l))
    <2>1. Suffix(<<>> \o v, b \o v) /\ <<>> \o v \in Seq(Unit)
        BY Emptied
    <2>2. Stream(s, lk) = <<>> \o v /\ Stream(t, l) = b \o v
        BY <1>2, <1>4 DEF Stream
    <2> QED BY <2>1, <2>2
<1>5. CASE Accepts(c, lk, s) \/ Sends(c, lk, s)
    <2>1. lk.up = u /\ s.decoder.buffer = a
        BY <1>5 DEF Accepts, Sends, Thr, Lnk
    <2> QED BY <1>3, <2>1 DEF Stream
<1>6. CASE Receives(c, lk, s)
    <2>1. PICK n \in 1 .. Len(u) :
              /\ s.decoder = feed(t.decoder, SubSeq(u, 1, n))
              /\ lk.up = SubSeq(u, n + 1, Len(u))
        BY <1>6 DEF Receives, Thr, Lnk
    <2>2. n + 1 \in Nat \ {0} /\ 1 \in Nat \ {0} /\ n \in 0 .. Len(u) /\ Len(u) \in 0 .. Len(u)
        BY <1>1
    <2> DEFINE data == SubSeq(u, 1, n)
               rest == SubSeq(u, n + 1, Len(u))
    <2>3. data \in Seq(Unit) /\ rest \in Seq(Unit)
        BY <1>1, <2>2, InSubSeq
    <2>4. (a \o data) \o rest = a \o u
        <3> HIDE DEF a, u
        <3> QED BY <1>1, <2>2, Rejoined
    <2>5. s.decoder = feed(t.decoder, data) /\ lk.up = rest
        BY <2>1
    <2> HIDE DEF data, rest
    <2>6. CASE s.decoder.ok
        <3>1. feed(t.decoder, data).ok => feed(t.decoder, data).buffer = t.decoder.buffer \o data
            BY <1>1, <2>3, FeedFacts
        <3>2. s.decoder.buffer = a \o data
            BY <2>5, <2>6, <3>1
        <3> QED BY <1>3, <2>4, <2>5, <3>2 DEF Stream
    <2>7. CASE ~s.decoder.ok
        <3>1. s.decoder = Failed
            <4>1. \/ s.decoder = Failed
                  \/ t.decoder.ok /\ s.decoder = [t.decoder EXCEPT !.buffer = @ \o data]
                BY <2>5 DEF feed
            <4>2. t.decoder \in Decoder
                BY <1>1 DEF Bounded
            <4> QED BY <2>7, <4>1, <4>2 DEF Decoder
        <3>2. a \o data \in Seq(Unit)
            BY <1>1, <2>3, InConcat
        <3> QED BY <1>4, <2>3, <2>4, <2>5, <3>1, <3>2, DecoderFacts
    <2> QED BY <2>6, <2>7
<1>7. CASE Loops(c, lk, s)
    <2>1. lk = l /\ (s.decoder = t.decoder \/ s.decoder = Failed)
        BY <1>7 DEF Loops, Thr
    <2>2. CASE s.decoder = t.decoder
        BY <1>3, <2>1, <2>2 DEF Stream
    <2>3. CASE s.decoder = Failed
        BY <1>1, <1>4, <2>1, <2>3, DecoderFacts
    <2> QED BY <2>1, <2>2, <2>3
<1>8. CASE Leaves(c, lk, s)
    <2>1. s.decoder.buffer = <<>> /\ lk.up = <<>>
        BY <1>8, DecoderFacts DEF Leaves, Lnk
    <2>2. a \o u \in Seq(Unit) /\ <<>> \in Seq(Unit)
        BY <1>2
    <2>3. (a \o u) \o <<>> = a \o u
        BY <2>2, ConcatEmptySeq
    <2> QED BY <1>4, <2>1, <2>2, <2>3
<1>9. CASE Replies(c, lk, s)
    <2> DEFINE m == FirstFrame(t.decoder).size + 1
    <2>1. lk = l /\ s.decoder = popped(t.decoder) /\ has_frame(t.decoder)
        BY <1>9 DEF Replies
    <2>2. /\ FirstFrame(t.decoder) \in Frame /\ m <= Len(a)
          /\ s.decoder.buffer = SubSeq(a, FirstFrame(t.decoder).size + 2, Len(a))
        BY <1>1, <2>1, PopFacts
    <2>3. FirstFrame(t.decoder).size \in Nat
        BY <2>2 DEF Frame
    <2>4. m \in 0 .. Len(a) /\ m \in Nat /\ FirstFrame(t.decoder).size + 2 = m + 1
        BY <1>1, <2>2, <2>3
    <2> HIDE DEF m
    <2>5. Stream(s, lk) = SubSeq(a, m + 1, Len(a)) \o u
        BY <2>1, <2>2, <2>4 DEF Stream
    <2> DEFINE x == SubSeq(a, m + 1, Len(a)) \o u
               r == a \o u
    <2>6. Len(r) = Len(x) + m /\ \A i \in 1 .. Len(x) : x[i] = r[m + i]
        <3> HIDE DEF a, u
        <3> QED BY <1>1, <2>4, Dropped
    <2>7. x \in Seq(Unit)
        <3>1. SubSeq(a, m + 1, Len(a)) \in Seq(Unit)
            <4>1. m + 1 \in Nat \ {0} /\ Len(a) \in 0 .. Len(a)
                BY <1>1, <2>4
            <4> HIDE DEF a
            <4> QED BY <1>1, <4>1, InSubSeq
        <3> QED BY <1>1, <3>1, InConcat
    <2> HIDE DEF x, r
    <2>8. Suffix(x, r)
        BY <2>4, <2>6 DEF Suffix
    <2> QED BY <1>2, <2>5, <2>7, <2>8 DEF x, r
<1> QED BY <1>5, <1>6, <1>7, <1>8, <1>9 DEF SideStep


\* What the client puts on its connection: nothing, the start of a new call's
\* frame, or, on a new connection, of a hello.
LEMMA ClientStream ==
    ASSUME TypeInv, NEW cl, NEW lk, ClientStep(cl, lk)
    PROVE  \/ lk.up = link[cl.conn].up
           \/ \E f \in Frame : \E n \in 0 .. f.size + 1 :
                /\ lk.up = link[cl.conn].up \o SubSeq(encode_frame(f), 1, n)
                /\ \/ f.call = Len(told) + 1 /\ Len(told') = Len(told) + 1
                   \/ f = Blank /\ Unused(cl.conn)
<1> DEFINE c == cl.conn
           l == link[c]
<1>1. client \in Client /\ told \in Seq(Outcomes) /\ MaxConns \in Nat
    BY TypeParts
<1>2. CASE Connects(cl, lk)
    <2>1. /\ c = client.conn + 1 /\ c \in 1 .. MaxConns
          /\ \E n \in 0 .. Len(encode_frame(Blank)) : lk.up = SubSeq(encode_frame(Blank), 1, n)
        BY <1>2 DEF Connects
    <2>2. Unused(c)
        <3>1. client.conn \in Nat
            BY <1>1 DEF Client
        <3> QED BY <2>1, <3>1 DEF TypeInv
    <2>3. l.up = <<>>
        BY <2>2 DEF Unused, NoLink
    <2>4. /\ Len(encode_frame(Blank)) = Blank.size + 1 /\ encode_frame(Blank) \in Seq(Unit)
          /\ Blank \in Frame /\ 1 \in Nat \ {0}
        BY BlankType, EncodeFacts
    <2>5. PICK n \in 0 .. Blank.size + 1 : lk.up = SubSeq(encode_frame(Blank), 1, n)
        BY <2>1, <2>4
    <2> DEFINE x == SubSeq(encode_frame(Blank), 1, n)
    <2>6. x \in Seq(Unit)
        <3>1. n \in 0 .. Len(encode_frame(Blank))
            BY <2>4, <2>5
        <3> QED BY <2>4, <3>1, InSubSeq
    <2> HIDE DEF x
    <2>7. <<>> \o x = x
        BY <2>6, ConcatEmptySeq
    <2>8. lk.up = l.up \o x
        BY <2>3, <2>5, <2>7 DEF x
    <2> QED BY <2>2, <2>4, <2>5, <2>8 DEF x
<1>3. CASE \E f : Calls(cl, lk, f) \/ Cuts(cl, lk, f)
    <2>1. PICK f : Calls(cl, lk, f) \/ Cuts(cl, lk, f)
        BY <1>3
    <2>2. f \in Frame /\ f.call = Len(told) + 1 /\ Len(told') = Len(told) + 1 /\ c = client.conn
        BY <1>1, <2>1 DEF Calls, Cuts
    <2>3. f.size \in Nat /\ f.size + 1 \in 0 .. f.size + 1
          /\ SubSeq(encode_frame(f), 1, f.size + 1) = encode_frame(f)
          /\ \A n \in 0 .. f.size : n \in 0 .. f.size + 1
        BY <2>2, WholeSent
    <2>4. \/ lk.up = l.up
          \/ \E n \in 0 .. f.size + 1 : lk.up = l.up \o SubSeq(encode_frame(f), 1, n)
        <3>1. CASE Calls(cl, lk, f)
            BY <2>2, <2>3, <3>1 DEF Calls, Lnk
        <3>2. CASE Cuts(cl, lk, f)
            BY <2>2, <2>3, <3>2 DEF Cuts
        <3> QED BY <2>1, <3>1, <3>2
    <2> QED BY <2>2, <2>4
<1>4. CASE Refuses(cl, lk) \/ Reads(cl, lk) \/ Ends(cl, lk)
    BY <1>4 DEF Refuses, Reads, Ends, HangsUp, Cli, Lnk
<1> QED BY <1>2, <1>3, <1>4 DEF ClientStep

StreamInv == \A c \in 1 .. MaxConns : Ascends(Stream(session[c], link[c]))

LEMMA StreamNow ==
    ASSUME \A c \in 1 .. MaxConns : Ascends(Stream(session'[c], link'[c]))
    PROVE  StreamInv'
<1>1. \A c \in 1 .. MaxConns : Ascends(Stream(session[c], link[c]))'
    BY DEF Ascends, Stream, Precedes
<1> QED BY <1>1 DEF StreamInv

LEMMA EmptyAscends ==
    /\ Ascends(<<>>) /\ <<>> \o <<>> = <<>>
    /\ \A s, lk : s.decoder = Fresh /\ lk.up = <<>> => Stream(s, lk) = <<>>
<1>1. Ascends(<<>>)
    BY DEF Ascends
<1>2. <<>> \o <<>> = <<>>
    OBVIOUS
<1> QED BY <1>1, <1>2, DecoderFacts DEF Stream

LEMMA StreamSide ==
    ASSUME TypeInv, StreamInv, NEW c \in Conns, NEW lk, NEW s, SideStep(c, lk, s)
    PROVE  StreamInv'
<1>1. /\ session'[c] = s /\ link'[c] = lk
      /\ \A d \in Conns : d # c => link'[d] = link[d] /\ session'[d] = session[d]
    BY SideTyped
<1>2. ASSUME NEW d \in 1 .. MaxConns
      PROVE  Ascends(Stream(session'[d], link'[d]))
    <2>1. d \in Conns /\ Ascends(Stream(session[d], link[d]))
        BY TypeParts DEF StreamInv
    <2>2. CASE d = c
        <3>1. /\ Stream(s, lk) \in Seq(Unit) /\ Stream(session[c], link[c]) \in Seq(Unit)
              /\ Suffix(Stream(s, lk), Stream(session[c], link[c]))
            BY SideStream, StreamTyped
        <3>2. Ascends(Stream(s, lk))
            BY <2>1, <2>2, <3>1, AscendsSuffix
        <3> QED BY <1>1, <2>2, <3>2
    <2>3. CASE d # c
        BY <1>1, <2>1, <2>3
    <2> QED BY <2>2, <2>3
<1> QED BY <1>2, StreamNow

LEMMA StreamClient ==
    ASSUME TypeInv, KeyInv, StreamInv, NEW cl, NEW lk, ClientStep(cl, lk)
    PROVE  StreamInv'
<1> DEFINE c == cl.conn
           l == link[c]
           s == session[c]
           q == Stream(s, l)
<1>1. /\ c \in 1 .. MaxConns /\ c \in Conns /\ link'[c] = lk /\ session' = session
      /\ \A d \in Conns : d # c => link'[d] = link[d]
      /\ \A d \in 1 .. MaxConns : d \in Conns
      /\ told \in Seq(Outcomes)
    BY ClientTyped, TypeParts DEF ClientStep, ClientTurns
<1>2. q \in Seq(Unit) /\ Ascends(q) /\ s.decoder.buffer \in Seq(Unit) /\ l.up \in Seq(Unit)
    BY <1>1, StreamTyped DEF StreamInv
<1>3. Ascends(Stream(s, lk))
    <2>1. CASE lk.up = l.up
        BY <1>2, <2>1 DEF Stream
    <2>2. CASE ~(lk.up = l.up)
        <3>1. PICK f \in Frame : \E n \in 0 .. f.size + 1 :
                /\ lk.up = l.up \o SubSeq(encode_frame(f), 1, n)
                /\ \/ f.call = Len(told) + 1 /\ Len(told') = Len(told) + 1
                   \/ f = Blank /\ Unused(c)
            BY <2>2, ClientStream
        <3>2. PICK n \in 0 .. f.size + 1 :
                /\ lk.up = l.up \o SubSeq(encode_frame(f), 1, n)
                /\ \/ f.call = Len(told) + 1 /\ Len(told') = Len(told) + 1
                   \/ f = Blank /\ Unused(c)
            BY <3>1
        <3>3. \A u \in In(q) : u.frame.call < f.call
            <4>1. CASE f.call = Len(told) + 1
                <5>1. \A u \in In(q) : u.frame.call <= Len(told)
                    BY <1>1, StreamCalls
                <5>2. \A u \in In(q) : u.frame.call \in Nat
                    <6>1. \A u \in In(q) : u \in Unit
                        BY <1>2 DEF In
                    <6> QED BY <6>1 DEF Unit, Frame
                <5>3. Len(told) \in Nat
                    BY <1>1
                <5> QED BY <4>1, <5>1, <5>2, <5>3
            <4>2. CASE Unused(c)
                <5>1. q = <<>>
                    BY <4>2, EmptyAscends DEF Unused, NoThread, NoLink
                <5> QED BY <5>1, InEmpty
            <4> QED BY <3>2, <4>1, <4>2
        <3> DEFINE x == SubSeq(encode_frame(f), 1, n)
        <3>4. Ascends(q \o x)
            <4> HIDE DEF q
            <4> QED BY <1>2, <3>3, AscendsMore
        <3>5. x \in Seq(Unit)
            <4>1. n \in 0 .. Len(encode_frame(f)) /\ 1 \in Nat \ {0} /\ encode_frame(f) \in Seq(Unit)
                BY EncodeFacts
            <4> QED BY <4>1, InSubSeq
        <3>6. lk.up = l.up \o x
            BY <3>2
        <3> HIDE DEF x
        <3>7. Stream(s, lk) = q \o x
            <4> DEFINE a == s.decoder.buffer
                       u == l.up
            <4>1. a \in Seq(Unit) /\ u \in Seq(Unit)
                BY <1>2
            <4> HIDE DEF a, u
            <4>2. a \o (u \o x) = (a \o u) \o x
                BY <3>5, <4>1, ConcatAssociative
            <4> QED BY <3>6, <4>2 DEF Stream, a, u
        <3> QED BY <3>4, <3>7
    <2> QED BY <2>1, <2>2
<1>4. \A d \in 1 .. MaxConns : Ascends(Stream(session'[d], link'[d]))
    BY <1>1, <1>3 DEF StreamInv
<1> QED BY <1>4, StreamNow

LEMMA StreamRest ==
    ASSUME TypeInv, StreamInv,
           \/ \E c \in RawConns : \E lk : RawStep(c, lk)
           \/ DownStep \/ RestartStep \/ UNCHANGED vars
    PROVE  StreamInv'
<1>1. \A d \in 1 .. MaxConns : d \in Conns /\ d \notin RawConns
    BY TypeParts
<1>2. CASE \E c \in RawConns : \E lk : RawStep(c, lk)
    <2>1. \A d \in 1 .. MaxConns : link'[d] = link[d] /\ session'[d] = session[d]
        BY <1>1, <1>2, RawTyped DEF RawStep
    <2> QED BY <2>1, StreamNow DEF StreamInv
<1>3. CASE DownStep
    <2>1. \A d \in 1 .. MaxConns : session'[d].decoder = Fresh /\ link'[d].up = <<>>
        BY <1>1, <1>3 DEF DownStep, Lnk
    <2>2. \A d \in 1 .. MaxConns : Stream(session'[d], link'[d]) = <<>>
        BY <2>1, EmptyAscends
    <2> QED BY <2>2, EmptyAscends, StreamNow
<1>4. CASE RestartStep \/ UNCHANGED vars
    <2>1. link' = link /\ session' = session
        BY <1>4 DEF RestartStep, vars
    <2> QED BY <2>1, StreamNow DEF StreamInv
<1> QED BY <1>2, <1>3, <1>4

LEMMA StreamStep ==
    ASSUME TypeInv, KeyInv, StreamInv, Steps
    PROVE  StreamInv'
BY StreamSide, StreamClient, StreamRest DEF Steps

LEMMA StreamInit ==
    ASSUME Init
    PROVE  StreamInv
<1>1. \A d \in 1 .. MaxConns : d \in Conns
    BY DEF Conns
<1>2. \A d \in 1 .. MaxConns : session[d].decoder = Fresh /\ link[d].up = <<>>
    BY <1>1 DEF Init, NoLink, NoThread
<1> QED BY <1>2, EmptyAscends DEF StreamInv


-----------------------------------------------------------------------------
(* Calls of which nothing is left to understand. *)

Pends(s, lk) == {u.frame.call : u \in Units(s.decoder, lk)}

Pending == UNION {Pends(session[c], link[c]) : c \in 1 .. MaxConns}

LEMMA PendingNow == Pending' = UNION {Pends(session'[c], link'[c]) : c \in 1 .. MaxConns}
BY DEF Pending, Pends, Units, In

\* Only a new call brings something to understand.
LEMMA PendsStep ==
    ASSUME TypeInv, Steps, NEW c \in 1 .. MaxConns, NEW k \in Pends(session'[c], link'[c])
    PROVE  \/ k \in Pends(session[c], link[c]) \/ k = 0
           \/ k = Len(told) + 1 /\ Len(told') = Len(told) + 1
<1>1. c \in Conns /\ c \notin RawConns
    BY TypeParts
<1>2. ASSUME NEW d \in Conns, NEW lk, NEW s, SideStep(d, lk, s)
      PROVE  k \in Pends(session[c], link[c])
    <2>1. CASE d = c
        <3>1. session'[c] = s /\ link'[c] = lk
            BY <1>2, <2>1, SideTyped
        <3>2. Units(s.decoder, lk) \subseteq Units(session[c].decoder, link[c])
            BY <1>2, <2>1, SideUnits
        <3> QED BY <3>1, <3>2 DEF Pends
    <2>2. CASE d # c
        BY <1>1, <1>2, <2>2, SideTyped
    <2> QED BY <2>1, <2>2
<1>3. ASSUME NEW cl, NEW lk, ClientStep(cl, lk)
      PROVE  \/ k \in Pends(session[c], link[c]) \/ k = 0
             \/ k = Len(told) + 1 /\ Len(told') = Len(told) + 1
    <2>1. /\ session' = session /\ link'[cl.conn] = lk
          /\ \A d \in Conns : d # cl.conn => link'[d] = link[d]
        BY <1>3, ClientTyped DEF ClientStep
    <2>2. CASE cl.conn # c
        BY <1>1, <2>1, <2>2
    <2>3. CASE cl.conn = c /\ lk.up = link[c].up
        BY <2>1, <2>3 DEF Pends, Units
    <2>4. CASE cl.conn = c /\ lk.up # link[c].up
        <3>1. PICK f \in Frame : \E n \in 0 .. f.size + 1 :
                /\ lk.up = link[c].up \o SubSeq(encode_frame(f), 1, n)
                /\ \/ f.call = Len(told) + 1 /\ Len(told') = Len(told) + 1
                   \/ f = Blank /\ Unused(c)
            BY <1>3, <2>4, ClientStream
        <3>2. PICK n \in 0 .. f.size + 1 : lk.up = link[c].up \o SubSeq(encode_frame(f), 1, n)
            BY <3>1
        <3>3. link[c].up \in Seq(Unit)
            BY <1>1, StreamTyped
        <3> DEFINE r == link[c].up \o SubSeq(encode_frame(f), 1, n)
        <3>4. \A u \in In(r) : \/ u \in In(link[c].up)
                               \/ \E i \in 1 .. n : u = [frame |-> f, part |-> i - 1]
            BY <3>3, SentUnits
        <3>5. lk.up = r
            BY <3>2
        <3> HIDE DEF r
        <3>6. \A u \in In(lk.up) : u \in In(link[c].up) \/ u.frame = f
            BY <3>4, <3>5
        <3>7. PICK u \in Units(session[c].decoder, lk) : k = u.frame.call
            BY <2>1, <2>4 DEF Pends
        <3>8. u \in Units(session[c].decoder, link[c]) \/ u.frame = f
            BY <3>6, <3>7 DEF Units
        <3>9. f = Blank => f.call = 0
            BY DEF Blank
        <3> QED BY <3>1, <3>7, <3>8, <3>9 DEF Pends
    <2> QED BY <2>2, <2>3, <2>4
<1>4. ASSUME NEW d \in RawConns, NEW lk, RawStep(d, lk)
      PROVE  k \in Pends(session[c], link[c])
    <2>1. link'[c] = link[c] /\ session' = session
        BY <1>1, <1>4, RawTyped DEF RawStep
    <2> QED BY <2>1
<1>5. CASE DownStep
    <2>1. session'[c].decoder = Fresh /\ link'[c].up = <<>>
        BY <1>1, <1>5 DEF DownStep, Lnk
    <2>2. Units(session'[c].decoder, link'[c]) = {}
        BY <2>1, DecoderFacts, InEmpty DEF Units
    <2> QED BY <2>2 DEF Pends
<1>6. CASE RestartStep \/ UNCHANGED vars
    BY <1>6 DEF RestartStep, vars
<1> QED BY <1>2, <1>3, <1>4, <1>5, <1>6 DEF Steps

LEMMA SpentStep ==
    ASSUME TypeInv, Steps, NEW k \in Nat, k \notin Pending, k # 0, k <= Len(told)
    PROVE  k \notin Pending'
<1>1. Len(told) \in Nat
    <2>1. told \in Seq(Outcomes)
        BY TypeParts
    <2> QED BY <2>1
<1>2. k # Len(told) + 1
    BY <1>1
<1>3. \A c \in 1 .. MaxConns : k \notin Pends(session'[c], link'[c])
    BY <1>2, PendsStep DEF Pending
<1> QED BY <1>3, PendingNow

\* A frame that was taken from the stream leaves nothing of its call there.
LEMMA PopSpends ==
    ASSUME TypeInv, StreamInv, NEW c \in 1 .. MaxConns, NEW lk, NEW s, Replies(c, lk, s)
    PROVE  FirstFrame(session[c].decoder).call \notin Pends(s, lk)
<1> DEFINE t == session[c]
           l == link[c]
           a == t.decoder.buffer
           u == l.up
           f == FirstFrame(t.decoder)
           m == f.size + 1
           r == a \o u
<1>1. c \in Conns
    BY TypeParts
<1>2. a \in Seq(Unit) /\ u \in Seq(Unit) /\ Bounded(t.decoder) /\ Ascends(r)
    BY <1>1, StreamTyped DEF StreamInv, Stream
<1>3. lk = l /\ s.decoder = popped(t.decoder) /\ has_frame(t.decoder)
    BY DEF Replies
<1>4. /\ f \in Frame /\ m <= Len(a) /\ s.decoder.buffer = SubSeq(a, f.size + 2, Len(a))
      /\ \A i \in 1 .. f.size + 1 : a[i] = [frame |-> f, part |-> i - 1]
    BY <1>2, <1>3, PopFacts
<1>5. f.size \in Nat /\ f.call \in Nat
    BY <1>4 DEF Frame
<1>6. m \in 1 .. Len(a) /\ m \in Nat /\ f.size + 2 = m + 1 /\ Len(a) \in Nat
    <2>1. Len(a) \in Nat /\ m <= Len(a)
        <3> HIDE DEF a, m
        <3> QED BY <1>2, <1>4
    <2> HIDE DEF a, f
    <2> QED BY <1>5, <2>1
<1> DEFINE b == SubSeq(a, m + 1, Len(a))
           q == b \o u
<1>7. b \in Seq(Unit) /\ s.decoder.buffer = b
    <2>1. m + 1 \in Nat \ {0} /\ Len(a) \in 0 .. Len(a)
        BY <1>6
    <2>2. s.decoder.buffer = b
        BY <1>4, <1>6
    <2> HIDE DEF a, m
    <2> QED BY <1>2, <2>1, <2>2, InSubSeq
<1>8. Units(s.decoder, lk) = In(q) /\ q \in Seq(Unit)
    <2> HIDE DEF b
    <2> QED BY <1>2, <1>3, <1>7, InConcat DEF Units
<1>9. Len(r) = Len(q) + m /\ \A i \in 1 .. Len(q) : q[i] = r[m + i]
    <2> HIDE DEF a, u, m, f
    <2>1. m \in 0 .. Len(a) /\ a \in Seq(Unit) /\ u \in Seq(Unit)
        BY <1>2, <1>6
    <2> QED BY <2>1, Dropped
<1>10. r[m] = [frame |-> f, part |-> f.size]
    <2>1. a[m] = [frame |-> f, part |-> m - 1]
        BY <1>4, <1>6
    <2>2. m - 1 = f.size
        BY <1>5
    <2>3. r[m] = a[m]
        <3> HIDE DEF a, u, m
        <3>1. /\ m \in 1 .. Len(a) + Len(u) /\ m <= Len(a)
              /\ \A i \in 1 .. Len(a) + Len(u) : r[i] = IF i <= Len(a) THEN a[i] ELSE u[i - Len(a)]
            BY <1>2, <1>6, ConcatProperties
        <3> HIDE DEF r
        <3> QED BY <3>1
    <2> HIDE DEF r, a, m
    <2> QED BY <2>1, <2>2, <2>3
<1>11. Len(q) \in Nat
    <2> HIDE DEF q
    <2> QED BY <1>8
<1> HIDE DEF r, q, m, f
<1>12. ASSUME NEW v \in In(q)
       PROVE  v.frame.call # f.call
    <2>1. PICK i \in 1 .. Len(q) : v = q[i]
        BY DEF In
    <2>2. v = r[m + i] /\ m + i \in 1 .. Len(r) /\ m \in 1 .. Len(r) /\ m < m + i
        BY <1>6, <1>9, <1>11, <2>1
    <2>3. Precedes(r[m], v) /\ v.part <= v.frame.size
        BY <1>2, <2>2 DEF Ascends
    <2>4. v \in Unit
        BY <1>8 DEF In
    <2>5. v.frame.call \in Nat /\ v.part \in Nat
        BY <2>4 DEF Unit, Frame
    <2>6. v.frame # f \/ ~(f.size < v.part)
        BY <1>5, <2>3, <2>5
    <2>7. f.call < v.frame.call
        BY <1>10, <2>3, <2>6 DEF Precedes
    <2> QED BY <1>5, <2>5, <2>7
<1> QED BY <1>8, <1>12 DEF Pends, f


-----------------------------------------------------------------------------
(* Other peers make no calls. *)

Foreign(s, lk) == \A u \in Units(s.decoder, lk) : u.frame.call = 0

RawInv ==
    /\ \A c \in RawConns : Foreign(session[c], link[c])
    /\ \A a \in In(applied) : a.conn \in RawConns => a.call = 0

LEMMA RawNow ==
    ASSUME \A c \in RawConns : Foreign(session'[c], link'[c]),
           \A a \in In(applied') : a.conn \in RawConns => a.call = 0
    PROVE  RawInv'
<1>1. \A c \in RawConns : Foreign(session[c], link[c])'
    BY DEF Foreign, Units, In
<1>2. (\A a \in In(applied) : a.conn \in RawConns => a.call = 0)'
    BY DEF In
<1> QED BY <1>1, <1>2 DEF RawInv

LEMMA RawKept ==
    ASSUME TypeInv, RawInv, Steps
    PROVE  RawInv'
<1>1. \A c \in RawConns : c \in Conns /\ c \notin 1 .. MaxConns
    <2>1. \A c \in 1 .. MaxConns : c \notin RawConns
        BY TypeParts
    <2> QED BY <2>1 DEF Conns
<1>2. ASSUME NEW d \in Conns, NEW lk, NEW s, SideStep(d, lk, s)
      PROVE  RawInv'
    <2> DEFINE f == FirstFrame(session[d].decoder)
    <2>1. /\ session'[d] = s /\ link'[d] = lk
          /\ \A c \in Conns : c # d => link'[c] = link[c] /\ session'[c] = session[c]
          /\ Units(s.decoder, lk) \subseteq Units(session[d].decoder, link[d])
        BY <1>2, SideTyped, SideUnits
    <2>2. \A c \in RawConns : Foreign(session'[c], link'[c])
        BY <1>1, <2>1 DEF RawInv, Foreign
    <2>3. ASSUME applied' # applied
          PROVE  \A a \in In(applied') : a.conn \in RawConns => a.call = 0
        <3>1. /\ [frame |-> f, part |-> f.size] \in In(session[d].decoder.buffer)
              /\ applied' = Append(applied, Entry(d, f)) /\ Entry(d, f) \in Entries
              /\ applied \in Seq(Entries)
            BY <1>2, <2>3, AppliedGrows
        <3> HIDE DEF f
        <3> DEFINE w == [frame |-> f, part |-> f.size]
                   e == Entry(d, f)
        <3>2. w.frame = f /\ w \in Units(session[d].decoder, link[d])
            BY <3>1 DEF Units
        <3>3. e.conn = d /\ e.call = f.call
            BY DEF Entry
        <3>4. In(applied') = In(applied) \cup {e}
            BY <3>1, InAppend
        <3> HIDE DEF w, e
        <3>5. d \in RawConns => f.call = 0
            BY <3>2 DEF RawInv, Foreign
        <3> QED BY <3>3, <3>4, <3>5 DEF RawInv
    <2>4. CASE applied' = applied
        BY <2>2, <2>4, RawNow DEF RawInv
    <2> QED BY <2>2, <2>3, <2>4, RawNow
<1>3. ASSUME NEW cl, NEW lk, ClientStep(cl, lk)
      PROVE  RawInv'
    <2>1. /\ session' = session /\ applied' = applied /\ cl.conn \in 1 .. MaxConns
          /\ \A c \in Conns : c # cl.conn => link'[c] = link[c]
        BY <1>3, ClientTyped DEF ClientStep
    <2>2. \A c \in RawConns : link'[c] = link[c]
        BY <1>1, <2>1
    <2> QED BY <2>1, <2>2, RawNow DEF RawInv
<1>4. ASSUME NEW d \in RawConns, NEW lk, RawStep(d, lk)
      PROVE  RawInv'
    <2>1. /\ session' = session /\ applied' = applied /\ link'[d] = lk
          /\ \A c \in Conns : c # d => link'[c] = link[c]
          /\ \A u \in In(lk.up) : u \in In(link[d].up) \/ u.frame.call = 0
        BY <1>4, RawTyped DEF RawStep
    <2>2. Foreign(session[d], lk)
        BY <2>1 DEF RawInv, Foreign, Units
    <2>3. \A c \in RawConns : Foreign(session'[c], link'[c])
        BY <1>1, <2>1, <2>2 DEF RawInv
    <2> QED BY <2>1, <2>3, RawNow DEF RawInv
<1>5. CASE DownStep
    <2>1. \A c \in RawConns : session'[c].decoder = Fresh /\ link'[c].up = <<>>
        BY <1>1, <1>5 DEF DownStep, Lnk
    <2>2. \A c \in RawConns : Foreign(session'[c], link'[c])
        BY <2>1, DecoderFacts, InEmpty DEF Units, Foreign
    <2>3. applied' = applied
        BY <1>5 DEF DownStep
    <2> QED BY <2>2, <2>3, RawNow DEF RawInv
<1>6. CASE RestartStep \/ UNCHANGED vars
    <2>1. session' = session /\ link' = link /\ applied' = applied
        BY <1>6 DEF RestartStep, vars
    <2> QED BY <2>1, RawNow DEF RawInv
<1> QED BY <1>2, <1>3, <1>4, <1>5, <1>6 DEF Steps

LEMMA RawInit ==
    ASSUME Init
    PROVE  RawInv
<1>1. \A c \in RawConns : session[c].decoder = Fresh /\ link[c].up = <<>>
    BY DEF Init, NoLink, NoThread, Conns
<1>2. \A c \in RawConns : Foreign(session[c], link[c])
    BY <1>1, DecoderFacts, InEmpty DEF Units, Foreign
<1>3. In(applied) = {}
    BY InEmpty DEF Init
<1> QED BY <1>2, <1>3 DEF RawInv

-----------------------------------------------------------------------------
(* One call at a time. *)

Waits(cl) == cl.at = "waiting" /\ cl.call # 0

OpenInv ==
    /\ Waits(client) => /\ client.call \in 1 .. Len(told) /\ client.expect \in {"ok", "bye"}
                        /\ told[client.call].outcome = "open"
    /\ \A k \in 1 .. Len(told) : told[k].outcome = "open" => Waits(client) /\ client.call = k

\* How what the callers were told grows: a new call, or the answer to the open
\* one; an answer that the caller was given is the start of the client's buffer.
Opens == \E o \in {"open", "failed"} :
    /\ client.at = "idle" /\ told' = Append(told, [outcome |-> o, by |-> 0])
    /\ IF o = "open" THEN /\ client'.at = "waiting" /\ client'.call = Len(told) + 1
                          /\ client'.expect \in {"ok", "bye"}
                     ELSE client'.at = "idle"

Backs(o) ==
    \E u \in In(client.decoder.buffer) :
      u.frame.call = client.call /\ (o = "ok" => u.frame.type \in {"ok", "bye"})

Settles == \E o \in {"ok", "refused", "failed"}, by \in Nat :
    /\ Waits(client) /\ client'.at # "waiting" /\ Tells(o, by)
    /\ o \in {"ok", "refused"} => Backs(o)

\* A step that tells nobody anything.
Quiet ==
    /\ told' = told
    /\ \/ client'.at = client.at /\ client'.call = client.call /\ client'.expect = client.expect
       \/ ~Waits(client) /\ ~Waits(client')

LEMMA ToldForms ==
    ASSUME TypeInv, TagInv, OpenInv, Steps
    PROVE  Quiet \/ ((Opens \/ Settles) /\ applied' = applied)
<1>1. CASE ~ \E cl, lk : ClientStep(cl, lk)
    <2>1. client' = client /\ told' = told
        BY <1>1 DEF Steps, SideStep, RawStep, DownStep, RestartStep, vars
    <2> QED BY <2>1 DEF Quiet
<1>2. ASSUME NEW cl, NEW lk, ClientStep(cl, lk)
      PROVE  Quiet \/ ((Opens \/ Settles) /\ applied' = applied)
    <2>0. client' = cl /\ applied' = applied
        BY <1>2 DEF ClientStep
    <2>1. CASE Connects(cl, lk)
        BY <2>0, <2>1 DEF Connects, Quiet, Waits
    <2>2. CASE (\E f : Calls(cl, lk, f)) \/ (\E f : Cuts(cl, lk, f)) \/ Refuses(cl, lk)
        BY <2>0, <2>2 DEF Calls, Cuts, Refuses, Opens
    <2>3. CASE Reads(cl, lk)
        BY <2>0, <2>3 DEF Reads, Cli, Quiet
    <2>4. CASE Ends(cl, lk)
        <3>1. CASE told' = told /\ ~Waits(client)
            <4>1. ~Waits(cl)
                BY <2>4 DEF Ends, HangsUp, Cli, Waits
            <4> QED BY <2>0, <3>1, <4>1 DEF Quiet
        <3>2. CASE ~(told' = told /\ ~Waits(client))
            <4> DEFINE f == FirstFrame(client.decoder)
            <4>1. Waits(client) /\ cl.at # "waiting"
                <5>1. client \in Client
                    BY TypeParts
                <5>2. client.call \in Nat
                    BY <5>1 DEF Client
                <5>3. client.call > 0 => client.call # 0
                    BY <5>2
                <5> QED BY <2>4, <3>2, <5>3 DEF Ends, HangsUp, Cli, Waits
            <4>2. \/ Tells("failed", 0)
                  \/ /\ has_frame(client.decoder) /\ f.seq = client.seq
                     /\ \/ Tells("ok", f.call) /\ f.type = client.expect
                        \/ Tells("refused", f.call)
                        \/ Tells("failed", f.call)
                BY <2>4, <4>1 DEF Ends, Waits
            <4>3. CASE Tells("failed", 0)
                BY <2>0, <4>1, <4>3 DEF Settles
            <4>4. CASE /\ has_frame(client.decoder) /\ f.seq = client.seq
                       /\ \/ Tells("ok", f.call) /\ f.type = client.expect
                          \/ Tells("refused", f.call)
                          \/ Tells("failed", f.call)
                <5> DEFINE w == [frame |-> f, part |-> f.size]
                <5>1. f \in Frame /\ w \in In(client.decoder.buffer)
                    BY <4>4, TypeParts, PopFacts
                <5> HIDE DEF f
                <5>2. w.frame = f /\ f.call \in Nat
                    BY <5>1 DEF Frame
                <5> HIDE DEF w
                <5>3. f \in Echoes(session[client.conn], link[client.conn], client)
                    BY <5>1, <5>2 DEF Echoes
                <5>4. f.call = client.call
                    BY <4>1, <4>4, <5>3 DEF TagInv, Matches, Waits
                <5>5. CASE Tells("ok", f.call) /\ f.type = client.expect
                    <6>1. Backs("ok")
                        BY <4>1, <5>1, <5>2, <5>4, <5>5 DEF Backs, OpenInv
                    <6> QED BY <2>0, <4>1, <5>2, <5>5, <6>1 DEF Settles
                <5>6. CASE Tells("refused", f.call)
                    <6>1. Backs("refused")
                        BY <5>1, <5>2, <5>4 DEF Backs
                    <6> QED BY <2>0, <4>1, <5>2, <5>6, <6>1 DEF Settles
                <5>7. CASE Tells("failed", f.call)
                    BY <2>0, <4>1, <5>2, <5>7 DEF Settles
                <5> QED BY <4>4, <5>5, <5>6, <5>7
            <4> QED BY <4>2, <4>3, <4>4
        <3> QED BY <3>1, <3>2
    <2> QED BY <1>2, <2>1, <2>2, <2>3, <2>4 DEF ClientStep
<1> QED BY <1>1, <1>2

\* Lengths and outcomes after such a step.
LEMMA ToldParts ==
    ASSUME TypeInv
    PROVE  /\ told \in Seq(Outcomes) /\ Len(told) \in Nat /\ DOMAIN told = 1 .. Len(told)
           /\ \A k \in 1 .. Len(told) : told[k].outcome \in {"open", "ok", "refused", "failed"}
<1>1. told \in Seq(Outcomes)
    BY TypeParts
<1>2. \A k \in 1 .. Len(told) : told[k] \in Outcomes
    BY <1>1
<1> QED BY <1>1, <1>2 DEF Outcomes

LEMMA Opened ==
    ASSUME TypeInv, NEW o \in {"open", "failed"},
           told' = Append(told, [outcome |-> o, by |-> 0])
    PROVE  /\ Len(told') = Len(told) + 1 /\ DOMAIN told' = 1 .. Len(told) + 1
           /\ \A k \in 1 .. Len(told) : told'[k] = told[k]
           /\ told'[Len(told) + 1].outcome = o
<1> DEFINE e == [outcome |-> o, by |-> 0]
<1>1. e \in Outcomes /\ e.outcome = o /\ told' = Append(told, e)
    BY DEF Outcomes
<1> HIDE DEF e
<1> QED BY <1>1, ToldParts

LEMMA Settled ==
    ASSUME TypeInv, NEW o, NEW by, client.call \in 1 .. Len(told), Tells(o, by)
    PROVE  /\ Len(told') = Len(told) /\ DOMAIN told' = 1 .. Len(told)
           /\ \A k \in 1 .. Len(told) :
                told'[k].outcome = IF k = client.call THEN o ELSE told[k].outcome
<1> DEFINE e == [outcome |-> o, by |-> by]
<1>1. e.outcome = o /\ told' = [told EXCEPT ![client.call] = e]
    BY DEF Tells
<1> HIDE DEF e
<1>2. /\ DOMAIN told' = 1 .. Len(told)
      /\ \A k \in 1 .. Len(told) : told'[k] = IF k = client.call THEN e ELSE told[k]
    BY <1>1, ToldParts
<1>3. Len(told') = Len(told)
    BY <1>2, ToldParts
<1> QED BY <1>1, <1>2, <1>3


LEMMA OpenStep ==
    ASSUME TypeInv, TagInv, OpenInv, Steps
    PROVE  OpenInv'
<1>1. /\ Len(told) \in Nat
      /\ \A k \in 1 .. Len(told) : told[k].outcome = "open" => Waits(client) /\ client.call = k
    BY ToldParts DEF OpenInv
<1>2. CASE Opens
    <2>1. PICK o \in {"open", "failed"} :
            /\ client.at = "idle" /\ told' = Append(told, [outcome |-> o, by |-> 0])
            /\ IF o = "open" THEN /\ client'.at = "waiting" /\ client'.call = Len(told) + 1
                                  /\ client'.expect \in {"ok", "bye"}
                             ELSE client'.at = "idle"
        BY <1>2 DEF Opens
    <2>2. /\ Len(told') = Len(told) + 1
          /\ \A k \in 1 .. Len(told) : told'[k] = told[k]
          /\ told'[Len(told) + 1].outcome = o
        BY <2>1, Opened
    <2>3. \A k \in 1 .. Len(told') : k \in 1 .. Len(told) \/ k = Len(told) + 1
        BY <1>1, <2>2
    <2>4. \A k \in 1 .. Len(told) : told[k].outcome # "open"
        BY <1>1, <2>1 DEF Waits
    <2>5. Len(told) + 1 \in 1 .. Len(told') /\ Len(told) + 1 # 0
        BY <1>1, <2>2
    <2>6. Waits(client') => /\ client'.call \in 1 .. Len(told') /\ client'.expect \in {"ok", "bye"}
                            /\ told'[client'.call].outcome = "open"
        BY <2>1, <2>2, <2>5 DEF Waits
    <2>7. \A k \in 1 .. Len(told') :
            told'[k].outcome = "open" => Waits(client') /\ client'.call = k
        BY <2>1, <2>2, <2>3, <2>4, <2>5 DEF Waits
    <2> QED BY <2>6, <2>7 DEF OpenInv, Waits
<1>3. CASE Settles
    <2>1. PICK o \in {"ok", "refused", "failed"}, by \in Nat :
            Waits(client) /\ client'.at # "waiting" /\ Tells(o, by)
        BY <1>3 DEF Settles
    <2>2. client.call \in 1 .. Len(told)
        BY <2>1 DEF OpenInv
    <2>3. /\ Len(told') = Len(told)
          /\ \A k \in 1 .. Len(told) :
               told'[k].outcome = IF k = client.call THEN o ELSE told[k].outcome
        BY <2>1, <2>2, Settled
    <2>4. \A k \in 1 .. Len(told) : told'[k].outcome # "open"
        BY <1>1, <2>1, <2>3
    <2> QED BY <2>1, <2>3, <2>4 DEF OpenInv, Waits
<1>4. CASE Quiet
    BY <1>4 DEF Quiet, OpenInv, Waits
<1> QED BY <1>2, <1>3, <1>4, ToldForms

LEMMA OpenInit ==
    ASSUME Init
    PROVE  OpenInv
<1>1. Len(told) = 0 /\ client.at = "closed"
    BY DEF Init, NoClient
<1>2. 1 .. 0 = {}
    OBVIOUS
<1> QED BY <1>1, <1>2 DEF OpenInv, Waits

LEMMA ToldLonger ==
    ASSUME TypeInv, TagInv, OpenInv, Steps
    PROVE  Len(told) <= Len(told') /\ Len(told') \in Nat
<1>1. Len(told) \in Nat
    BY ToldParts
<1>2. CASE Opens
    <2>1. Len(told') = Len(told) + 1
        BY <1>2, Opened DEF Opens
    <2> QED BY <1>1, <2>1
<1>3. CASE Settles
    <2>1. Len(told') = Len(told)
        BY <1>3, Settled DEF Settles, OpenInv
    <2> QED BY <1>1, <2>1
<1>4. CASE Quiet
    BY <1>1, <1>4 DEF Quiet
<1> QED BY <1>2, <1>3, <1>4, ToldForms

-----------------------------------------------------------------------------
(* Nothing is carried out after it was answered. *)

Done(A) == {a.call : a \in In(A)}

\* An answer to a call: the call was made, nothing of it is left to understand,
\* and when the answer is that it was carried out, it was.
Final(p, n, P, A) ==
    p.call # 0 => /\ p.call <= n /\ p.call \notin P
                  /\ p.type \in {"ok", "bye"} => p.call \in Done(A)

Finals(q, n, P, A) == \A u \in In(q) : Final(u.frame, n, P, A)

AnsweredInv ==
    /\ Finals(client.decoder.buffer, Len(told), Pending, applied)
    /\ \A c \in 1 .. MaxConns : Finals(link[c].down, Len(told), Pending, applied)
    /\ \A c \in 1 .. MaxConns :
         session[c].at = "send" => Final(session[c].reply, Len(told), Pending, applied)
    /\ \A k \in 1 .. Len(told) : told[k].outcome \in {"ok", "refused"} => k \notin Pending

\* How an answer comes to be where it is.
LEMMA AnswersMove ==
    ASSUME TypeInv, Steps
    PROVE  /\ \A u \in In(client'.decoder.buffer) :
                \/ u \in In(client.decoder.buffer)
                \/ \E c \in 1 .. MaxConns : u \in In(link[c].down)
           /\ \A c \in 1 .. MaxConns : \A u \in In(link'[c].down) :
                \/ u \in In(link[c].down)
                \/ session[c].at = "send" /\ u.frame = session[c].reply
           /\ \A c \in 1 .. MaxConns : session'[c].at = "send" =>
                \/ session[c].at = "send" /\ session'[c].reply = session[c].reply
                \/ \E lk : SideStep(c, lk, session'[c]) /\ Replies(c, lk, session'[c])
<1>1. \A c \in 1 .. MaxConns : c \in Conns /\ c \notin RawConns
    BY TypeParts
<1>2. ASSUME NEW d \in Conns, NEW lk, NEW s, SideStep(d, lk, s)
      PROVE  /\ client' = client
             /\ \A c \in 1 .. MaxConns : \A u \in In(link'[c].down) :
                  \/ u \in In(link[c].down)
                  \/ session[c].at = "send" /\ u.frame = session[c].reply
             /\ \A c \in 1 .. MaxConns : session'[c].at = "send" =>
                  \/ session[c].at = "send" /\ session'[c].reply = session[c].reply
                  \/ \E k : SideStep(c, k, session'[c]) /\ Replies(c, k, session'[c])
    <2> DEFINE t == session[d]
               l == link[d]
    <2>1. /\ session'[d] = s /\ link'[d] = lk
          /\ \A c \in Conns : c # d => link'[c] = link[c] /\ session'[c] = session[c]
        BY <1>2, SideTyped
    <2>2. t.reply \in Frame /\ l.down \in Seq(Unit)
        BY TypeParts DEF Thread, Link
    <2>3. ASSUME NEW u \in In(lk.down)
          PROVE  u \in In(l.down) \/ (t.at = "send" /\ u.frame = t.reply)
        <3>1. CASE Accepts(d, lk, s) \/ Receives(d, lk, s) \/ Loops(d, lk, s) \/ Replies(d, lk, s)
            BY <2>3, <3>1 DEF Accepts, Receives, Loops, Replies, Lnk
        <3>2. CASE Leaves(d, lk, s)
            <4>1. \/ lk.down = l.down
                  \/ /\ t.at = "send"
                     /\ \E n \in 0 .. Len(encode_frame(t.reply)) :
                          lk.down = l.down \o SubSeq(encode_frame(t.reply), 1, n)
                BY <3>2 DEF Leaves, Lnk
            <4> QED BY <2>2, <2>3, <4>1, ReplyUnits
        <3>3. CASE Sends(d, lk, s)
            <4>1. t.at = "send" /\ (lk.down = l.down \/ lk.down = l.down \o encode_frame(t.reply))
                BY <3>3 DEF Sends, Lnk
            <4>2. 0 \in 0 .. Len(encode_frame(t.reply))
                BY <2>2, EncodeFacts
            <4> QED BY <2>2, <2>3, <4>1, <4>2, ReplyUnits
        <3> QED BY <1>2, <3>1, <3>2, <3>3 DEF SideStep
    <2>4. s.at = "send" => Replies(d, lk, s)
        BY <1>2 DEF SideStep, Accepts, Receives, Loops, Leaves, Sends, Thr
    <2>5. client' = client
        BY <1>2 DEF SideStep
    <2> QED BY <1>1, <1>2, <2>1, <2>3, <2>4, <2>5
<1>3. ASSUME NEW cl, NEW lk, ClientStep(cl, lk)
      PROVE  /\ session' = session
             /\ \A c \in 1 .. MaxConns : In(link'[c].down) \subseteq In(link[c].down)
             /\ \A u \in In(client'.decoder.buffer) :
                  \/ u \in In(client.decoder.buffer)
                  \/ \E c \in 1 .. MaxConns : u \in In(link[c].down)
    <2> DEFINE c == cl.conn
               l == link[c]
    <2>1. /\ client' = cl /\ session' = session /\ link'[c] = lk /\ c \in 1 .. MaxConns
          /\ \A d \in Conns : d # c => link'[d] = link[d]
          /\ Bounded(client.decoder) /\ l.down \in Seq(Unit)
        BY <1>3, ClientTyped, TypeParts DEF ClientStep, Link
    <2>2. In(lk.down) \subseteq In(l.down)
          /\ In(cl.decoder.buffer) \subseteq In(l.down) \cup In(client.decoder.buffer)
        <3>1. CASE Reads(cl, lk)
            <4>0. c = client.conn
                BY <3>1 DEF Reads, Cli
            <4>1. PICK n \in 1 .. Len(l.down) :
                      /\ cl.decoder = feed(client.decoder, SubSeq(l.down, 1, n))
                      /\ lk.down = SubSeq(l.down, n + 1, Len(l.down))
                BY <3>1, <4>0 DEF Reads, Cli, Lnk
            <4>2. /\ n + 1 \in Nat \ {0} /\ 1 \in Nat \ {0} /\ n \in 0 .. Len(l.down)
                  /\ Len(l.down) \in 0 .. Len(l.down)
                BY <2>1
            <4> DEFINE data == SubSeq(l.down, 1, n)
                       rest == SubSeq(l.down, n + 1, Len(l.down))
            <4>3. data \in Seq(Unit) /\ In(data) \subseteq In(l.down) /\ In(rest) \subseteq In(l.down)
                BY <2>1, <4>2, InSubSeq
            <4>4. cl.decoder = feed(client.decoder, data) /\ lk.down = rest
                BY <4>1
            <4> HIDE DEF data, rest
            <4>5. In(cl.decoder.buffer) \subseteq In(client.decoder.buffer) \cup In(data)
                BY <2>1, <4>3, <4>4, FeedFacts
            <4> QED BY <4>3, <4>4, <4>5
        <3>2. CASE ~Reads(cl, lk)
            <4>1. /\ lk.down = <<>> \/ lk.down = l.down
                  /\ \/ cl.decoder \in {client.decoder, Failed, Fresh}
                     \/ has_frame(client.decoder) /\ cl.decoder = popped(client.decoder)
                BY <1>3, <3>2
                   DEF ClientStep, Connects, Calls, Cuts, Refuses, Ends, HangsUp, Cli, Lnk
            <4> QED BY <2>1, <4>1, PopFacts, DecoderFacts, InEmpty
        <3> QED BY <3>1, <3>2
    <2> QED BY <1>1, <2>1, <2>2
<1>4. ASSUME NEW d \in RawConns, NEW lk, RawStep(d, lk)
      PROVE  client' = client /\ session' = session /\ \A c \in 1 .. MaxConns : link'[c] = link[c]
    BY <1>1, <1>4, RawTyped DEF RawStep
<1>5. CASE DownStep
    <2>1. client' = client
          /\ \A c \in 1 .. MaxConns : link'[c].down = link[c].down /\ session'[c].at # "send"
        BY <1>1, <1>5 DEF DownStep, Lnk
    <2> QED BY <2>1
<1>6. CASE RestartStep \/ UNCHANGED vars
    BY <1>6 DEF RestartStep, vars
<1>7. CASE \E d \in Conns : \E lk, s : SideStep(d, lk, s)
    <2>1. PICK d \in Conns : \E lk, s : SideStep(d, lk, s)
        BY <1>7
    <2>2. PICK lk, s : SideStep(d, lk, s)
        BY <2>1
    <2> QED BY <1>2, <2>2
<1>8. CASE \E cl, lk : ClientStep(cl, lk)
    BY <1>3, <1>8
<1>9. CASE \E d \in RawConns : \E lk : RawStep(d, lk)
    BY <1>4, <1>9
<1> QED BY <1>5, <1>6, <1>7, <1>8, <1>9 DEF Steps


LEMMA AnsweredNow ==
    ASSUME Finals(client'.decoder.buffer, Len(told'), Pending', applied'),
           \A c \in 1 .. MaxConns : Finals(link'[c].down, Len(told'), Pending', applied'),
           \A c \in 1 .. MaxConns :
             session'[c].at = "send" => Final(session'[c].reply, Len(told'), Pending', applied'),
           \A k \in 1 .. Len(told') :
             told'[k].outcome \in {"ok", "refused"} => k \notin Pending'
    PROVE  AnsweredInv'
<1>1. Finals(client.decoder.buffer, Len(told), Pending, applied)'
    BY DEF Finals, Final, Done, In
<1>2. (\A c \in 1 .. MaxConns : Finals(link[c].down, Len(told), Pending, applied))'
    BY DEF Finals, Final, Done, In
<1>3. (\A c \in 1 .. MaxConns :
         session[c].at = "send" => Final(session[c].reply, Len(told), Pending, applied))'
    BY DEF Final, Done, In
<1> QED BY <1>1, <1>2, <1>3 DEF AnsweredInv

LEMMA DoneStep ==
    ASSUME TypeInv, Steps
    PROVE  Done(applied) \subseteq Done(applied')
<1>1. CASE applied' = applied
    BY <1>1
<1>2. CASE applied' # applied
    <2>0. PICK c \in Conns : \E lk, s : SideStep(c, lk, s)
        BY <1>2 DEF Steps, ClientStep, RawStep, DownStep, RestartStep, vars
    <2>1. PICK lk, s : SideStep(c, lk, s)
        BY <2>0
    <2> DEFINE e == Entry(c, FirstFrame(session[c].decoder))
    <2>2. applied' = Append(applied, e) /\ e \in Entries /\ applied \in Seq(Entries)
        BY <1>2, <2>1, AppliedGrows
    <2> HIDE DEF e
    <2>3. In(applied) \subseteq In(applied')
        BY <2>2, InAppend
    <2> QED BY <2>3 DEF Done
<1> QED BY <1>1, <1>2

LEMMA FinalStep ==
    ASSUME TypeInv, TagInv, OpenInv, Steps, NEW p \in Frame,
           Final(p, Len(told), Pending, applied)
    PROVE  Final(p, Len(told'), Pending', applied')
<1> SUFFICES ASSUME p.call # 0
             PROVE  /\ p.call <= Len(told') /\ p.call \notin Pending'
                    /\ p.type \in {"ok", "bye"} => p.call \in Done(applied')
    BY DEF Final
<1>1. /\ p.call <= Len(told) /\ p.call \notin Pending
      /\ p.type \in {"ok", "bye"} => p.call \in Done(applied)
    BY DEF Final
<1>2. p.call \in Nat
    BY DEF Frame
<1>3. p.call <= Len(told')
    BY <1>1, <1>2, ToldLonger, ToldParts
<1>4. p.call \notin Pending'
    BY <1>1, <1>2, SpentStep
<1> QED BY <1>1, <1>3, <1>4, DoneStep

\* What a session is about to answer.
LEMMA NewFinal ==
    ASSUME TypeInv, KeyInv, StreamInv, NEW c \in 1 .. MaxConns, NEW lk, NEW s,
           SideStep(c, lk, s), Replies(c, lk, s)
    PROVE  Final(s.reply, Len(told'), Pending', applied')
<1> DEFINE t == session[c]
           f == FirstFrame(t.decoder)
           w == [frame |-> f, part |-> f.size]
<1>1. c \in Conns /\ \A d \in 1 .. MaxConns : d \in Conns
    BY TypeParts
<1>0. told' = told
    BY DEF SideStep
<1>2. /\ session'[c] = s /\ link'[c] = lk /\ told' = told
      /\ \A d \in Conns : d # c => link'[d] = link[d] /\ session'[d] = session[d]
    BY <1>0, <1>1, SideTyped
<1>3. f \in Frame /\ w \in In(t.decoder.buffer)
    BY <1>1, TypeParts, PopFacts DEF Replies
<1>4. s.reply.call = f.call /\ (Greets(t, s, f) \/ Dispatches(c, t, s, f))
    BY DEF Replies
<1>5. f.call \notin Pends(s, lk)
    BY PopSpends
<1> HIDE DEF f
<1>6. w.frame = f /\ f.call \in Nat
    BY <1>3 DEF Frame
<1> HIDE DEF w
<1>7. f \in Asks(c)
    BY <1>3, <1>6 DEF Asks, Asked, Units
<1>8. f.call <= Len(told)
    BY <1>7 DEF KeyInv, Counted
<1>9. ASSUME f.call # 0, NEW d \in 1 .. MaxConns
      PROVE  f.call \notin Pends(session'[d], link'[d])
    <2>1. CASE d = c
        BY <1>2, <1>5, <2>1
    <2>2. CASE d # c
        <3>1. session'[d] = session[d] /\ link'[d] = link[d]
            BY <1>1, <1>2, <2>2
        <3>2. ASSUME NEW u \in Units(session[d].decoder, link[d]), u.frame.call = f.call
              PROVE  FALSE
            <4>1. u.frame \in Asks(d)
                BY DEF Asks, Asked
            <4>2. Apart(Asks(c), Asks(d))
                BY <2>2 DEF KeyInv
            <4> QED BY <1>7, <1>9, <3>2, <4>1, <4>2 DEF Apart
        <3> QED BY <3>1, <3>2 DEF Pends
    <2> QED BY <2>1, <2>2
<1>10. f.call # 0 => f.call \notin Pending'
    BY <1>9, PendingNow
<1>11. s.reply.type \in {"ok", "bye"} => f.call \in Done(applied')
    <2> SUFFICES ASSUME s.reply.type \in {"ok", "bye"}
                 PROVE  f.call \in Done(applied')
        OBVIOUS
    <2> DEFINE e == Entry(c, f)
    <2>1. applied' = Append(applied, e)
        BY <1>4 DEF Greets, Dispatches
    <2>2. applied \in Seq(Entries) /\ applied' # applied
        <3>1. applied \in Seq(Entries)
            BY TypeParts
        <3>2. Len(applied') # Len(applied)
            <4> HIDE DEF e
            <4> QED BY <2>1, <3>1
        <3> QED BY <3>1, <3>2
    <2>3. e \in Entries
        BY <1>1, <2>2, AppliedGrows DEF f
    <2>4. e.call = f.call
        BY DEF Entry
    <2> HIDE DEF e
    <2>5. e \in In(applied')
        BY <2>1, <2>2, <2>3, InAppend
    <2> QED BY <2>4, <2>5 DEF Done
<1> QED BY <1>2, <1>4, <1>8, <1>10, <1>11 DEF Final

LEMMA AnsweredStep ==
    ASSUME TypeInv, KeyInv, TagInv, StreamInv, OpenInv, AnsweredInv, Steps
    PROVE  AnsweredInv'
<1> DEFINE n == Len(told)
           m == Len(told')
<1>1. /\ \A c \in 1 .. MaxConns : link[c].down \in Seq(Unit) /\ session[c].reply \in Frame
      /\ client.decoder.buffer \in Seq(Unit)
    BY TypeParts DEF Link, Thread, Bounded, Decoder
<1>2. \A p \in Frame : Final(p, n, Pending, applied) => Final(p, m, Pending', applied')
    BY FinalStep
<1>3. \A u \in Unit : u.frame \in Frame
    BY DEF Unit
<1>4. ASSUME NEW c \in 1 .. MaxConns, NEW u \in In(link[c].down)
      PROVE  Final(u.frame, m, Pending', applied')
    <2>1. u \in Unit
        BY <1>1 DEF In
    <2>2. Final(u.frame, n, Pending, applied)
        BY DEF AnsweredInv, Finals
    <2> QED BY <1>2, <1>3, <2>1, <2>2
<1>5. ASSUME NEW u \in In(client.decoder.buffer)
      PROVE  Final(u.frame, m, Pending', applied')
    <2>1. u \in Unit
        BY <1>1 DEF In
    <2>2. Final(u.frame, n, Pending, applied)
        BY DEF AnsweredInv, Finals
    <2> QED BY <1>2, <1>3, <2>1, <2>2
<1>6. ASSUME NEW c \in 1 .. MaxConns, session[c].at = "send"
      PROVE  Final(session[c].reply, m, Pending', applied')
    BY <1>1, <1>2, <1>6 DEF AnsweredInv
<1>7. Finals(client'.decoder.buffer, m, Pending', applied')
    BY <1>4, <1>5, AnswersMove DEF Finals
<1>8. \A c \in 1 .. MaxConns : Finals(link'[c].down, m, Pending', applied')
    <2>1. ASSUME NEW c \in 1 .. MaxConns, NEW u \in In(link'[c].down)
          PROVE  Final(u.frame, m, Pending', applied')
        <3>1. \/ u \in In(link[c].down)
              \/ session[c].at = "send" /\ u.frame = session[c].reply
            BY AnswersMove
        <3> QED BY <1>4, <1>6, <3>1
    <2> QED BY <2>1 DEF Finals
<1>9. ASSUME NEW c \in 1 .. MaxConns, session'[c].at = "send"
      PROVE  Final(session'[c].reply, m, Pending', applied')
    <2>1. CASE session[c].at = "send" /\ session'[c].reply = session[c].reply
        BY <1>6, <2>1
    <2>2. CASE \E lk : SideStep(c, lk, session'[c]) /\ Replies(c, lk, session'[c])
        BY <2>2, NewFinal
    <2> QED BY <1>9, <2>1, <2>2, AnswersMove
<1>10. ASSUME NEW k \in 1 .. m, told'[k].outcome \in {"ok", "refused"}
       PROVE  k \notin Pending'
    <2>0. n \in Nat
        BY ToldParts
    <2>1. ASSUME k \in 1 .. n, told[k].outcome \in {"ok", "refused"}
          PROVE  k \notin Pending'
        <3>1. k \notin Pending
            BY <2>1 DEF AnsweredInv
        <3>2. k \in Nat /\ k # 0 /\ k <= n
            BY <2>0, <2>1
        <3> QED BY <3>1, <3>2, SpentStep
    <2>2. CASE Opens
        <3>1. PICK o \in {"open", "failed"} : told' = Append(told, [outcome |-> o, by |-> 0])
            BY <2>2 DEF Opens
        <3>2. /\ m = n + 1 /\ \A i \in 1 .. n : told'[i] = told[i]
              /\ told'[n + 1].outcome = o
            BY <3>1, Opened
        <3>3. k \in 1 .. n \/ k = n + 1
            BY <2>0, <3>2
        <3> QED BY <1>10, <2>1, <3>2, <3>3
    <2>3. CASE Settles
        <3>1. PICK o \in {"ok", "refused", "failed"}, by \in Nat :
                Waits(client) /\ Tells(o, by) /\ (o \in {"ok", "refused"} => Backs(o))
            BY <2>3 DEF Settles
        <3>2. client.call \in 1 .. n
            BY <3>1 DEF OpenInv
        <3>3. /\ m = n
              /\ \A i \in 1 .. n :
                   told'[i].outcome = IF i = client.call THEN o ELSE told[i].outcome
            BY <3>1, <3>2, Settled
        <3>4. CASE k = client.call
            <4>1. o \in {"ok", "refused"}
                BY <1>10, <3>3, <3>4
            <4>2. PICK u \in In(client.decoder.buffer) : u.frame.call = client.call
                BY <3>1, <4>1 DEF Backs
            <4>3. k # 0
                BY <2>0, <3>3
            <4> QED BY <1>5, <3>4, <4>2, <4>3 DEF Final
        <3>5. CASE k # client.call
            BY <1>10, <2>1, <3>3, <3>5
        <3> QED BY <3>4, <3>5
    <2>4. CASE Quiet
        BY <1>10, <2>1, <2>4 DEF Quiet
    <2> QED BY <2>2, <2>3, <2>4, ToldForms
<1> HIDE DEF m
<1> QED BY <1>7, <1>8, <1>9, <1>10, AnsweredNow DEF m

LEMMA AnsweredInit ==
    ASSUME Init
    PROVE  AnsweredInv
<1>1. Len(told) = 0 /\ client.decoder = Fresh
      /\ \A c \in 1 .. MaxConns : link[c].down = <<>> /\ session[c].at = "none"
    BY DEF Init, NoClient, NoLink, NoThread, Conns
<1>2. 1 .. 0 = {}
    OBVIOUS
<1> QED BY <1>1, <1>2, DecoderFacts, InEmpty DEF AnsweredInv, Finals


-----------------------------------------------------------------------------
(* The refinement. *)

\* What Rpc sees of the histories.
Told(q) == [k \in DOMAIN q |-> q[k].outcome]
DoneBy(A) == [i \in DOMAIN A |-> A[i].call]

\* A call is among the operations carried out.
Among(k, d) == \E i \in DOMAIN d : d[i] = k

Results == {"open", "ok", "refused", "failed"}

LEMMA ToldTyped ==
    ASSUME NEW q \in Seq(Outcomes)
    PROVE  /\ Told(q) \in Seq(Results) /\ Len(Told(q)) = Len(q) /\ Len(q) \in Nat
           /\ DOMAIN q = 1 .. Len(q) /\ DOMAIN Told(q) = 1 .. Len(q)
           /\ \A k \in 1 .. Len(q) : Told(q)[k] = q[k].outcome
<1>1. Len(q) \in Nat /\ DOMAIN q = 1 .. Len(q) /\ \A k \in 1 .. Len(q) : q[k] \in Outcomes
    OBVIOUS
<1>2. \A k \in 1 .. Len(q) : q[k].outcome \in Results
    BY <1>1 DEF Outcomes, Results
<1>3. Told(q) = [k \in 1 .. Len(q) |-> q[k].outcome]
    BY <1>1 DEF Told
<1> QED BY <1>1, <1>2, <1>3

LEMMA DoneIs ==
    ASSUME NEW A \in Seq(Entries)
    PROVE  \A k : Among(k, DoneBy(A)) <=> k \in Done(A)
<1>1. DOMAIN A = 1 .. Len(A)
    OBVIOUS
<1>2. DOMAIN DoneBy(A) = DOMAIN A /\ \A i \in DOMAIN A : DoneBy(A)[i] = A[i].call
    BY DEF DoneBy
<1> QED BY <1>1, <1>2 DEF Among, Done, In

LEMMA DoneMore ==
    ASSUME NEW A \in Seq(Entries), NEW e \in Entries
    PROVE  DoneBy(Append(A, e)) = Append(DoneBy(A), e.call)
<1> DEFINE B == Append(A, e)
           n == Len(A)
           x == DoneBy(A)
           y == DoneBy(B)
<1>1. /\ n \in Nat /\ DOMAIN A = 1 .. n /\ DOMAIN B = 1 .. n + 1
      /\ B[n + 1] = e /\ \A i \in 1 .. n : A[i] \in Entries /\ B[i] = A[i]
    OBVIOUS
<1>2. e.call \in Nat /\ \A i \in 1 .. n : A[i].call \in Nat
    BY <1>1 DEF Entries
<1> HIDE DEF B, n
<1>3. x = [i \in 1 .. n |-> A[i].call] /\ y = [i \in 1 .. n + 1 |-> B[i].call]
    BY <1>1 DEF DoneBy
<1>4. \A i \in 1 .. n + 1 : i \in 1 .. n \/ i = n + 1
    BY <1>1
<1>5. \A i \in 1 .. n + 1 : B[i].call \in Nat
    BY <1>1, <1>2, <1>4
<1>6. /\ x \in Seq(Nat) /\ Len(x) = n /\ y \in Seq(Nat) /\ Len(y) = n + 1
    <2>1. x \in [1 .. n -> Nat] /\ y \in [1 .. n + 1 -> Nat]
        BY <1>2, <1>3, <1>5
    <2>2. n \in Nat /\ n + 1 \in Nat
        BY <1>1
    <2> HIDE DEF x, y
    <2>3. x \in Seq(Nat) /\ Len(x) = n
        BY <2>1, <2>2
    <2>4. y \in Seq(Nat) /\ Len(y) = n + 1
        BY <2>1, <2>2
    <2> QED BY <2>3, <2>4
<1>7. /\ \A i \in 1 .. n : x[i] = A[i].call
      /\ \A i \in 1 .. n + 1 : y[i] = B[i].call
    BY <1>3
<1> HIDE DEF x, y
<1> DEFINE z == Append(x, e.call)
<1>8. /\ z \in Seq(Nat) /\ Len(z) = n + 1 /\ z[n + 1] = e.call
      /\ \A i \in 1 .. n : z[i] = x[i]
    BY <1>1, <1>2, <1>6
<1> HIDE DEF z
<1>9. \A i \in 1 .. n + 1 : y[i] = z[i]
    BY <1>1, <1>4, <1>7, <1>8
<1>10. y = z
    BY <1>6, <1>8, <1>9, SeqEqual
<1> QED BY <1>10 DEF x, y, z, B

\* The steps of Rpc, on what it sees.
RpcStep(c, d, e, f) ==
    \/ c = e /\ d = f
    \/ \E o \in {"open", "failed"} :
         (\A k \in DOMAIN c : c[k] # "open") /\ e = Append(c, o) /\ f = d
    \/ \E k \in DOMAIN c :
         ~Among(k, d) /\ c[k] \in {"open", "failed"} /\ f = Append(d, k) /\ e = c
    \/ f = Append(d, 0) /\ e = c
    \/ \E k \in DOMAIN c : \E o \in {"ok", "refused", "failed"} :
         /\ c[k] = "open" /\ (o = "ok" => Among(k, d))
         /\ e = [c EXCEPT ![k] = o] /\ f = d

LEMMA RpcForms ==
    ASSUME RpcStep(Told(told), DoneBy(applied), Told(told'), DoneBy(applied'))
    PROVE  [R!Next]_(R!vars)
<1>1. Told(told) = [k \in DOMAIN told |-> told[k].outcome]
      /\ Told(told') = [k \in DOMAIN told |-> told[k].outcome]'
    BY DEF Told
<1>2. DoneBy(applied) = [i \in DOMAIN applied |-> applied[i].call]
      /\ DoneBy(applied') = [i \in DOMAIN applied |-> applied[i].call]'
    BY DEF DoneBy
<1> DEFINE c == Told(told)
           d == DoneBy(applied)
           e == Told(told')
           f == DoneBy(applied')
<1>3. CASE c = e /\ d = f
    BY <1>1, <1>2, <1>3 DEF R!vars
<1>4. CASE \E o \in {"open", "failed"} :
             (\A k \in DOMAIN c : c[k] # "open") /\ e = Append(c, o) /\ f = d
    <2>1. \E o \in {"open", "failed"} : R!Make(o)
        BY <1>1, <1>2, <1>4 DEF R!Make
    <2> QED BY <2>1 DEF R!Next
<1>5. CASE \E k \in DOMAIN c :
             ~Among(k, d) /\ c[k] \in {"open", "failed"} /\ f = Append(d, k) /\ e = c
    <2>1. PICK k \in DOMAIN c :
             ~Among(k, d) /\ c[k] \in {"open", "failed"} /\ f = Append(d, k) /\ e = c
        BY <1>5
    <2>2. ~R!IsDone(k)
        BY <1>2, <2>1 DEF Among, R!IsDone
    <2>3. R!Do(k)
        BY <1>1, <1>2, <2>1, <2>2 DEF R!Do
    <2> QED BY <1>1, <2>3 DEF R!Next
<1>6. CASE f = Append(d, 0) /\ e = c
    <2>1. R!DoForOthers
        BY <1>1, <1>2, <1>6 DEF R!DoForOthers
    <2> QED BY <2>1 DEF R!Next
<1>7. CASE \E k \in DOMAIN c : \E o \in {"ok", "refused", "failed"} :
             /\ c[k] = "open" /\ (o = "ok" => Among(k, d))
             /\ e = [c EXCEPT ![k] = o] /\ f = d
    <2>1. PICK k \in DOMAIN c, o \in {"ok", "refused", "failed"} :
             /\ c[k] = "open" /\ (o = "ok" => Among(k, d))
             /\ e = [c EXCEPT ![k] = o] /\ f = d
        BY <1>7
    <2>2. o = "ok" => R!IsDone(k)
        BY <1>2, <2>1 DEF Among, R!IsDone
    <2>3. R!Tell(k, o)
        BY <1>1, <1>2, <2>1, <2>2 DEF R!Tell
    <2> QED BY <1>1, <2>3 DEF R!Next
<1> QED BY <1>3, <1>4, <1>5, <1>6, <1>7 DEF RpcStep

LEMMA OpensMake ==
    ASSUME TypeInv, OpenInv, Opens, applied' = applied
    PROVE  RpcStep(Told(told), DoneBy(applied), Told(told'), DoneBy(applied'))
<1> DEFINE C == Told(told)
           E == Told(told')
           n == Len(told)
<1>1. PICK o \in {"open", "failed"} :
        client.at = "idle" /\ told' = Append(told, [outcome |-> o, by |-> 0])
    BY DEF Opens
<1>2. told \in Seq(Outcomes) /\ told' \in Seq(Outcomes)
    <2> DEFINE e == [outcome |-> o, by |-> 0]
    <2>1. e \in Outcomes /\ told' = Append(told, e)
        BY <1>1 DEF Outcomes
    <2> HIDE DEF e
    <2> QED BY <2>1, ToldParts
<1>3. /\ Len(told') = n + 1 /\ \A k \in 1 .. n : told'[k] = told[k]
      /\ told'[n + 1].outcome = o
    BY <1>1, Opened
<1>4. /\ C \in Seq(Results) /\ Len(C) = n /\ n \in Nat /\ DOMAIN C = 1 .. n
      /\ \A k \in 1 .. n : C[k] = told[k].outcome
    BY <1>2, ToldTyped
<1>5. /\ E \in Seq(Results) /\ Len(E) = n + 1 /\ \A k \in 1 .. n + 1 : E[k] = told'[k].outcome
    BY <1>2, <1>3, ToldTyped
<1>6. \A k \in DOMAIN C : C[k] # "open"
    BY <1>1, <1>4 DEF OpenInv, Waits
<1>7. o \in Results
    BY DEF Results
<1> HIDE DEF C, E, n
<1>8. E = Append(C, o)
    <2> DEFINE a == Append(C, o)
    <2>1. /\ a \in Seq(Results) /\ Len(a) = n + 1 /\ a[n + 1] = o
          /\ \A k \in 1 .. n : a[k] = C[k]
        BY <1>4, <1>7
    <2> HIDE DEF a
    <2>2. \A k \in 1 .. n : k \in 1 .. n + 1
        BY <1>4
    <2>3. \A k \in 1 .. n + 1 : k \in 1 .. n \/ k = n + 1
        BY <1>4
    <2>4. n + 1 \in 1 .. n + 1
        BY <1>4
    <2>5. \A k \in 1 .. n + 1 : E[k] = a[k]
        BY <1>3, <1>4, <1>5, <2>1, <2>2, <2>3, <2>4
    <2>6. E = a
        BY <1>5, <2>1, <2>5, SeqEqual
    <2> QED BY <2>6 DEF a
<1> QED BY <1>6, <1>8 DEF RpcStep, C, E

LEMMA SettlesTell ==
    ASSUME TypeInv, OpenInv, AnsweredInv, Settles, told' \in Seq(Outcomes), applied' = applied
    PROVE  RpcStep(Told(told), DoneBy(applied), Told(told'), DoneBy(applied'))
<1> DEFINE C == Told(told)
           E == Told(told')
           n == Len(told)
           k == client.call
<1>1. PICK o \in {"ok", "refused", "failed"}, by \in Nat :
        Waits(client) /\ Tells(o, by) /\ (o \in {"ok", "refused"} => Backs(o))
    BY DEF Settles
<1>2. k \in 1 .. n /\ told[k].outcome = "open"
    BY <1>1 DEF OpenInv
<1>3. /\ Len(told') = n
      /\ \A i \in 1 .. n : told'[i].outcome = IF i = k THEN o ELSE told[i].outcome
    BY <1>1, <1>2, Settled
<1>4. /\ C \in Seq(Results) /\ Len(C) = n /\ n \in Nat /\ DOMAIN C = 1 .. n
      /\ \A i \in 1 .. n : C[i] = told[i].outcome
    BY ToldParts, ToldTyped
<1>5. /\ E \in Seq(Results) /\ Len(E) = n /\ \A i \in 1 .. n : E[i] = told'[i].outcome
    BY <1>3, ToldTyped
<1>6. ASSUME o = "ok"
      PROVE  Among(k, DoneBy(applied))
    <2>1. PICK u \in In(client.decoder.buffer) : u.frame.call = k /\ u.frame.type \in {"ok", "bye"}
        BY <1>1, <1>6 DEF Backs
    <2>2. k # 0
        BY <1>1 DEF Waits
    <2>3. k \in Done(applied)
        BY <2>1, <2>2 DEF AnsweredInv, Finals, Final
    <2>4. applied \in Seq(Entries)
        BY TypeParts
    <2> QED BY <2>2, <2>3, <2>4, DoneIs
<1>7. o \in Results
    BY DEF Results
<1> HIDE DEF C, E, n, k
<1>8. E = [C EXCEPT ![k] = o]
    <2> DEFINE a == [C EXCEPT ![k] = o]
    <2>1. /\ a \in Seq(Results) /\ Len(a) = n
          /\ \A i \in 1 .. n : a[i] = IF i = k THEN o ELSE C[i]
        BY <1>2, <1>4, <1>7, ExceptSeq
    <2> HIDE DEF a
    <2>2. \A i \in 1 .. n : E[i] = a[i]
        BY <1>3, <1>4, <1>5, <2>1
    <2>3. E = a
        BY <1>4, <1>5, <2>1, <2>2, SeqEqual
    <2> QED BY <2>3 DEF a
<1>9. k \in DOMAIN C /\ C[k] = "open"
    BY <1>2, <1>4
<1>10. /\ C[k] = "open" /\ (o = "ok" => Among(k, DoneBy(applied)))
       /\ E = [C EXCEPT ![k] = o] /\ DoneBy(applied') = DoneBy(applied)
    BY <1>6, <1>8, <1>9
<1>11. RpcStep(C, DoneBy(applied), E, DoneBy(applied'))
    BY <1>9, <1>10 DEF RpcStep
<1> QED BY <1>11 DEF C, E

\* What is handed to the fabric was called, was not handed over before, and its
\* caller knows nothing of it yet.
LEMMA AppliedDoes ==
    ASSUME TypeInv, KeyInv, RawInv, AnsweredInv, RequestNamedOnce',
           NEW c \in Conns, NEW lk, NEW s, SideStep(c, lk, s), applied' # applied
    PROVE  RpcStep(Told(told), DoneBy(applied), Told(told'), DoneBy(applied'))
<1> DEFINE t == session[c]
           f == FirstFrame(t.decoder)
           e == Entry(c, f)
           w == [frame |-> f, part |-> f.size]
<1>1. /\ f \in Frame /\ w \in In(t.decoder.buffer)
      /\ applied' = Append(applied, e) /\ e \in Entries /\ applied \in Seq(Entries)
    BY AppliedGrows
<1>2. told' = told
    BY DEF SideStep
<1>3. e.conn = c /\ e.call = f.call
    BY DEF Entry
<1> HIDE DEF f
<1>4. w.frame = f /\ f.call \in Nat
    BY <1>1 DEF Frame
<1> HIDE DEF e, w
<1>5. applied' \in Seq(Entries) /\ In(applied') = In(applied) \cup {e}
    BY <1>1, InAppend
<1>6. \A k : Among(k, DoneBy(applied)) <=> k \in Done(applied)
    BY <1>1, DoneIs
<1>7. DoneBy(applied') = Append(DoneBy(applied), f.call)
    BY <1>1, <1>3, DoneMore
<1>8. CASE f.call = 0
    BY <1>2, <1>7, <1>8 DEF RpcStep
<1>9. CASE f.call # 0
    <2>1. w \in Units(t.decoder, link[c])
        BY <1>1 DEF Units
    <2>2. c \in 1 .. MaxConns
        BY <1>4, <1>9, <2>1, TypeParts DEF RawInv, Foreign
    <2>3. f \in Asks(c)
        BY <1>4, <2>1 DEF Asks, Asked
    <2>4. f.call \in 1 .. Len(told)
        <3>1. f.call <= Len(told)
            BY <2>2, <2>3 DEF KeyInv, Counted
        <3> QED BY <1>4, <1>9, <3>1, ToldParts
    <2>5. f.call \in Pending
        BY <1>4, <2>1, <2>2 DEF Pending, Pends
    <2>6. told[f.call].outcome \in {"open", "failed"}
        BY <2>4, <2>5, ToldParts DEF AnsweredInv
    <2>7. ASSUME NEW a \in In(applied), a.call = f.call
          PROVE  FALSE
        <3>1. a.conn \in Conns
            <4>1. a \in Entries
                BY <1>1 DEF In
            <4> QED BY <4>1 DEF Entries
        <3>2. CASE a.conn \in RawConns
            BY <1>9, <2>7, <3>2 DEF RawInv
        <3>3. CASE a.conn = c
            <4>1. PICK i \in 1 .. Len(applied) : a = applied[i]
                BY DEF In
            <4> DEFINE j == Len(applied) + 1
            <4>2. /\ i \in DOMAIN applied' /\ j \in DOMAIN applied' /\ i < j
                  /\ applied'[i] = a /\ applied'[j] = e
                BY <1>1, <4>1
            <4> HIDE DEF j
            <4>3. c \notin RawConns
                BY <2>2, TypeParts
            <4>4. a.call < e.call
                BY <1>3, <3>3, <4>2, <4>3 DEF RequestNamedOnce
            <4> QED BY <1>3, <1>4, <2>7, <4>4
        <3>4. CASE a.conn \in 1 .. MaxConns /\ a.conn # c
            <4>1. a \in Asks(a.conn)
                BY DEF Asks, Asked
            <4>2. Apart(Asks(a.conn), Asks(c))
                BY <2>2, <3>4 DEF KeyInv
            <4> QED BY <1>9, <2>3, <2>7, <4>1, <4>2 DEF Apart
        <3> QED BY <3>1, <3>2, <3>3, <3>4, TypeParts
    <2>8. ~Among(f.call, DoneBy(applied))
        BY <1>6, <2>7 DEF Done
    <2>9. DoneBy(applied') = Append(DoneBy(applied), f.call)
        BY <1>7
    <2> DEFINE C == Told(told)
    <2>10. f.call \in DOMAIN C /\ C[f.call] \in {"open", "failed"}
        BY <2>4, <2>6, ToldParts, ToldTyped
    <2>11. Told(told') = C
        BY <1>2
    <2> HIDE DEF C
    <2>12. RpcStep(C, DoneBy(applied), Told(told'), DoneBy(applied'))
        BY <2>8, <2>9, <2>10, <2>11 DEF RpcStep
    <2> QED BY <2>12 DEF C
<1> QED BY <1>8, <1>9

RpcInv ==
    /\ RequestInv /\ RequestNamedOnce /\ TagInv
    /\ StreamInv /\ RawInv /\ OpenInv /\ AnsweredInv

LEMMA RpcInvariant == Spec => []RpcInv
<1>1. Init => RpcInv
    <2>1. Init => RequestNamedOnce
        BY DEF Init, RequestNamedOnce
    <2> QED BY <2>1, TypeInit, NameInit, KeyInit, TagInit, StreamInit, RawInit, OpenInit,
               AnsweredInit DEF RequestInv, RpcInv
<1>2. RpcInv /\ [Next]_vars => RpcInv'
    <2> SUFFICES ASSUME RpcInv, [Next]_vars
                 PROVE  RpcInv'
        OBVIOUS
    <2>1. /\ TypeInv /\ NameInv /\ KeyInv /\ RequestNamedOnce /\ TagInv
          /\ StreamInv /\ RawInv /\ OpenInv /\ AnsweredInv
        BY DEF RpcInv, RequestInv
    <2>2. Steps
        BY <2>1, StepForms
    <2>3. TypeInv' /\ NameInv' /\ KeyInv' /\ RequestNamedOnce' /\ TagInv'
        BY <2>1, <2>2, TypeStep, NameStep, KeyStep, NamedStep, TagStep
    <2>4. StreamInv' /\ RawInv' /\ OpenInv' /\ AnsweredInv'
        BY <2>1, <2>2, StreamStep, RawKept, OpenStep, AnsweredStep
    <2> QED BY <2>3, <2>4 DEF RpcInv, RequestInv
<1> QED BY <1>1, <1>2, PTL DEF Spec

\* The calls of the library are at-most-once operations, for any number of
\* connections, calls, frame sizes, failures, crashes and foreign peers: what
\* dispatch (src/src/server.cpp) hands to the fabric was called and is handed
\* over no second time, a caller that round_trip (src/src/client.cpp) tells "ok"
\* was served, and a call that was answered is never carried out later.  The
\* operations carried out are a sequence, so a repeated one would be a step of
\* its own, which Rpc does not have.
THEOREM CallsAtMostOnce == Spec => RpcSpec
<1>1. Init => R!Init
    BY DEF Init, R!Init
<1>2. RpcInv /\ RpcInv' /\ [Next]_vars => [R!Next]_(R!vars)
    <2> SUFFICES ASSUME RpcInv, RpcInv', [Next]_vars
                 PROVE  [R!Next]_(R!vars)
        OBVIOUS
    <2>1. TypeInv /\ KeyInv /\ TagInv /\ RawInv /\ OpenInv /\ AnsweredInv
        BY DEF RpcInv, RequestInv
    <2>2. Steps
        BY <2>1, StepForms
    <2>3. RequestNamedOnce' /\ told' \in Seq(Outcomes)
        BY DEF RpcInv, RequestInv, TypeInv, TypeOK, Outcomes
    <2>4. CASE (Opens \/ Settles) /\ applied' = applied
        BY <2>1, <2>3, <2>4, OpensMake, SettlesTell, RpcForms
    <2>5. CASE Quiet /\ applied' = applied
        <3>1. Told(told') = Told(told) /\ DoneBy(applied') = DoneBy(applied)
            BY <2>5 DEF Quiet
        <3>2. RpcStep(Told(told), DoneBy(applied), Told(told'), DoneBy(applied'))
            BY <3>1 DEF RpcStep
        <3> QED BY <3>2, RpcForms
    <2>6. CASE Quiet /\ applied' # applied
        <3>1. PICK c \in Conns : \E lk, s : SideStep(c, lk, s)
            BY <2>2, <2>6 DEF Steps, ClientStep, RawStep, DownStep, RestartStep, vars
        <3>2. RpcStep(Told(told), DoneBy(applied), Told(told'), DoneBy(applied'))
            BY <2>1, <2>3, <2>6, <3>1, AppliedDoes
        <3> QED BY <3>2, RpcForms
    <2> QED BY <2>1, <2>2, <2>4, <2>5, <2>6, ToldForms
<1> QED BY <1>1, <1>2, RpcInvariant, PTL DEF Spec, RpcSpec, R!Spec
==============================================================================
