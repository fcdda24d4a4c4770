------------------------------ MODULE StoreProofs ------------------------------
(***************************************************************************)
(* Theorems about the store, for any number of processes, any records and  *)
(* bounds, a crash at any point and a compaction that may fail.  Whatever  *)
(* else fails, one runtime writes at a time and snapshots only advance.    *)
(* When appends succeed the store is a durable log, can always be opened,  *)
(* has counters that match its files, and shows an inspector a past state. *)
(***************************************************************************)
EXTENDS Store, SequenceTheorems, NaturalsInduction, WellFoundedInduction, TLAPS

LEMMA UnitsType ==
    ASSUME NEW p \in Payload
    PROVE  Units(p) \in Nat /\ Header \in Nat /\ 0 < Header /\ Header < Units(p)
BY StoreAssumption DEF Units

-----------------------------------------------------------------------------
(* Recursion over a sequence.  An induction is an argument about the least *)
(* position at which its statement would fail.                             *)

\* A nonempty set of naturals has a least member.
LEMMA LeastMember ==
    ASSUME NEW B \in SUBSET Nat, B # {}
    PROVE  \E n \in B : \A m \in B : n <= m
<1> DEFINE R == {ss \in Nat \X Nat : ss[1] < ss[2]}
<1>1. IsWellFoundedOn(R, Nat)
    BY NatLessThanWellFounded DEF OpToRel
<1>2. PICK n \in B : \A m \in B : ~(<<m, n>> \in R)
    <2> HIDE DEF R
    <2> QED BY <1>1, WFMin
<1>3. ASSUME NEW m \in B
      PROVE  n <= m
    <2>1. m \in Nat /\ n \in Nat
        BY <1>2
    <2>2. ~(m < n)
        BY <1>2, <2>1
    <2> QED BY <2>1, <2>2
<1> QED BY <1>3

\* f counts the units of the first pieces of q, up to the m-th.
Counts(q, f, m) ==
    /\ f \in [0 .. m -> Nat]
    /\ f[0] = 0
    /\ \A n \in 1 .. m : f[n] = f[n - 1] + q[n].written

LEMMA CountsExist ==
    ASSUME NEW q \in Seq(Piece)
    PROVE  \E f : Counts(q, f, Len(q))
<1> DEFINE Bad == {m \in 0 .. Len(q) : ~ \E f : Counts(q, f, m)}
<1>1. SUFFICES ASSUME Bad # {}
               PROVE  FALSE
    <2>1. Len(q) \in 0 .. Len(q)
        OBVIOUS
    <2> QED BY <2>1
<1>2. PICK m \in Bad : \A i \in Bad : m <= i
    <2>1. Bad \in SUBSET Nat
        OBVIOUS
    <2> HIDE DEF Bad
    <2> QED BY <1>1, <2>1, LeastMember
<1>3. m # 0
    <2> DEFINE f == [i \in 0 .. 0 |-> 0]
    <2>1. Counts(q, f, 0)
        BY DEF Counts
    <2> QED BY <1>2, <2>1
<1>4. m \in 1 .. Len(q) /\ m - 1 \in 0 .. Len(q) /\ ~(m <= m - 1) /\ m \in Nat
    BY <1>2, <1>3
<1>5. PICK f : Counts(q, f, m - 1)
    BY <1>2, <1>4
<1> DEFINE g == [n \in 0 .. m |-> IF n = m THEN f[m - 1] + q[m].written ELSE f[n]]
<1>6. q[m].written \in Nat
    <2>1. q[m] \in Piece
        BY <1>4
    <2> QED BY <2>1 DEF Piece
<1>7. Counts(q, g, m)
    <2>1. g \in [0 .. m -> Nat]
        BY <1>4, <1>5, <1>6 DEF Counts
    <2>2. g[0] = 0
        BY <1>4, <1>5 DEF Counts
    <2>3. ASSUME NEW n \in 1 .. m
          PROVE  g[n] = g[n - 1] + q[n].written
        BY <1>4, <1>5 DEF Counts
    <2> QED BY <2>1, <2>2, <2>3 DEF Counts
<1> QED BY <1>2, <1>7

LEMMA BytesCounted ==
    ASSUME NEW q \in Seq(Piece), NEW f, Counts(q, f, Len(q))
    PROVE  Bytes(q) = f[Len(q)]
<1> DEFINE F(h) == [n \in 0 .. Len(q) |-> IF n = 0 THEN 0 ELSE h[n - 1] + q[n].written]
           h == CHOOSE h : h = F(h)
<1>0. Len(q) \in Nat
    OBVIOUS
<1>1. f = F(f)
    BY <1>0 DEF Counts
<1>2. h = F(h)
    <2> HIDE DEF F
    <2> QED BY <1>1
<1>3. \A n \in 0 .. Len(q) : h[n] = IF n = 0 THEN 0 ELSE h[n - 1] + q[n].written
    <2> HIDE DEF h
    <2> QED BY <1>2
<1>4. ASSUME NEW n \in 0 .. Len(q), h[n] # f[n]
      PROVE  FALSE
    <2> DEFINE Bad == {i \in 0 .. Len(q) : h[i] # f[i]}
    <2> HIDE DEF h
    <2>1. Bad \in SUBSET Nat /\ Bad # {}
        BY <1>4
    <2>2. PICK i \in Bad : \A j \in Bad : i <= j
        <3> HIDE DEF Bad
        <3> QED BY <2>1, LeastMember
    <2>3. i # 0
        BY <1>3, <2>2 DEF Counts
    <2>4. i \in 1 .. Len(q) /\ i - 1 \in 0 .. Len(q) /\ ~(i <= i - 1)
        BY <1>0, <2>2, <2>3
    <2>5. h[i - 1] = f[i - 1]
        BY <2>2, <2>4
    <2>6. h[i] = f[i]
        BY <1>3, <2>4, <2>5 DEF Counts
    <2> QED BY <2>2, <2>6
<1>5. h[Len(q)] = f[Len(q)]
    <2> HIDE DEF h
    <2> QED BY <1>0, <1>4
<1> QED BY <1>5 DEF Bytes

LEMMA BytesFacts ==
    /\ Bytes(<<>>) = 0
    /\ \A q \in Seq(Piece) : Bytes(q) \in Nat
    /\ \A q \in Seq(Piece), piece \in Piece :
          Bytes(Append(q, piece)) = Bytes(q) + piece.written
<1>1. ASSUME NEW q \in Seq(Piece)
      PROVE  Bytes(q) \in Nat /\ (Len(q) = 0 => Bytes(q) = 0)
    <2>1. PICK f : Counts(q, f, Len(q))
        BY CountsExist
    <2>2. Bytes(q) = f[Len(q)]
        BY <2>1, BytesCounted
    <2> QED BY <2>1, <2>2 DEF Counts
<1>2. ASSUME NEW q \in Seq(Piece), NEW piece \in Piece
      PROVE  Bytes(Append(q, piece)) = Bytes(q) + piece.written
    <2> DEFINE r == Append(q, piece)
               n == Len(q)
    <2>1. /\ r \in Seq(Piece) /\ n \in Nat /\ Len(r) = n + 1 /\ r[n + 1] = piece
          /\ \A i \in 1 .. n : r[i] = q[i]
        OBVIOUS
    <2> HIDE DEF r
    <2>2. PICK f : Counts(r, f, Len(r))
        BY <2>1, CountsExist
    <2> DEFINE g == [i \in 0 .. n |-> f[i]]
    <2>3. Counts(q, g, n)
        <3>1. g \in [0 .. n -> Nat] /\ g[0] = 0
            BY <2>1, <2>2 DEF Counts
        <3>2. ASSUME NEW i \in 1 .. n
              PROVE  g[i] = g[i - 1] + q[i].written
            <4>1. i \in 1 .. Len(r) /\ i - 1 \in 0 .. n /\ i \in 0 .. n
                BY <2>1
            <4>2. f[i] = f[i - 1] + r[i].written
                BY <2>2, <4>1 DEF Counts
            <4> QED BY <2>1, <4>1, <4>2
        <3> QED BY <3>1, <3>2 DEF Counts
    <2>4. Bytes(q) = f[n]
        <3>1. Bytes(q) = g[n]
            <4> HIDE DEF g
            <4> QED BY <2>3, BytesCounted
        <3> QED BY <2>1, <3>1
    <2>5. Bytes(r) = f[n + 1]
        BY <2>1, <2>2, BytesCounted
    <2>6. f[n + 1] = f[n] + piece.written
        <3>1. n + 1 \in 1 .. Len(r) /\ (n + 1) - 1 = n
            BY <2>1
        <3> QED BY <2>1, <2>2, <3>1 DEF Counts
    <2> QED BY <2>4, <2>5, <2>6 DEF r
<1>3. Bytes(<<>>) = 0
    <2>1. <<>> \in Seq(Piece) /\ Len(<<>>) = 0
        OBVIOUS
    <2> QED BY <1>1, <2>1
<1> QED BY <1>1, <1>2, <1>3

-----------------------------------------------------------------------------
(* Replay in closed form. *)

\* The pieces q hold the records of the history H after the first o: w of them
\* are whole and bring the history to its end, and at most one more, the next
\* record, is broken.
Shape(q, H, o, w) ==
    /\ w <= Len(q) /\ Len(q) <= w + 1
    /\ o + w = Len(H)
    /\ \A k \in 1 .. Len(q) :
          /\ q[k].sequence = o + k
          /\ q[k].written \in 1 .. Units(q[k].payload)
          /\ Whole(q[k]) <=> k <= w
    /\ \A k \in 1 .. w : q[k].payload = H[o + k]

\* What replay cuts off is the one broken piece, and it is a torn tail.
LEMMA IntactShape ==
    ASSUME NEW q \in Seq(Piece), NEW H \in Seq(Payload), NEW o \in Nat, NEW w \in Nat,
           Shape(q, H, o, w)
    PROVE  /\ Intact(q) = SubSeq(q, 1, w)
           /\ FirstBroken(q) # 0 => Torn(q, FirstBroken(q))
<1> DEFINE I == {i \in 1 .. Len(q) : ~Whole(q[i])}
           k == FirstBroken(q)
<1>0. Len(q) \in Nat
    OBVIOUS
<1>1. k = IF I # {} THEN Min(I) ELSE 0
    BY DEF FirstBroken, SelectInSeq
<1>2. CASE w = Len(q)
    <2>1. I = {}
        BY <1>0, <1>2 DEF Shape
    <2>2. k = 0
        BY <1>1, <2>1
    <2>3. SubSeq(q, 1, w) = q
        BY <1>2, SubSeqFull
    <2> QED BY <2>2, <2>3 DEF Intact
<1>3. CASE w # Len(q)
    <2>0. Len(q) = w + 1
        BY <1>0, <1>3 DEF Shape
    <2>1. I = {w + 1}
        BY <1>0, <2>0 DEF Shape
    <2>2. Min(I) = w + 1
        <3> HIDE DEF I
        <3> QED BY <2>1 DEF Min
    <2>3. k = w + 1 /\ k # 0
        BY <1>1, <2>1, <2>2
    <2>4. Intact(q) = SubSeq(q, 1, w)
        BY <2>3 DEF Intact
    <2> DEFINE last == q[w + 1]
    <2>5. last \in Piece /\ last.written \in 1 .. Units(last.payload) /\ ~Whole(last)
        <3>1. w + 1 \in 1 .. Len(q) /\ ~(w + 1 <= w)
            BY <1>0, <2>0
        <3> QED BY <3>1 DEF Shape
    <2>6. last.payload \in Payload
        BY <2>5 DEF Piece
    <2>7. SubSeq(q, k, Len(q)) = Append(<<>>, last)
        <3>1. w + 1 \in 1 .. Len(q)
            BY <1>0, <2>0
        <3>2. SubSeq(q, w + 1, w + 1) = SubSeq(q, w + 1, w + 1 - 1) \o <<last>>
            BY <3>1, SubSeqRecursiveSecond
        <3>3. SubSeq(q, w + 1, w + 1 - 1) = <<>>
            BY SubSeqEmpty
        <3>4. Append(<<>>, last) = <<>> \o <<last>>
            <4>1. <<>> \in Seq(Piece)
                OBVIOUS
            <4> QED BY <2>5, <4>1, AppendIsConcat
        <3> QED BY <2>0, <2>3, <3>2, <3>3, <3>4
    <2>8. Bytes(SubSeq(q, k, Len(q))) = last.written
        <3>1. <<>> \in Seq(Piece)
            OBVIOUS
        <3> HIDE DEF last
        <3>2. Bytes(Append(<<>>, last)) = Bytes(<<>>) + last.written
            BY <2>5, <3>1, BytesFacts
        <3>3. last.written \in Nat
            BY <2>5 DEF Piece
        <3> QED BY <2>7, <3>2, <3>3, BytesFacts
    <2>9. last.written < Units(last.payload)
        BY <2>5, <2>6, UnitsType DEF Whole
    <2>10. Torn(q, k)
        <3>1. q[k] = last
            BY <2>3
        <3> HIDE DEF last, k
        <3> QED BY <2>8, <2>9, <3>1 DEF Torn
    <2> QED BY <2>4, <2>10
<1> QED BY <1>2, <1>3

\* A replay that holds the first e records of H, and one that met a gap.
Reached(H, e) == [ok |-> TRUE, log |-> SubSeq(H, 1, e), last_sequence |-> e]
Stuck(H, e) == [ok |-> FALSE, log |-> SubSeq(H, 1, e), last_sequence |-> e]

\* Replay after n pieces, from a state that holds the first l records of H: as
\* far as the pieces reach, or stuck at a gap.
After(H, o, l, n) ==
    IF n # 0 /\ l < o THEN Stuck(H, l)
    ELSE Reached(H, IF o <= l /\ l < o + n THEN o + n ELSE l)

LEMMA ApplyOne ==
    ASSUME NEW piece, NEW H, NEW e \in Nat, piece.sequence \in Nat
    PROVE  /\ piece.sequence <= e => ApplyPiece(piece, Reached(H, e)) = Reached(H, e)
           /\ piece.sequence > e + 1 => ApplyPiece(piece, Reached(H, e)) = Stuck(H, e)
           /\ ApplyPiece(piece, Stuck(H, e)) = Stuck(H, e)
           /\ piece.sequence = e + 1 =>
                 ApplyPiece(piece, Reached(H, e)) =
                     [ok |-> TRUE, log |-> Append(SubSeq(H, 1, e), piece.payload),
                      last_sequence |-> e + 1]
<1>1. Reached(H, e).ok = TRUE /\ Reached(H, e).last_sequence = e
      /\ Stuck(H, e).ok = FALSE
    BY DEF Reached, Stuck
<1>2. piece.sequence <= e => ApplyPiece(piece, Reached(H, e)) = Reached(H, e)
    BY <1>1 DEF ApplyPiece
<1>3. ApplyPiece(piece, Stuck(H, e)) = Stuck(H, e)
    BY <1>1 DEF ApplyPiece
<1>4. ASSUME piece.sequence > e + 1
      PROVE  ApplyPiece(piece, Reached(H, e)) = Stuck(H, e)
    <2>1. ApplyPiece(piece, Reached(H, e)) = [Reached(H, e) EXCEPT !.ok = FALSE]
        BY <1>1, <1>4 DEF ApplyPiece
    <2> QED BY <2>1 DEF Reached, Stuck
<1>5. ASSUME piece.sequence = e + 1
      PROVE  ApplyPiece(piece, Reached(H, e)) =
                     [ok |-> TRUE, log |-> Append(SubSeq(H, 1, e), piece.payload),
                      last_sequence |-> e + 1]
    <2>1. ApplyPiece(piece, Reached(H, e)) =
              [Reached(H, e) EXCEPT !.log = Append(@, piece.payload),
                                    !.last_sequence = piece.sequence]
        BY <1>1, <1>5 DEF ApplyPiece
    <2> QED BY <1>5, <2>1 DEF Reached
<1> QED BY <1>2, <1>3, <1>4, <1>5

LEMMA AfterNext ==
    ASSUME NEW q, NEW H \in Seq(Payload), NEW o \in Nat, NEW w \in Nat, Shape(q, H, o, w),
           NEW l \in 0 .. Len(H), NEW n \in 1 .. w, Len(q) \in Nat
    PROVE  ApplyPiece(q[n], After(H, o, l, n - 1)) = After(H, o, l, n)
<1>0. n \in Nat /\ n - 1 \in Nat /\ l \in Nat /\ Len(H) \in Nat /\ n # 0
    OBVIOUS
<1>1. q[n].sequence = o + n /\ q[n].payload = H[o + n] /\ o + n \in 1 .. Len(H)
    BY DEF Shape
<1>2. CASE o <= l /\ o + n <= l
    <2>1. After(H, o, l, n - 1) = Reached(H, l) /\ After(H, o, l, n) = Reached(H, l)
        BY <1>0, <1>2 DEF After
    <2> QED BY <1>0, <1>1, <1>2, <2>1, ApplyOne
<1>3. CASE o <= l /\ ~(o + n <= l)
    <2> DEFINE e == o + n - 1
    <2>0. e \in Nat /\ e + 1 = o + n
        BY <1>0
    <2>1. After(H, o, l, n - 1) = Reached(H, e)
        BY <1>0, <1>3 DEF After
    <2>2. After(H, o, l, n) = Reached(H, e + 1)
        BY <1>0, <1>3 DEF After
    <2>3. SubSeq(H, 1, e + 1) = Append(SubSeq(H, 1, e), H[e + 1])
        <3>1. SubSeq(H, 1, o + n) = SubSeq(H, 1, o + n - 1) \o <<H[o + n]>>
            <4> DEFINE u == o + n
            <4>1. 1 \in 1 .. Len(H) /\ u \in 1 .. Len(H)
                BY <1>0, <1>1
            <4> HIDE DEF u
            <4>2. SubSeq(H, 1, u) = SubSeq(H, 1, u - 1) \o <<H[u]>>
                BY <4>1, SubSeqRecursiveSecond
            <4> QED BY <4>2 DEF u
        <3>2. SubSeq(H, 1, o + n - 1) \in Seq(Payload) /\ H[o + n] \in Payload
            BY <1>1
        <3> QED BY <2>0, <3>1, <3>2, AppendIsConcat
    <2> HIDE DEF e
    <2>4. ApplyPiece(q[n], Reached(H, e)) =
              [ok |-> TRUE, log |-> Append(SubSeq(H, 1, e), q[n].payload),
               last_sequence |-> e + 1]
        <3> DEFINE piece == q[n]
        <3>1. piece.sequence = e + 1 /\ piece.sequence \in Nat
            BY <1>1, <2>0
        <3> HIDE DEF piece
        <3>2. ApplyPiece(piece, Reached(H, e)) =
                  [ok |-> TRUE, log |-> Append(SubSeq(H, 1, e), piece.payload),
                   last_sequence |-> e + 1]
            BY <2>0, <3>1, ApplyOne
        <3> QED BY <3>2 DEF piece
    <2> QED BY <1>1, <2>0, <2>1, <2>2, <2>3, <2>4 DEF Reached
<1>4. CASE ~(o <= l) /\ n = 1
    <2>1. After(H, o, l, n - 1) = Reached(H, l) /\ After(H, o, l, n) = Stuck(H, l)
        BY <1>0, <1>4 DEF After
    <2> QED BY <1>0, <1>1, <1>4, <2>1, ApplyOne
<1>5. CASE ~(o <= l) /\ n # 1
    <2>1. After(H, o, l, n - 1) = Stuck(H, l) /\ After(H, o, l, n) = Stuck(H, l)
        BY <1>0, <1>5 DEF After
    <2> QED BY <1>0, <1>1, <2>1, ApplyOne
<1> QED BY <1>2, <1>3, <1>4, <1>5

\* replay_journal: a base that holds at least what precedes the journal is
\* brought to the end of the history; any other base is left as it was, and is
\* refused unless the journal holds no whole record.
LEMMA ReplayShape ==
    ASSUME NEW q \in Seq(Piece), NEW H \in Seq(Payload), NEW o \in Nat, NEW w \in Nat,
           Shape(q, H, o, w), NEW l \in 0 .. Len(H),
           NEW base, base.log = SubSeq(H, 1, l), base.last_sequence = l
    PROVE  Replay(base, q) = After(H, o, l, w)
<1> DEFINE s == SubSeq(q, 1, w)
           start == [ok |-> TRUE, log |-> base.log, last_sequence |-> base.last_sequence]
           F(h) == [n \in 0 .. Len(s) |-> IF n = 0 THEN start ELSE ApplyPiece(s[n], h[n - 1])]
           g == [n \in 0 .. w |-> After(H, o, l, n)]
           h == CHOOSE h : h = F(h)
<1>0. /\ Len(q) \in Nat /\ w <= Len(q) /\ s \in Seq(Piece) /\ Len(s) = w
      /\ \A n \in 1 .. w : s[n] = q[n]
    BY SubSeqProperties DEF Shape
<1>a. start = After(H, o, l, 0)
    <2>1. ~(o <= l /\ l < o + 0)
        OBVIOUS
    <2>2. After(H, o, l, 0) = Reached(H, l)
        BY <2>1 DEF After
    <2> QED BY <2>2 DEF Reached
<1> HIDE DEF s, start
<1>n. \A n \in 1 .. w : ApplyPiece(s[n], After(H, o, l, n - 1)) = After(H, o, l, n)
    BY <1>0, AfterNext
<1>1. g = F(g)
    <2>1. ASSUME NEW n \in 0 .. w
          PROVE  g[n] = IF n = 0 THEN start ELSE ApplyPiece(s[n], g[n - 1])
        <3>1. CASE n = 0
            BY <1>a, <3>1
        <3>2. CASE n # 0
            <4>1. n \in 1 .. w /\ n - 1 \in 0 .. w
                BY <3>2
            <4> QED BY <1>n, <3>2, <4>1
        <3> QED BY <3>1, <3>2
    <2> QED BY <1>0, <2>1
<1>2. h = F(h)
    <2> HIDE DEF F, g
    <2> QED BY <1>1
<1>3. \A n \in 0 .. w : h[n] = IF n = 0 THEN start ELSE ApplyPiece(s[n], h[n - 1])
    <2> HIDE DEF h
    <2> QED BY <1>0, <1>2
<1>4. ASSUME NEW n \in 0 .. w, h[n] # After(H, o, l, n)
      PROVE  FALSE
    <2> DEFINE Bad == {i \in 0 .. w : h[i] # After(H, o, l, i)}
    <2> HIDE DEF h
    <2>1. Bad \in SUBSET Nat /\ Bad # {}
        BY <1>4
    <2>2. PICK i \in Bad : \A j \in Bad : i <= j
        <3> HIDE DEF Bad
        <3> QED BY <2>1, LeastMember
    <2>3. i # 0
        BY <1>3, <1>a, <2>2
    <2>4. i \in 1 .. w /\ i - 1 \in 0 .. w /\ ~(i <= i - 1)
        BY <2>2, <2>3
    <2>5. h[i - 1] = After(H, o, l, i - 1)
        BY <2>2, <2>4
    <2>6. h[i] = ApplyPiece(s[i], h[i - 1])
        BY <1>3, <2>2, <2>3
    <2> QED BY <1>n, <2>2, <2>4, <2>5, <2>6
<1>5. h[Len(s)] = After(H, o, l, w)
    <2> HIDE DEF h
    <2>1. w \in 0 .. w
        OBVIOUS
    <2> QED BY <1>0, <1>4, <2>1
<1>6. Intact(q) = s /\ (FirstBroken(q) # 0 => Torn(q, FirstBroken(q)))
    BY IntactShape DEF s
<1>7. Replay(base, q) = [h[Len(s)] EXCEPT !.ok = @ /\ (FirstBroken(q) # 0 => Torn(q, FirstBroken(q)))]
    BY <1>6 DEF Replay, start
<1>8. Replay(base, q) = [After(H, o, l, w) EXCEPT !.ok = @]
    <2>1. \A b : b \in BOOLEAN => (b /\ TRUE) = b
        OBVIOUS
    <2>2. After(H, o, l, w).ok \in BOOLEAN
        BY DEF After, Reached, Stuck
    <2> HIDE DEF h
    <2> QED BY <1>5, <1>6, <1>7, <2>1, <2>2
<1> QED BY <1>8 DEF After, Reached, Stuck

-----------------------------------------------------------------------------
(* The lock. *)

\* A process record has a stage, whatever else it holds.
Framed(p) == "stage" \in DOMAIN p

\* LockExcludes is inductive once only a runtime can own the lock.
LockInv ==
    /\ lock \in Runtimes \cup {Nobody}
    /\ DOMAIN proc = Processes
    /\ \A x \in Processes : Framed(proc[x])
    /\ LockExcludes

\* Only x takes the step, and it is p afterwards.
Steps(x, p) ==
    /\ Framed(p)
    /\ proc' = [proc EXCEPT ![x] = p]

LEMMA StepsLocked ==
    ASSUME LockInv, NEW x \in Processes, NEW p, Steps(x, p),
           \/ lock' = lock /\ (p.stage = "closed" <=> proc[x].stage = "closed")
           \/ /\ proc[x].stage = "closed" /\ p.stage # "closed"
              /\ x \in Runtimes => lock = Nobody
              /\ lock' = IF x \in Runtimes THEN x ELSE lock
           \/ /\ p.stage = "closed"
              /\ lock' = IF lock = x THEN Nobody ELSE lock
    PROVE  LockInv'
<1>1. Nobody \notin Runtimes /\ Runtimes \cap Inspectors = {} /\ Runtimes \subseteq Processes
      /\ Processes = Runtimes \cup Inspectors
    BY StoreAssumption DEF Processes
<1>2. /\ proc' = [proc EXCEPT ![x] = p] /\ DOMAIN proc = Processes
      /\ proc'[x] = p /\ \A y \in Processes : y # x => proc'[y] = proc[y]
    BY DEF LockInv, Steps
<1>3. DOMAIN proc' = Processes /\ \A y \in Processes : Framed(proc'[y])
    BY <1>2 DEF Steps, LockInv
<1>4. lock' \in Runtimes \cup {Nobody}
    BY DEF LockInv
<1>5. ASSUME NEW y \in Runtimes
      PROVE  proc'[y].stage # "closed" <=> lock' = y
    BY <1>1, <1>2 DEF LockInv, LockExcludes
<1>6. LockExcludes'
    BY <1>5 DEF LockExcludes
<1>7. \A y \in Processes : Framed(proc[y])'
    BY <1>3 DEF Framed
<1> QED BY <1>3, <1>4, <1>6, <1>7 DEF LockInv

\* The steps that leave the lock alone, stage by stage.
LEMMA StageLocked ==
    ASSUME LockInv, NEW x \in Processes, NEW st, proc[x].stage # "closed", st # "closed",
           lock' = lock, proc' = [proc EXCEPT ![x].stage = st]
    PROVE  LockInv'
<1> DEFINE p == [proc[x] EXCEPT !.stage = st]
<1>1. Framed(proc[x]) /\ DOMAIN proc = Processes
    BY DEF LockInv
<1>3. Framed(p) /\ p.stage = st
    BY <1>1 DEF Framed
<1>4. proc' = [proc EXCEPT ![x] = p]
    BY <1>1
<1> HIDE DEF p
<1> QED BY <1>3, <1>4, StepsLocked DEF Steps

LEMMA GoneLocked ==
    ASSUME LockInv, NEW x \in Processes, Gone(x)
    PROVE  LockInv'
<1>1. Framed(ClosedProcess) /\ ClosedProcess.stage = "closed"
    BY DEF Framed, ClosedProcess
<1> QED BY <1>1, StepsLocked DEF Gone, Steps

\* One writer at a time, whatever fails: the runtime whose store is open holds
\* the lock, from before it reads the files until after it has closed them.
THEOREM LockHeld == Spec => []LockExcludes
<1>1. Init => LockInv
    <2>1. Nobody \notin Runtimes /\ Runtimes \subseteq Processes
        BY StoreAssumption DEF Processes
    <2>2. ClosedProcess.stage = "closed" /\ Framed(ClosedProcess)
        BY DEF ClosedProcess, Framed
    <2> QED BY <2>1, <2>2 DEF Init, LockInv, LockExcludes
<1>2. LockInv /\ [Next]_vars => LockInv'
    <2> SUFFICES ASSUME LockInv, [Next]_vars
                 PROVE  LockInv'
        OBVIOUS
    <2>1. CASE UNCHANGED vars
        BY <2>1 DEF vars, LockInv, LockExcludes, Framed
    <2>2. ASSUME NEW x \in Processes, OpenFiles(x)
          PROVE  LockInv'
        <3> DEFINE p == [proc[x] EXCEPT !.stage = "opened"]
        <3>1. Framed(proc[x]) /\ DOMAIN proc = Processes
            BY DEF LockInv
        <3>3. Framed(p) /\ p.stage = "opened"
            BY <3>1 DEF Framed
        <3>4. proc' = [proc EXCEPT ![x] = p]
            BY <2>2, <3>1 DEF OpenFiles
        <3> HIDE DEF p
        <3> QED BY <2>2, <3>3, <3>4, StepsLocked DEF OpenFiles, Steps
    <2>3. ASSUME NEW x \in Processes, LoadSnapshot(x)
          PROVE  LockInv'
        <3> DEFINE p == [proc[x] EXCEPT !.stage = "loading", !.log = snapshot.log,
                                        !.last_sequence = snapshot.last_sequence]
        <3>1. Framed(proc[x]) /\ DOMAIN proc = Processes
            BY DEF LockInv
        <3>3. Framed(p) /\ p.stage = "loading"
            BY <3>1 DEF Framed
        <3>4. proc' = [proc EXCEPT ![x] = p]
            BY <2>3, <3>1 DEF LoadSnapshot
        <3> HIDE DEF p
        <3> QED BY <2>3, <3>3, <3>4, StepsLocked DEF LoadSnapshot, Steps
    <2>4. ASSUME NEW x \in Processes, ReplayJournal(x)
          PROVE  LockInv'
        <3> DEFINE r == Replay(proc[x], journal)
                   st == IF x \in Runtimes THEN "busy" ELSE "reported"
                   p == [stage |-> st, log |-> r.log, last_sequence |-> r.last_sequence,
                         journal_bytes |-> Bytes(Intact(journal))]
        <3>1. Framed(p) /\ p.stage # "closed" /\ proc[x].stage # "closed"
            BY <2>4 DEF Framed, ReplayJournal
        <3>2. \/ proc' = [proc EXCEPT ![x] = p] /\ lock' = lock
              \/ Gone(x)
            BY <2>4 DEF ReplayJournal
        <3> HIDE DEF p
        <3> QED BY <3>1, <3>2, StepsLocked, GoneLocked DEF Steps
    <2>5. ASSUME NEW x \in Processes, NEW p \in Payload, StartAppend(x, p) \/ RefuseAppend(x, p)
          PROVE  LockInv'
        BY <2>5, StageLocked DEF StartAppend, RefuseAppend
    <2>6. ASSUME NEW x \in Processes, CompleteAppend(x)
          PROVE  LockInv'
        BY <2>6 DEF CompleteAppend, LockInv, LockExcludes, Framed
    <2>7. ASSUME NEW x \in Processes, Acknowledge(x)
          PROVE  LockInv'
        <3> DEFINE p == [stage |-> "busy", log |-> Append(proc[x].log, Last(journal).payload),
                         last_sequence |-> proc[x].last_sequence + 1,
                         journal_bytes |->
                             proc[x].journal_bytes + Units(Last(journal).payload)]
        <3>1. Framed(p) /\ p.stage # "closed" /\ proc[x].stage # "closed"
            BY <2>7 DEF Framed, Acknowledge
        <3>2. proc' = [proc EXCEPT ![x] = p] /\ lock' = lock
            BY <2>7 DEF Acknowledge, LockInv
        <3> HIDE DEF p
        <3> QED BY <3>1, <3>2, StepsLocked DEF Steps
    <2>8. ASSUME NEW x \in Processes, FailAppend(x) \/ EndCall(x) \/ ReplaceSnapshot(x)
                                      \/ FailCompaction(x)
          PROVE  LockInv'
        BY <2>8, StageLocked DEF FailAppend, EndCall, ReplaceSnapshot, FailCompaction
    <2>9. ASSUME NEW x \in Processes, ResetJournal(x)
          PROVE  LockInv'
        <3> DEFINE p == [proc[x] EXCEPT !.stage = "ready", !.journal_bytes = 0]
        <3>1. Framed(proc[x]) /\ DOMAIN proc = Processes
            BY DEF LockInv
        <3>3. Framed(p) /\ p.stage = "ready"
            BY <3>1 DEF Framed
        <3>4. proc' = [proc EXCEPT ![x] = p]
            BY <2>9, <3>1 DEF ResetJournal
        <3> HIDE DEF p
        <3> QED BY <2>9, <3>3, <3>4, StepsLocked DEF ResetJournal, Steps
    <2>10. ASSUME NEW x \in Processes, Exit(x)
           PROVE  LockInv'
        BY <2>10, GoneLocked DEF Exit
    <2> QED BY <2>1, <2>2, <2>3, <2>4, <2>5, <2>6, <2>7, <2>8, <2>9, <2>10 DEF Next
<1>3. LockInv => LockExcludes
    BY DEF LockInv
<1> QED BY <1>1, <1>2, <1>3, PTL DEF Spec

-----------------------------------------------------------------------------
(* What the files and the processes hold of one history. *)

LEMMA Extended ==
    ASSUME NEW S, NEW H \in Seq(S), NEW c \in S
    PROVE  /\ Append(H, c) \in Seq(S)
           /\ Len(Append(H, c)) = Len(H) + 1 /\ Len(H) \in Nat
           /\ Append(H, c)[Len(H) + 1] = c
           /\ \A k \in 1 .. Len(H) : Append(H, c)[k] = H[k]
           /\ \A n \in 0 .. Len(H) : SubSeq(Append(H, c), 1, n) = SubSeq(H, 1, n)
           /\ SubSeq(H, 1, Len(H)) = H
<1> DEFINE G == Append(H, c)
<1>1. /\ G \in Seq(S) /\ Len(G) = Len(H) + 1 /\ Len(H) \in Nat
      /\ G[Len(H) + 1] = c /\ \A k \in 1 .. Len(H) : G[k] = H[k]
    OBVIOUS
<1> HIDE DEF G
<1>2. ASSUME NEW n \in 0 .. Len(H)
      PROVE  SubSeq(G, 1, n) = SubSeq(H, 1, n)
    <2> DEFINE s == SubSeq(G, 1, n)
               t == SubSeq(H, 1, n)
    <2>1. s \in Seq(S) /\ Len(s) = n /\ \A k \in 1 .. n : s[k] = G[k]
        BY <1>1, SubSeqProperties
    <2>2. t \in Seq(S) /\ Len(t) = n /\ \A k \in 1 .. n : t[k] = H[k]
        BY <1>1, SubSeqProperties
    <2> HIDE DEF s, t
    <2>3. \A k \in 1 .. n : k \in 1 .. Len(H)
        BY <1>1
    <2>4. \A k \in 1 .. Len(s) : s[k] = t[k]
        BY <1>1, <2>1, <2>2, <2>3
    <2>5. s = t
        BY <2>1, <2>2, <2>4, SeqEqual
    <2> QED BY <2>5 DEF s, t
<1> QED BY <1>1, <1>2, SubSeqFull DEF G

\* A piece written at the end of intact pieces: whole, it extends the history.
LEMMA ShapeAppend ==
    ASSUME NEW q \in Seq(Piece), NEW H \in Seq(Payload), NEW o \in Nat,
           Shape(q, H, o, Len(q)), NEW c \in Payload, NEW u \in 1 .. Units(c),
           NEW piece \in Piece,
           piece.sequence = Len(H) + 1, piece.payload = c, piece.written = u
    PROVE  /\ u = Units(c) => Shape(Append(q, piece), Append(H, c), o, Len(q) + 1)
           /\ u # Units(c) => Shape(Append(q, piece), H, o, Len(q))
<1> DEFINE r == Append(q, piece)
           n == Len(q)
           G == Append(H, c)
<1>1. /\ r \in Seq(Piece) /\ n \in Nat /\ Len(r) = n + 1 /\ r[n + 1] = piece
      /\ \A k \in 1 .. n : r[k] = q[k]
    OBVIOUS
<1>2. Len(G) = Len(H) + 1 /\ Len(H) \in Nat /\ G[Len(H) + 1] = c
      /\ \A k \in 1 .. Len(H) : G[k] = H[k]
    BY Extended
<1> HIDE DEF r, G
<1>3. o + n = Len(H)
    BY DEF Shape
<1>4. ASSUME NEW k \in 1 .. n
      PROVE  /\ r[k].sequence = o + k /\ r[k].written \in 1 .. Units(r[k].payload)
             /\ Whole(r[k]) /\ r[k].payload = H[o + k] /\ o + k \in 1 .. Len(H)
    BY <1>1, <1>3 DEF Shape
<1>5. /\ r[n + 1].sequence = o + (n + 1) /\ r[n + 1].payload = c
      /\ r[n + 1].written = u /\ (Whole(r[n + 1]) <=> u = Units(c))
    BY <1>1, <1>3 DEF Whole
<1>6. \A k \in 1 .. n + 1 : k \in 1 .. n \/ k = n + 1
    BY <1>1
<1>7. ASSUME u = Units(c)
      PROVE  Shape(r, G, o, n + 1)
    <2>1. ASSUME NEW k \in 1 .. n + 1
          PROVE  /\ r[k].sequence = o + k /\ r[k].written \in 1 .. Units(r[k].payload)
                 /\ Whole(r[k]) <=> k <= n + 1
                 /\ r[k].payload = G[o + k]
        <3>1. CASE k \in 1 .. n
            BY <1>1, <1>2, <1>4, <3>1
        <3>2. CASE k = n + 1
            BY <1>1, <1>2, <1>3, <1>5, <1>7, <3>2
        <3> QED BY <1>6, <3>1, <3>2
    <2> QED BY <1>1, <1>2, <1>3, <2>1 DEF Shape
<1>8. ASSUME u # Units(c)
      PROVE  Shape(r, H, o, n)
    <2>1. ASSUME NEW k \in 1 .. n + 1
          PROVE  /\ r[k].sequence = o + k /\ r[k].written \in 1 .. Units(r[k].payload)
                 /\ Whole(r[k]) <=> k <= n
        <3>1. CASE k \in 1 .. n
            BY <1>1, <1>4, <3>1
        <3>2. CASE k = n + 1
            BY <1>1, <1>5, <1>8, <3>2
        <3> QED BY <1>6, <3>1, <3>2
    <2> QED BY <1>1, <1>3, <1>4, <2>1 DEF Shape
<1> QED BY <1>7, <1>8 DEF r, G

\* The rest of the broken piece arrives.
LEMMA ShapeComplete ==
    ASSUME NEW q \in Seq(Piece), NEW H \in Seq(Payload), NEW o \in Nat, NEW w \in Nat,
           Shape(q, H, o, w), Len(q) = w + 1
    PROVE  LET c == q[Len(q)].payload
               r == [q EXCEPT ![Len(q)].written = Units(c)]
           IN  /\ c \in Payload /\ r \in Seq(Piece) /\ Len(r) = Len(q)
               /\ SubSeq(r, 1, w) = SubSeq(q, 1, w)
               /\ Shape(r, Append(H, c), o, w + 1)
<1> DEFINE n == w + 1
           c == q[n].payload
           r == [q EXCEPT ![n].written = Units(c)]
           G == Append(H, c)
<1>0. n \in Nat /\ n \in 1 .. Len(q) /\ Len(q) = n
    OBVIOUS
<1>1. q[n] \in Piece /\ c \in Payload
    <2>1. q[n] \in Piece
        BY <1>0
    <2> QED BY <2>1 DEF Piece
<1>2. Units(c) \in Nat /\ Units(c) \in 1 .. Units(c)
    BY <1>1, UnitsType
<1> DEFINE z == [q[n] EXCEPT !.written = Units(c)]
<1>3. z \in Piece /\ z.payload = c /\ z.sequence = q[n].sequence /\ z.written = Units(c)
    <2> DEFINE y == q[n]
               u == Units(y.payload)
    <2>1. y \in Piece /\ u \in Nat
        BY <1>1, <1>2
    <2> HIDE DEF y, u
    <2>2. LET v == [y EXCEPT !.written = u]
          IN  v \in Piece /\ v.payload = y.payload /\ v.sequence = y.sequence /\ v.written = u
        BY <2>1 DEF Piece
    <2> QED BY <2>2 DEF y, u
<1>4. /\ r \in Seq(Piece) /\ Len(r) = n /\ r[n] = z /\ \A k \in 1 .. w : r[k] = q[k]
    <2>1. r = [q EXCEPT ![n] = z]
        OBVIOUS
    <2> HIDE DEF r, z
    <2>2. /\ r \in Seq(Piece) /\ Len(r) = Len(q)
          /\ \A k \in 1 .. Len(q) : r[k] = IF k = n THEN z ELSE q[k]
        BY <1>0, <1>3, <2>1, ExceptSeq
    <2> QED BY <1>0, <2>2
<1>5. Len(G) = Len(H) + 1 /\ Len(H) \in Nat /\ G[Len(H) + 1] = c
      /\ \A k \in 1 .. Len(H) : G[k] = H[k]
    BY <1>1, Extended
<1> HIDE DEF r, G, c, z
<1>6. o + w = Len(H) /\ q[n].sequence = o + n
    BY <1>0 DEF Shape
<1>7. ASSUME NEW k \in 1 .. w
      PROVE  /\ r[k].sequence = o + k /\ r[k].written \in 1 .. Units(r[k].payload)
             /\ Whole(r[k]) /\ r[k].payload = H[o + k] /\ o + k \in 1 .. Len(H)
    BY <1>0, <1>4, <1>6 DEF Shape
<1>8. \A k \in 1 .. n : k \in 1 .. w \/ k = n
    BY <1>0
<1>9. Shape(r, G, o, n)
    <2>1. Whole(r[n]) /\ r[n].payload = G[o + n] /\ r[n].sequence = o + n
        BY <1>0, <1>3, <1>4, <1>5, <1>6 DEF Whole
    <2>2. ASSUME NEW k \in 1 .. n
          PROVE  /\ r[k].sequence = o + k /\ r[k].written \in 1 .. Units(r[k].payload)
                 /\ Whole(r[k]) <=> k <= n
                 /\ r[k].payload = G[o + k]
        <3>1. CASE k \in 1 .. w
            BY <1>0, <1>5, <1>7, <3>1
        <3>2. CASE k = n
            BY <1>0, <1>2, <1>3, <1>4, <2>1, <3>2
        <3> QED BY <1>8, <3>1, <3>2
    <2> QED BY <1>0, <1>4, <1>5, <1>6, <2>2 DEF Shape
<1>10. SubSeq(r, 1, w) = SubSeq(q, 1, w)
    <2> DEFINE s == SubSeq(r, 1, w)
               t == SubSeq(q, 1, w)
    <2>1. s \in Seq(Piece) /\ Len(s) = w /\ \A k \in 1 .. w : s[k] = r[k]
        BY <1>0, <1>4, SubSeqProperties
    <2>2. t \in Seq(Piece) /\ Len(t) = w /\ \A k \in 1 .. w : t[k] = q[k]
        BY <1>0, SubSeqProperties
    <2> HIDE DEF s, t
    <2>3. s = t
        BY <1>4, <2>1, <2>2, SeqEqual
    <2> QED BY <2>3 DEF s, t
<1> QED BY <1>0, <1>1, <1>4, <1>9, <1>10 DEF r, G, c

\* Cutting the torn tail off leaves intact pieces.
LEMMA ShapeIntact ==
    ASSUME NEW q \in Seq(Piece), NEW H \in Seq(Payload), NEW o \in Nat, NEW w \in Nat,
           Shape(q, H, o, w)
    PROVE  /\ SubSeq(q, 1, w) \in Seq(Piece)
           /\ Len(SubSeq(q, 1, w)) = w
           /\ Shape(SubSeq(q, 1, w), H, o, w)
<1> DEFINE s == SubSeq(q, 1, w)
<1>1. w <= Len(q) /\ Len(q) \in Nat
    BY DEF Shape
<1>2. s \in Seq(Piece) /\ Len(s) = w /\ \A k \in 1 .. w : s[k] = q[k]
    BY <1>1, SubSeqProperties
<1> HIDE DEF s
<1>3. ASSUME NEW k \in 1 .. w
      PROVE  /\ s[k].sequence = o + k /\ s[k].written \in 1 .. Units(s[k].payload)
             /\ Whole(s[k]) <=> k <= w
             /\ s[k].payload = H[o + k]
    <2>1. k \in 1 .. Len(q) /\ s[k] = q[k]
        BY <1>1, <1>2
    <2>2. /\ q[k].sequence = o + k /\ q[k].written \in 1 .. Units(q[k].payload)
          /\ Whole(q[k]) <=> k <= w
        BY <2>1 DEF Shape
    <2>3. q[k].payload = H[o + k]
        BY DEF Shape
    <2> QED BY <2>1, <2>2, <2>3
<1>4. Shape(s, H, o, w)
    <2>1. w <= Len(s) /\ Len(s) <= w + 1 /\ o + w = Len(H)
        BY <1>2 DEF Shape
    <2>2. \A k \in 1 .. Len(s) : /\ s[k].sequence = o + k
                                 /\ s[k].written \in 1 .. Units(s[k].payload)
                                 /\ Whole(s[k]) <=> k <= w
        BY <1>2, <1>3
    <2> QED BY <1>3, <2>1, <2>2 DEF Shape
<1> QED BY <1>2, <1>4 DEF s

-----------------------------------------------------------------------------
(* The inductive invariant. *)

\* The snapshot holds a prefix of the history H, the journal takes it to its
\* end without a gap, and only the last record may not be acknowledged yet.
Files(snap, q, ack, H, o, w) ==
    /\ snap.last_sequence <= Len(H)
    /\ snap.log = SubSeq(H, 1, snap.last_sequence)
    /\ o <= snap.last_sequence
    /\ Shape(q, H, o, w)
    /\ Len(ack) <= Len(H) /\ Len(H) <= Len(ack) + 1
    /\ ack = SubSeq(H, 1, Len(ack))
    /\ w < Len(q) => ack = H

\* The stages in which a runtime has nothing in flight to the journal.
Settled == {"ready", "busy", "staged", "replaced"}

\* What a runtime knows of the files.
Writes(p, snap, q, ack, H, o, w) ==
    /\ p.stage = "loading" => p.log = snap.log /\ p.last_sequence = snap.last_sequence
    /\ p.stage \in Settled =>
          /\ p.log = H /\ p.last_sequence = Len(H) /\ ack = H /\ w = Len(q)
          /\ p.journal_bytes = Bytes(q)
    /\ p.stage = "replaced" => snap.last_sequence = Len(H)
    /\ p.stage = "writing" =>
          /\ Len(q) > 0
          /\ p.log = ack /\ p.last_sequence = Len(ack)
          /\ Len(ack) + 1 = o + Len(q)
          /\ p.journal_bytes = Bytes(SubSeq(q, 1, Len(q) - 1))

\* What an inspector knows of them.
Reads(p, H) ==
    /\ p.stage \in {"closed", "opened", "loading", "reported"}
    /\ p.stage = "loading" =>
          p.last_sequence <= Len(H) /\ p.log = SubSeq(H, 1, p.last_sequence)
    /\ p.stage = "reported" => Len(p.log) <= Len(H) /\ p.log = SubSeq(H, 1, Len(p.log))

Held(H, o, w) ==
    /\ Files(snapshot, journal, acked, H, o, w)
    /\ \A x \in Runtimes : Writes(proc[x], snapshot, journal, acked, H, o, w)
    /\ \A x \in Inspectors : Reads(proc[x], H)

StoreInv ==
    /\ TypeOK
    /\ LockExcludes
    /\ \E H \in Seq(Payload), o \in Nat, w \in Nat : Held(H, o, w)

\* How a step moves the history: not at all, while everything may come to be
\* acknowledged, or by one record after everything was.
Moves(H, G) ==
    \/ G = H /\ acked' \in {acked, H}
    \/ acked' = acked /\ acked = H /\ \E c \in Payload : G = Append(H, c)

\* After a step the files and processes hold a history that H moves to.
Carried(H) ==
    /\ TypeOK'
    /\ \E G \in Seq(Payload), o \in Nat, w \in Nat : Held(G, o, w)' /\ Moves(H, G)

Typed(snap, q, ack) ==
    /\ snap \in [log : Seq(Payload), last_sequence : Nat]
    /\ q \in Seq(Piece)
    /\ ack \in Seq(Payload)

LEMMA ReadsOn ==
    ASSUME NEW H \in Seq(Payload), NEW c \in Payload, NEW p \in Process, Reads(p, H)
    PROVE  Reads(p, Append(H, c))
<1> DEFINE G == Append(H, c)
<1>1. Len(G) = Len(H) + 1 /\ Len(H) \in Nat
      /\ \A n \in 0 .. Len(H) : SubSeq(G, 1, n) = SubSeq(H, 1, n)
    BY Extended
<1>2. p.last_sequence \in Nat /\ Len(p.log) \in Nat
    BY DEF Process
<1> HIDE DEF G
<1>3. Reads(p, G)
    <2>1. p.last_sequence <= Len(H) => p.last_sequence \in 0 .. Len(H)
        BY <1>1, <1>2
    <2>2. Len(p.log) <= Len(H) => Len(p.log) \in 0 .. Len(H)
        BY <1>1, <1>2
    <2> QED BY <1>1, <1>2, <2>1, <2>2 DEF Reads
<1> QED BY <1>3 DEF G

\* A step of a runtime while no other has its store open.
LEMMA Carry ==
    ASSUME TypeOK, NEW H \in Seq(Payload), NEW o \in Nat, NEW w \in Nat, Held(H, o, w),
           NEW x \in Runtimes, \A y \in Runtimes : y # x => proc[y].stage = "closed",
           NEW p \in Process, proc' = [proc EXCEPT ![x] = p],
           lock' \in Runtimes \cup {Nobody},
           NEW G \in Seq(Payload), NEW k \in Nat, NEW v \in Nat,
           Typed(snapshot', journal', acked'), Moves(H, G),
           Files(snapshot', journal', acked', G, k, v),
           Writes(p, snapshot', journal', acked', G, k, v)
    PROVE  Carried(H)
<1>1. /\ proc \in [Processes -> Process] /\ x \in Processes
      /\ proc' \in [Processes -> Process] /\ proc'[x] = p
      /\ \A y \in Processes : y # x => proc'[y] = proc[y]
    BY DEF TypeOK, Processes
<1>2. TypeOK'
    BY <1>1 DEF TypeOK, Typed
<1>3. ASSUME NEW y \in Runtimes
      PROVE  Writes(proc'[y], snapshot', journal', acked', G, k, v)
    <2>1. CASE y = x
        BY <1>1, <2>1
    <2>2. CASE y # x
        <3>1. proc'[y].stage = "closed"
            BY <1>1, <2>2 DEF Processes
        <3> QED BY <3>1 DEF Writes, Settled
    <2> QED BY <2>1, <2>2
<1>4. ASSUME NEW y \in Inspectors
      PROVE  Reads(proc'[y], G)
    <2>1. proc'[y] = proc[y] /\ proc[y] \in Process
        BY <1>1, StoreAssumption DEF Processes
    <2>2. Reads(proc[y], H)
        BY DEF Held
    <2>3. G = H \/ \E c \in Payload : G = Append(H, c)
        BY DEF Moves
    <2> QED BY <2>1, <2>2, <2>3, ReadsOn
<1>5. Held(G, k, v)'
    BY <1>3, <1>4 DEF Held
<1> QED BY <1>2, <1>5 DEF Carried

\* It touches no file.
LEMMA CarryQuiet ==
    ASSUME TypeOK, NEW H \in Seq(Payload), NEW o \in Nat, NEW w \in Nat, Held(H, o, w),
           NEW x \in Runtimes, \A y \in Runtimes : y # x => proc[y].stage = "closed",
           NEW p \in Process, proc' = [proc EXCEPT ![x] = p],
           lock' \in Runtimes \cup {Nobody},
           UNCHANGED <<snapshot, journal, acked>>,
           Writes(p, snapshot, journal, acked, H, o, w)
    PROVE  Carried(H)
<1>1. Typed(snapshot', journal', acked') /\ Moves(H, H)
    BY DEF TypeOK, Typed, Moves
<1>2. /\ Files(snapshot', journal', acked', H, o, w)
      /\ Writes(p, snapshot', journal', acked', H, o, w)
    BY DEF Held
<1> QED BY <1>1, <1>2, Carry

\* A step of an inspector.
LEMMA CarryReader ==
    ASSUME TypeOK, NEW H \in Seq(Payload), NEW o \in Nat, NEW w \in Nat, Held(H, o, w),
           NEW x \in Inspectors, NEW p \in Process, proc' = [proc EXCEPT ![x] = p],
           lock' \in Runtimes \cup {Nobody},
           UNCHANGED <<snapshot, journal, acked>>, Reads(p, H)
    PROVE  Carried(H)
<1>1. /\ proc \in [Processes -> Process] /\ x \in Processes
      /\ proc' \in [Processes -> Process] /\ proc'[x] = p
      /\ \A y \in Processes : y # x => proc'[y] = proc[y]
    BY DEF TypeOK, Processes
<1>2. TypeOK'
    BY <1>1 DEF TypeOK
<1>3. \A y \in Runtimes : proc'[y] = proc[y]
    BY <1>1, StoreAssumption DEF Processes
<1>4. \A y \in Inspectors : proc'[y] = p \/ proc'[y] = proc[y]
    BY <1>1 DEF Processes
<1>5. Held(H, o, w)'
    BY <1>3, <1>4 DEF Held
<1>6. Moves(H, H)
    BY DEF Moves
<1> QED BY <1>2, <1>5, <1>6 DEF Carried

-----------------------------------------------------------------------------
(* One lemma per group of actions. *)

LEMMA Alone ==
    ASSUME LockExcludes, NEW x \in Runtimes, proc[x].stage # "closed"
    PROVE  \A y \in Runtimes : y # x => proc[y].stage = "closed"
BY DEF LockExcludes

LEMMA StageUpdate ==
    ASSUME NEW c \in Process, NEW st \in Stage
    PROVE  LET p == [c EXCEPT !.stage = st]
           IN  /\ p \in Process
               /\ p.stage = st /\ p.log = c.log /\ p.last_sequence = c.last_sequence
               /\ p.journal_bytes = c.journal_bytes
BY DEF Process

LEMMA ClosedCarried ==
    /\ ClosedProcess \in Process /\ ClosedProcess.stage = "closed"
    /\ \A snap, q, ack, H, o, w : Writes(ClosedProcess, snap, q, ack, H, o, w)
    /\ \A H : Reads(ClosedProcess, H)
<1>1. ClosedProcess \in Process /\ ClosedProcess.stage = "closed"
    <2>1. <<>> \in Seq(Payload)
        OBVIOUS
    <2> QED BY <2>1 DEF ClosedProcess, Process, Stage
<1> QED BY <1>1 DEF Writes, Reads, Settled

\* The process ends wherever it is.
LEMMA GoneCarried ==
    ASSUME TypeOK, LockExcludes, NEW H \in Seq(Payload), NEW o \in Nat, NEW w \in Nat,
           Held(H, o, w), NEW x \in Processes, proc[x].stage # "closed", Gone(x),
           UNCHANGED <<snapshot, journal, acked>>
    PROVE  Carried(H)
<1>1. proc' = [proc EXCEPT ![x] = ClosedProcess] /\ lock' \in Runtimes \cup {Nobody}
    BY DEF Gone, TypeOK
<1>2. CASE x \in Runtimes
    BY <1>1, <1>2, Alone, ClosedCarried, CarryQuiet
<1>3. CASE x \in Inspectors
    BY <1>1, <1>3, ClosedCarried, CarryReader
<1> QED BY <1>2, <1>3 DEF Processes

LEMMA OpenCarried ==
    ASSUME TypeOK, LockExcludes, NEW H \in Seq(Payload), NEW o \in Nat, NEW w \in Nat,
           Held(H, o, w), NEW x \in Processes, OpenFiles(x)
    PROVE  Carried(H)
<1> DEFINE p == [proc[x] EXCEPT !.stage = "opened"]
<1>1. proc[x] \in Process /\ "opened" \in Stage /\ proc \in [Processes -> Process]
    BY DEF TypeOK, Stage
<1>2. p \in Process /\ p.stage = "opened"
    BY <1>1, StageUpdate
<1>3. /\ proc' = [proc EXCEPT ![x] = p]
      /\ lock' \in Runtimes \cup {Nobody}
      /\ UNCHANGED <<snapshot, journal, acked>>
    BY <1>1 DEF OpenFiles, TypeOK
<1> HIDE DEF p
<1>4. Writes(p, snapshot, journal, acked, H, o, w) /\ Reads(p, H)
    BY <1>2 DEF Writes, Reads, Settled
<1>5. CASE x \in Runtimes
    <2>1. \A y \in Runtimes : y # x => proc[y].stage = "closed"
        BY <1>5, StoreAssumption DEF OpenFiles, LockExcludes
    <2> QED BY <1>2, <1>3, <1>4, <1>5, <2>1, CarryQuiet
<1>6. CASE x \in Inspectors
    BY <1>2, <1>3, <1>4, <1>6, CarryReader
<1> QED BY <1>5, <1>6 DEF Processes

LEMMA LoadCarried ==
    ASSUME TypeOK, LockExcludes, NEW H \in Seq(Payload), NEW o \in Nat, NEW w \in Nat,
           Held(H, o, w), NEW x \in Processes, LoadSnapshot(x)
    PROVE  Carried(H)
<1> DEFINE p == [proc[x] EXCEPT !.stage = "loading", !.log = snapshot.log,
                                !.last_sequence = snapshot.last_sequence]
<1>1. /\ proc[x] \in Process /\ proc \in [Processes -> Process]
      /\ snapshot.log \in Seq(Payload) /\ snapshot.last_sequence \in Nat
      /\ lock' \in Runtimes \cup {Nobody}
    BY DEF TypeOK, LoadSnapshot
<1>2. /\ p \in Process /\ p.stage = "loading" /\ p.log = snapshot.log
      /\ p.last_sequence = snapshot.last_sequence
    BY <1>1 DEF Process, Stage
<1>3. /\ proc' = [proc EXCEPT ![x] = p] /\ proc[x].stage # "closed"
      /\ UNCHANGED <<snapshot, journal, acked>>
    BY <1>1 DEF LoadSnapshot
<1> HIDE DEF p
<1>4. Writes(p, snapshot, journal, acked, H, o, w)
    BY <1>2 DEF Writes, Settled
<1>5. Reads(p, H)
    BY <1>2 DEF Reads, Held, Files
<1>6. CASE x \in Runtimes
    BY <1>1, <1>2, <1>3, <1>4, <1>6, Alone, CarryQuiet
<1>7. CASE x \in Inspectors
    BY <1>1, <1>2, <1>3, <1>5, <1>7, CarryReader
<1> QED BY <1>6, <1>7 DEF Processes

\* Replay from a base no longer than the history.
LEMMA ReplayHeld ==
    ASSUME NEW q \in Seq(Piece), NEW H \in Seq(Payload), NEW o \in Nat, NEW w \in Nat,
           Shape(q, H, o, w), NEW l \in Nat, l <= Len(H),
           NEW base, base.log = SubSeq(H, 1, l), base.last_sequence = l
    PROVE  LET r == Replay(base, q)
           IN  /\ o <= l => r = [ok |-> TRUE, log |-> H, last_sequence |-> Len(H)]
               /\ r \in {Reached(H, l), Reached(H, Len(H)), Stuck(H, l)}
<1>1. l \in 0 .. Len(H) /\ Len(H) \in Nat /\ SubSeq(H, 1, Len(H)) = H /\ o + w = Len(H)
    BY SubSeqFull DEF Shape
<1>2. Replay(base, q) = After(H, o, l, w)
    BY <1>1, ReplayShape
<1>3. o <= l => After(H, o, l, w) = Reached(H, Len(H))
    BY <1>1 DEF After
<1>4. ~(o <= l) => After(H, o, l, w) \in {Reached(H, l), Stuck(H, l)}
    BY <1>1 DEF After
<1>5. Reached(H, Len(H)) = [ok |-> TRUE, log |-> H, last_sequence |-> Len(H)]
    BY <1>1 DEF Reached
<1> QED BY <1>2, <1>3, <1>4, <1>5

LEMMA ReplayCarried ==
    ASSUME TypeOK, LockExcludes, NEW H \in Seq(Payload), NEW o \in Nat, NEW w \in Nat,
           Held(H, o, w), NEW x \in Processes, ReplayJournal(x)
    PROVE  Carried(H)
<1> DEFINE r == Replay(proc[x], journal)
           s == SubSeq(journal, 1, w)
           st == IF x \in Runtimes THEN "busy" ELSE "reported"
           p == [stage |-> st, log |-> r.log, last_sequence |-> r.last_sequence,
                 journal_bytes |-> Bytes(Intact(journal))]
<1>t. /\ proc[x] \in Process /\ journal \in Seq(Piece) /\ acked \in Seq(Payload)
      /\ snapshot \in [log : Seq(Payload), last_sequence : Nat]
      /\ lock \in Runtimes \cup {Nobody} /\ proc \in [Processes -> Process]
    BY DEF TypeOK
<1>h. Shape(journal, H, o, w) /\ Len(H) \in Nat /\ SubSeq(H, 1, Len(H)) = H
      /\ Files(snapshot, journal, acked, H, o, w)
    BY SubSeqFull DEF Held, Files
<1>1. s \in Seq(Piece) /\ Len(s) = w /\ Shape(s, H, o, w) /\ Intact(journal) = s
    BY <1>t, <1>h, ShapeIntact, IntactShape
<1> HIDE DEF s
<1>2. Bytes(s) \in Nat
    BY <1>1, BytesFacts
<1>3. CASE x \in Runtimes
    <2> DEFINE l == snapshot.last_sequence
    <2>1. proc[x].stage = "loading"
        BY DEF ReplayJournal
    <2>2. proc[x].log = snapshot.log /\ proc[x].last_sequence = l
        BY <1>3, <2>1 DEF Held, Writes
    <2>3. l \in Nat /\ l <= Len(H) /\ snapshot.log = SubSeq(H, 1, l) /\ o <= l
        BY <1>t, <1>h DEF Files
    <2> HIDE DEF l
    <2>4. r = [ok |-> TRUE, log |-> H, last_sequence |-> Len(H)]
        <3>1. proc[x].log = SubSeq(H, 1, l)
            BY <2>2, <2>3
        <3> QED BY <1>t, <1>h, <2>2, <2>3, <3>1, ReplayHeld
    <2>5. p = [stage |-> "busy", log |-> H, last_sequence |-> Len(H), journal_bytes |-> Bytes(s)]
        BY <1>1, <1>3, <2>4
    <2>6. r.ok
        BY <2>4
    <2>7. /\ proc' = [proc EXCEPT ![x] = p] /\ lock' = lock /\ acked' = H
          /\ journal' = s /\ snapshot' = snapshot
        <3>1. r.log = H
            BY <2>4
        <3> QED BY <1>1, <1>3, <2>6, <3>1 DEF ReplayJournal
    <2> HIDE DEF r, p
    <2>8. p \in Process
        BY <1>2, <1>h, <2>5 DEF Process, Stage
    <2>9. Typed(snapshot', journal', acked') /\ Moves(H, H)
        BY <1>t, <1>1, <2>7 DEF Typed, Moves
    <2>10. Files(snapshot', journal', acked', H, o, w)
        BY <1>h, <1>1, <2>7 DEF Files
    <2>11. Writes(p, snapshot', journal', acked', H, o, w)
        BY <1>1, <2>5, <2>7 DEF Writes, Settled
    <2>12. \A y \in Runtimes : y # x => proc[y].stage = "closed"
        BY <1>3, <2>1, Alone
    <2> QED BY <1>t, <1>3, <2>7, <2>8, <2>9, <2>10, <2>11, <2>12, Carry
<1>4. CASE x \in Inspectors
    <2> DEFINE l == proc[x].last_sequence
    <2>0. x \notin Runtimes /\ st = "reported"
        BY <1>4, StoreAssumption
    <2>1. proc[x].stage = "loading"
        BY DEF ReplayJournal
    <2>2. l \in Nat /\ l <= Len(H) /\ proc[x].log = SubSeq(H, 1, l)
        BY <1>4, <1>t, <2>1 DEF Held, Reads, Process
    <2> HIDE DEF l
    <2>3. r \in {Reached(H, l), Reached(H, Len(H)), Stuck(H, l)}
        BY <1>t, <1>h, <2>2, ReplayHeld DEF l
    <2>4. PICK e \in Nat : e <= Len(H) /\ r.log = SubSeq(H, 1, e) /\ r.last_sequence = e
        BY <1>h, <2>2, <2>3 DEF Reached, Stuck
    <2>5. SubSeq(H, 1, e) \in Seq(Payload) /\ Len(SubSeq(H, 1, e)) = e
        BY <1>h, <2>4, SubSeqProperties
    <2>6. \/ /\ proc' = [proc EXCEPT ![x] = p] /\ lock' = lock
             /\ UNCHANGED <<snapshot, journal, acked>>
          \/ Gone(x) /\ UNCHANGED <<snapshot, journal, acked>>
        BY <2>0 DEF ReplayJournal
    <2> HIDE DEF r
    <2>7. p \in Process /\ p.stage = "reported" /\ p.log = SubSeq(H, 1, e)
        BY <1>1, <1>2, <2>0, <2>4, <2>5 DEF Process, Stage
    <2> HIDE DEF p
    <2>8. Reads(p, H)
        BY <2>4, <2>5, <2>7 DEF Reads
    <2>9. CASE /\ proc' = [proc EXCEPT ![x] = p] /\ lock' = lock
               /\ UNCHANGED <<snapshot, journal, acked>>
        BY <1>t, <1>4, <2>7, <2>8, <2>9, CarryReader
    <2>10. CASE Gone(x) /\ UNCHANGED <<snapshot, journal, acked>>
        BY <2>1, <2>10, GoneCarried
    <2> QED BY <2>6, <2>9, <2>10
<1> QED BY <1>3, <1>4 DEF Processes

\* An inspector never gets to where the journal is written.
LEMMA WriterIsRuntime ==
    ASSUME NEW H, NEW o, NEW w, Held(H, o, w), NEW x \in Processes,
           proc[x].stage \in Settled \cup {"writing"}
    PROVE  x \in Runtimes /\ proc[x].stage # "closed"
           /\ Writes(proc[x], snapshot, journal, acked, H, o, w)
BY DEF Held, Reads, Processes, Settled

LEMMA StartCarried ==
    ASSUME TypeOK, LockExcludes, NEW H \in Seq(Payload), NEW o \in Nat, NEW w \in Nat,
           Held(H, o, w), NEW x \in Processes, NEW c \in Payload, StartAppend(x, c)
    PROVE  Carried(H)
<1> DEFINE p == [proc[x] EXCEPT !.stage = "writing"]
           n == Len(journal)
           G == Append(H, c)
<1>t. /\ proc[x] \in Process /\ journal \in Seq(Piece) /\ proc \in [Processes -> Process]
      /\ snapshot \in [log : Seq(Payload), last_sequence : Nat]
      /\ lock \in Runtimes \cup {Nobody} /\ n \in Nat /\ Len(H) \in Nat
    BY DEF TypeOK
<1>1. proc[x].stage \in {"ready", "busy"}
    BY DEF StartAppend
<1>2. /\ x \in Runtimes /\ proc[x].stage # "closed"
      /\ Writes(proc[x], snapshot, journal, acked, H, o, w)
    BY <1>1, WriterIsRuntime DEF Settled
<1>3. /\ proc[x].log = H /\ proc[x].last_sequence = Len(H) /\ acked = H /\ w = n
      /\ proc[x].journal_bytes = Bytes(journal)
    BY <1>1, <1>2 DEF Writes, Settled
<1>4. /\ p \in Process /\ p.stage = "writing" /\ p.log = H /\ p.last_sequence = Len(H)
      /\ p.journal_bytes = Bytes(journal)
    <2>1. "writing" \in Stage
        BY DEF Stage
    <2> QED BY <1>t, <1>3, <2>1, StageUpdate
<1>5. /\ proc' = [proc EXCEPT ![x] = p]
      /\ lock' = lock /\ snapshot' = snapshot /\ acked' = H
    BY <1>t, <1>3 DEF StartAppend
<1>6. PICK u \in 1 .. Units(c) :
          journal' = Append(journal, [sequence |-> Len(H) + 1, payload |-> c, written |-> u])
    BY <1>3 DEF StartAppend
<1> DEFINE piece == [sequence |-> Len(H) + 1, payload |-> c, written |-> u]
           q == Append(journal, piece)
<1>7. piece \in Piece /\ piece.sequence = Len(H) + 1 /\ piece.payload = c /\ piece.written = u
    BY <1>t, UnitsType DEF Piece
<1> HIDE DEF p, piece
<1>8. Files(snapshot, journal, acked, H, o, n) /\ Shape(journal, H, o, n)
    BY <1>3 DEF Held, Files
<1>9. /\ u = Units(c) => Shape(q, G, o, n + 1)
      /\ u # Units(c) => Shape(q, H, o, n)
    BY <1>t, <1>7, <1>8, ShapeAppend
<1>10. q \in Seq(Piece) /\ Len(q) = n + 1 /\ SubSeq(q, 1, n) = journal /\ journal' = q
    <2>1. q \in Seq(Piece) /\ Len(q) = n + 1 /\ journal' = q
        BY <1>t, <1>6, <1>7 DEF piece
    <2>2. SubSeq(q, 1, n) = journal
        <3>1. SubSeq(q, 1, n) = SubSeq(journal, 1, n) /\ SubSeq(journal, 1, n) = journal
            BY <1>t, <1>7, Extended
        <3> QED BY <3>1
    <2> QED BY <2>1, <2>2
<1>11. /\ G \in Seq(Payload) /\ Len(G) = Len(H) + 1
       /\ \A k \in 0 .. Len(H) : SubSeq(G, 1, k) = SubSeq(H, 1, k)
       /\ SubSeq(H, 1, Len(H)) = H
    BY Extended
<1> HIDE DEF q, G
<1>12. Typed(snapshot', journal', acked')
    BY <1>t, <1>5, <1>10 DEF Typed
<1>13. \A y \in Runtimes : y # x => proc[y].stage = "closed"
    BY <1>2, Alone
<1>14. o + n = Len(H)
    BY <1>8 DEF Shape
<1>w. ASSUME NEW I, NEW k
      PROVE  Writes(p, snapshot', journal', acked', I, o, k)
    <2>1. Len(q) > 0 /\ Len(H) + 1 = o + Len(q)
        BY <1>t, <1>10, <1>14
    <2>2. Len(q) - 1 = n
        BY <1>t, <1>10
    <2>3. SubSeq(q, 1, Len(q) - 1) = journal
        BY <1>10, <2>2
    <2> QED BY <1>4, <1>5, <1>10, <2>1, <2>3 DEF Writes, Settled
<1>15. CASE u = Units(c)
    <2>1. snapshot.last_sequence \in 0 .. Len(H)
        BY <1>t, <1>8 DEF Files
    <2>2. Files(snapshot', journal', acked', G, o, n + 1)
        <3>1. Shape(q, G, o, n + 1)
            BY <1>9, <1>15
        <3>2. snapshot.last_sequence <= Len(G) /\ SubSeq(G, 1, snapshot.last_sequence) = snapshot.log
            BY <1>t, <1>8, <1>11, <2>1 DEF Files
        <3>3. H = SubSeq(G, 1, Len(H)) /\ Len(H) <= Len(G) /\ Len(G) <= Len(H) + 1
            BY <1>t, <1>11
        <3>4. ~(n + 1 < Len(q))
            BY <1>t, <1>10
        <3>5. o <= snapshot.last_sequence
            BY <1>8 DEF Files
        <3> QED BY <1>5, <1>10, <3>1, <3>2, <3>3, <3>4, <3>5 DEF Files
    <2>3. Writes(p, snapshot', journal', acked', G, o, n + 1)
        BY <1>w
    <2>4. Moves(H, G)
        BY <1>3, <1>5 DEF Moves, G
    <2>5. n + 1 \in Nat
        BY <1>t
    <2> QED BY <1>t, <1>2, <1>4, <1>5, <1>11, <1>12, <1>13, <2>2, <2>3, <2>4, <2>5, Carry
<1>16. CASE u # Units(c)
    <2>1. Files(snapshot', journal', acked', H, o, n)
        <3>1. Len(H) <= Len(H) /\ Len(H) <= Len(H) + 1
            BY <1>t
        <3> QED BY <1>5, <1>8, <1>9, <1>10, <1>11, <1>16, <3>1 DEF Files
    <2>2. Writes(p, snapshot', journal', acked', H, o, n)
        BY <1>w
    <2>3. Moves(H, H)
        BY <1>3, <1>5 DEF Moves
    <2> QED BY <1>t, <1>2, <1>4, <1>5, <1>12, <1>13, <2>1, <2>2, <2>3, Carry
<1> QED BY <1>15, <1>16

LEMMA CompleteCarried ==
    ASSUME TypeOK, LockExcludes, NEW H \in Seq(Payload), NEW o \in Nat, NEW w \in Nat,
           Held(H, o, w), NEW x \in Processes, CompleteAppend(x)
    PROVE  Carried(H)
<1> DEFINE n == Len(journal)
           c == journal[n].payload
           q == [journal EXCEPT ![n].written = Units(c)]
           G == Append(H, c)
<1>t. /\ proc[x] \in Process /\ journal \in Seq(Piece) /\ proc \in [Processes -> Process]
      /\ snapshot \in [log : Seq(Payload), last_sequence : Nat]
      /\ lock \in Runtimes \cup {Nobody} /\ n \in Nat /\ Len(H) \in Nat
    BY DEF TypeOK
<1>1. proc[x].stage = "writing" /\ ~Whole(journal[n])
    BY DEF CompleteAppend, Last
<1>2. /\ x \in Runtimes /\ proc[x].stage # "closed"
      /\ Writes(proc[x], snapshot, journal, acked, H, o, w)
    BY <1>1, WriterIsRuntime
<1>3. /\ n > 0 /\ proc[x].log = acked /\ proc[x].last_sequence = Len(acked)
      /\ Len(acked) + 1 = o + n
      /\ proc[x].journal_bytes = Bytes(SubSeq(journal, 1, n - 1))
    BY <1>1, <1>2 DEF Writes
<1>4. Files(snapshot, journal, acked, H, o, w) /\ Shape(journal, H, o, w)
    BY DEF Held, Files
<1>5. n = w + 1
    <2>1. n \in 1 .. n
        BY <1>t, <1>3
    <2>2. ~(n <= w)
        BY <1>1, <1>4, <2>1 DEF Shape
    <2> QED BY <1>t, <1>4, <2>2 DEF Shape
<1>6. /\ c \in Payload /\ q \in Seq(Piece) /\ Len(q) = n
      /\ SubSeq(q, 1, w) = SubSeq(journal, 1, w)
      /\ Shape(q, G, o, w + 1)
    BY <1>t, <1>4, <1>5, ShapeComplete
<1>7. acked = H
    <2>1. w < n
        BY <1>t, <1>5
    <2> QED BY <1>4, <2>1 DEF Files
<1>8. /\ journal' = q /\ lock' = lock /\ snapshot' = snapshot /\ acked' = H
      /\ proc' = [proc EXCEPT ![x] = proc[x]]
    BY <1>t, <1>7 DEF CompleteAppend, Last
<1> HIDE DEF q, c
<1>9. /\ G \in Seq(Payload) /\ Len(G) = Len(H) + 1
      /\ \A k \in 0 .. Len(H) : SubSeq(G, 1, k) = SubSeq(H, 1, k)
      /\ SubSeq(H, 1, Len(H)) = H
    BY <1>6, Extended
<1> HIDE DEF G
<1>10. Files(snapshot', journal', acked', G, o, w + 1)
    <2>1. snapshot.last_sequence \in 0 .. Len(H)
        BY <1>t, <1>4 DEF Files
    <2>2. snapshot.last_sequence <= Len(G) /\ SubSeq(G, 1, snapshot.last_sequence) = snapshot.log
        BY <1>t, <1>4, <1>9, <2>1 DEF Files
    <2>3. H = SubSeq(G, 1, Len(H)) /\ Len(H) <= Len(G) /\ Len(G) <= Len(H) + 1
        BY <1>t, <1>9
    <2>4. ~(w + 1 < Len(q))
        BY <1>5, <1>6
    <2>5. o <= snapshot.last_sequence
        BY <1>4 DEF Files
    <2> QED BY <1>6, <1>8, <2>2, <2>3, <2>4, <2>5 DEF Files
<1>11. Writes(proc[x], snapshot', journal', acked', G, o, w + 1)
    <2>1. n - 1 = w
        BY <1>5
    <2> QED BY <1>1, <1>3, <1>6, <1>7, <1>8, <2>1 DEF Writes, Settled
<1>12. Typed(snapshot', journal', acked') /\ Moves(H, G)
    BY <1>t, <1>6, <1>7, <1>8 DEF Typed, Moves, G
<1>13. (\A y \in Runtimes : y # x => proc[y].stage = "closed") /\ w + 1 \in Nat
    BY <1>2, Alone
<1> QED BY <1>t, <1>2, <1>8, <1>9, <1>10, <1>11, <1>12, <1>13, Carry

LEMMA AcknowledgeCarried ==
    ASSUME TypeOK, LockExcludes, NEW H \in Seq(Payload), NEW o \in Nat, NEW w \in Nat,
           Held(H, o, w), NEW x \in Processes, Acknowledge(x)
    PROVE  Carried(H)
<1> DEFINE n == Len(journal)
           c == journal[n].payload
           front == SubSeq(journal, 1, n - 1)
           p == [stage |-> "busy", log |-> Append(proc[x].log, c),
                 last_sequence |-> proc[x].last_sequence + 1,
                 journal_bytes |-> proc[x].journal_bytes + Units(c)]
<1>t. /\ proc[x] \in Process /\ journal \in Seq(Piece) /\ proc \in [Processes -> Process]
      /\ snapshot \in [log : Seq(Payload), last_sequence : Nat] /\ acked \in Seq(Payload)
      /\ lock \in Runtimes \cup {Nobody} /\ n \in Nat /\ Len(H) \in Nat /\ Len(acked) \in Nat
    BY DEF TypeOK
<1>1. proc[x].stage = "writing" /\ Whole(journal[n])
    BY DEF Acknowledge, Last
<1>2. /\ x \in Runtimes /\ proc[x].stage # "closed"
      /\ Writes(proc[x], snapshot, journal, acked, H, o, w)
    BY <1>1, WriterIsRuntime
<1>3. /\ n > 0 /\ proc[x].log = acked /\ proc[x].last_sequence = Len(acked)
      /\ Len(acked) + 1 = o + n
      /\ proc[x].journal_bytes = Bytes(front)
    BY <1>1, <1>2 DEF Writes
<1>4. Files(snapshot, journal, acked, H, o, w) /\ Shape(journal, H, o, w)
    BY DEF Held, Files
<1>5. w = n /\ Len(H) = Len(acked) + 1 /\ c = H[Len(H)]
    <2>1. n \in 1 .. n
        BY <1>t, <1>3
    <2>2. n <= w
        BY <1>1, <1>4, <2>1 DEF Shape
    <2>3. w = n /\ o + w = Len(H)
        BY <1>t, <1>4, <2>2 DEF Shape
    <2>4. c = H[o + n]
        BY <1>4, <2>1, <2>3 DEF Shape
    <2> QED BY <1>3, <2>3, <2>4
<1>6. Append(acked, c) = H
    <2>1. Len(H) \in 1 .. Len(H) /\ 1 \in 1 .. Len(H) /\ Len(H) - 1 = Len(acked)
        BY <1>t, <1>5
    <2>2. SubSeq(H, 1, Len(H)) = SubSeq(H, 1, Len(H) - 1) \o <<H[Len(H)]>>
        BY <2>1, SubSeqRecursiveSecond
    <2>3. acked = SubSeq(H, 1, Len(acked)) /\ SubSeq(H, 1, Len(H)) = H
        BY <1>4, SubSeqFull DEF Files
    <2>4. H[Len(H)] \in Payload
        BY <2>1
    <2>5. Append(acked, H[Len(H)]) = acked \o <<H[Len(H)]>>
        BY <1>t, <2>4, AppendIsConcat
    <2> QED BY <1>5, <2>1, <2>2, <2>3, <2>5
<1>7. Bytes(front) + Units(c) = Bytes(journal) /\ Bytes(journal) \in Nat
    <2> DEFINE last == journal[n]
    <2>1. n \in 1 .. Len(journal) /\ 1 \in 1 .. Len(journal) /\ n \in 1 .. n
        BY <1>t, <1>3
    <2>2. last \in Piece /\ last.written = Units(c)
        BY <1>1, <1>t, <2>1 DEF Whole
    <2>3. front \in Seq(Piece)
        BY <1>t, <2>1, SubSeqProperties
    <2>4. SubSeq(journal, 1, n) = front \o <<last>> /\ SubSeq(journal, 1, n) = journal
        BY <1>t, <2>1, SubSeqRecursiveSecond, SubSeqFull
    <2>5. Append(front, last) = front \o <<last>>
        BY <2>2, <2>3, AppendIsConcat
    <2>6. journal = Append(front, last)
        BY <2>4, <2>5
    <2> HIDE DEF front, last
    <2>7. Bytes(Append(front, last)) = Bytes(front) + last.written
        BY <2>2, <2>3, BytesFacts
    <2>8. Bytes(journal) \in Nat
        BY <1>t, BytesFacts
    <2> QED BY <2>2, <2>6, <2>7, <2>8
<1>8. p = [stage |-> "busy", log |-> H, last_sequence |-> Len(H),
           journal_bytes |-> Bytes(journal)]
    BY <1>3, <1>5, <1>6, <1>7
<1>9. /\ proc' = [proc EXCEPT ![x] = p] /\ lock' = lock /\ snapshot' = snapshot
      /\ journal' = journal /\ acked' = H
    BY <1>t, <1>6 DEF Acknowledge, Last
<1> HIDE DEF p, c, front
<1>10. p \in Process
    BY <1>t, <1>7, <1>8 DEF Process, Stage
<1>11. Files(snapshot', journal', acked', H, o, w)
    <2>1. Len(H) <= Len(H) /\ Len(H) <= Len(H) + 1 /\ H = SubSeq(H, 1, Len(H))
        BY <1>t, SubSeqFull
    <2> QED BY <1>4, <1>9, <2>1 DEF Files
<1>12. Writes(p, snapshot', journal', acked', H, o, w)
    BY <1>5, <1>8, <1>9 DEF Writes, Settled
<1>13. Typed(snapshot', journal', acked') /\ Moves(H, H)
    BY <1>t, <1>9 DEF Typed, Moves
<1>14. \A y \in Runtimes : y # x => proc[y].stage = "closed"
    BY <1>2, Alone
<1> QED BY <1>t, <1>2, <1>9, <1>10, <1>11, <1>12, <1>13, <1>14, Carry

\* A call that ends, is refused or cannot compact moves between settled stages,
\* or leaves the process without a journal.
LEMMA SettledCarried ==
    ASSUME TypeOK, LockExcludes, NEW H \in Seq(Payload), NEW o \in Nat, NEW w \in Nat,
           Held(H, o, w), NEW x \in Processes, proc[x].stage \in Settled,
           NEW st \in {"ready", "staged", "headless"}, lock' = lock,
           proc' = [proc EXCEPT ![x].stage = st], UNCHANGED <<snapshot, journal, acked>>
    PROVE  Carried(H)
<1> DEFINE p == [proc[x] EXCEPT !.stage = st]
<1>1. /\ proc[x] \in Process /\ st \in Stage /\ proc \in [Processes -> Process]
      /\ lock' \in Runtimes \cup {Nobody}
    BY DEF TypeOK, Stage
<1>2. /\ x \in Runtimes /\ proc[x].stage # "closed"
      /\ Writes(proc[x], snapshot, journal, acked, H, o, w)
    BY WriterIsRuntime
<1>3. /\ p \in Process /\ p.stage = st /\ p.log = proc[x].log
      /\ p.last_sequence = proc[x].last_sequence /\ p.journal_bytes = proc[x].journal_bytes
    BY <1>1, StageUpdate
<1>4. proc' = [proc EXCEPT ![x] = p]
    BY <1>1
<1> HIDE DEF p
<1>5. Writes(p, snapshot, journal, acked, H, o, w)
    BY <1>2, <1>3 DEF Writes, Settled
<1> QED BY <1>1, <1>2, <1>3, <1>4, <1>5, Alone, CarryQuiet

LEMMA ReplaceCarried ==
    ASSUME TypeOK, LockExcludes, NEW H \in Seq(Payload), NEW o \in Nat, NEW w \in Nat,
           Held(H, o, w), NEW x \in Processes, ReplaceSnapshot(x)
    PROVE  Carried(H)
<1> DEFINE p == [proc[x] EXCEPT !.stage = "replaced"]
           snap == [log |-> proc[x].log, last_sequence |-> proc[x].last_sequence]
<1>1. /\ proc[x] \in Process /\ "replaced" \in Stage /\ proc \in [Processes -> Process]
      /\ lock \in Runtimes \cup {Nobody} /\ journal \in Seq(Piece) /\ acked \in Seq(Payload)
      /\ Len(H) \in Nat /\ SubSeq(H, 1, Len(H)) = H
    BY SubSeqFull DEF TypeOK, Stage
<1>2. proc[x].stage = "staged"
    BY DEF ReplaceSnapshot
<1>3. /\ x \in Runtimes /\ proc[x].stage # "closed"
      /\ Writes(proc[x], snapshot, journal, acked, H, o, w)
    BY <1>2, WriterIsRuntime DEF Settled
<1>4. /\ proc[x].log = H /\ proc[x].last_sequence = Len(H) /\ acked = H /\ w = Len(journal)
      /\ proc[x].journal_bytes = Bytes(journal)
    BY <1>2, <1>3 DEF Writes, Settled
<1>5. /\ p \in Process /\ p.stage = "replaced" /\ p.log = H /\ p.last_sequence = Len(H)
      /\ p.journal_bytes = Bytes(journal)
    BY <1>1, <1>4, StageUpdate
<1>6. /\ proc' = [proc EXCEPT ![x] = p] /\ lock' = lock /\ journal' = journal /\ acked' = acked
      /\ snapshot' = snap
    BY <1>1 DEF ReplaceSnapshot
<1>7. snap.log = H /\ snap.last_sequence = Len(H)
      /\ snap \in [log : Seq(Payload), last_sequence : Nat]
    BY <1>1, <1>4
<1> HIDE DEF p, snap
<1>8. Files(snapshot', journal', acked', H, o, w)
    <2>1. Shape(journal, H, o, w) /\ Files(snapshot, journal, acked, H, o, w)
        BY DEF Held, Files
    <2>2. o <= Len(H) /\ Len(H) <= Len(H)
        BY <1>1, <2>1 DEF Shape
    <2> QED BY <1>1, <1>6, <1>7, <2>1, <2>2 DEF Files
<1>9. Writes(p, snapshot', journal', acked', H, o, w)
    BY <1>4, <1>5, <1>6, <1>7 DEF Writes, Settled
<1>10. Typed(snapshot', journal', acked') /\ Moves(H, H)
    BY <1>1, <1>6, <1>7 DEF Typed, Moves
<1>11. \A y \in Runtimes : y # x => proc[y].stage = "closed"
    BY <1>3, Alone
<1> QED BY <1>1, <1>3, <1>5, <1>6, <1>8, <1>9, <1>10, <1>11, Carry

LEMMA ResetCarried ==
    ASSUME TypeOK, LockExcludes, NEW H \in Seq(Payload), NEW o \in Nat, NEW w \in Nat,
           Held(H, o, w), NEW x \in Processes, ResetJournal(x)
    PROVE  Carried(H)
<1> DEFINE p == [proc[x] EXCEPT !.stage = "ready", !.journal_bytes = 0]
           q == <<>>
<1>1. /\ proc[x] \in Process /\ proc \in [Processes -> Process]
      /\ lock \in Runtimes \cup {Nobody} /\ acked \in Seq(Payload)
      /\ snapshot \in [log : Seq(Payload), last_sequence : Nat]
      /\ Len(H) \in Nat /\ SubSeq(H, 1, Len(H)) = H
    BY SubSeqFull DEF TypeOK
<1>2. proc[x].stage = "replaced"
    BY DEF ResetJournal
<1>3. /\ x \in Runtimes /\ proc[x].stage # "closed"
      /\ Writes(proc[x], snapshot, journal, acked, H, o, w)
    BY <1>2, WriterIsRuntime DEF Settled
<1>4. /\ proc[x].log = H /\ proc[x].last_sequence = Len(H) /\ acked = H
      /\ snapshot.last_sequence = Len(H)
    BY <1>2, <1>3 DEF Writes, Settled
<1>5. /\ p \in Process /\ p.stage = "ready" /\ p.log = H /\ p.last_sequence = Len(H)
      /\ p.journal_bytes = 0
    BY <1>1, <1>4 DEF Process, Stage
<1>6. /\ proc' = [proc EXCEPT ![x] = p] /\ lock' = lock /\ journal' = q /\ acked' = acked
      /\ snapshot' = snapshot
    BY <1>1 DEF ResetJournal
<1>7. q \in Seq(Piece) /\ Len(q) = 0 /\ Bytes(q) = 0
    BY BytesFacts
<1> HIDE DEF p, q
<1>8. Shape(q, H, Len(H), 0)
    BY <1>1, <1>7 DEF Shape
<1>9. Files(snapshot', journal', acked', H, Len(H), 0)
    <2>1. Len(H) <= Len(H) /\ ~(0 < 0)
        BY <1>1
    <2>2. Files(snapshot, journal, acked, H, o, w)
        BY DEF Held
    <2> QED BY <1>4, <1>6, <1>7, <1>8, <2>1, <2>2 DEF Files
<1>10. Writes(p, snapshot', journal', acked', H, Len(H), 0)
    BY <1>4, <1>5, <1>6, <1>7 DEF Writes, Settled
<1>11. Typed(snapshot', journal', acked') /\ Moves(H, H)
    BY <1>1, <1>6, <1>7 DEF Typed, Moves
<1>12. (\A y \in Runtimes : y # x => proc[y].stage = "closed") /\ 0 \in Nat
    BY <1>3, Alone
<1> QED BY <1>1, <1>3, <1>5, <1>6, <1>9, <1>10, <1>11, <1>12, Carry

-----------------------------------------------------------------------------
(* The theorems. *)

LEMMA StoreStep ==
    ASSUME ~AppendFaults, TypeOK, LockExcludes,
           NEW H \in Seq(Payload), NEW o \in Nat, NEW w \in Nat, Held(H, o, w), [Next]_vars
    PROVE  Carried(H)
<1>1. CASE UNCHANGED vars
    <2>1. TypeOK'
        BY <1>1 DEF vars, TypeOK
    <2>2. Held(H, o, w)'
        BY <1>1 DEF vars, Held
    <2>3. Moves(H, H)
        BY <1>1 DEF vars, Moves
    <2> QED BY <2>1, <2>2, <2>3 DEF Carried
<1>2. ASSUME NEW x \in Processes, NEW c \in Payload, RefuseAppend(x, c)
      PROVE  Carried(H)
    BY <1>2, SettledCarried DEF RefuseAppend, Settled
<1>3. ASSUME NEW x \in Processes, EndCall(x)
      PROVE  Carried(H)
    BY <1>3, SettledCarried DEF EndCall, Settled
<1>4. ASSUME NEW x \in Processes, FailCompaction(x)
      PROVE  Carried(H)
    BY <1>4, SettledCarried DEF FailCompaction, Settled
<1>5. ASSUME NEW x \in Processes, Exit(x)
      PROVE  Carried(H)
    BY <1>5, GoneCarried DEF Exit
<1>6. ASSUME NEW x \in Processes
      PROVE  ~FailAppend(x)
    BY DEF FailAppend
<1> QED BY <1>1, <1>2, <1>3, <1>4, <1>5, <1>6, OpenCarried, LoadCarried, ReplayCarried,
           StartCarried, CompleteCarried, AcknowledgeCarried, ReplaceCarried, ResetCarried
        DEF Next

\* What a runtime opening the directory now would recover is the history.
LEMMA RecoveredIsHeld ==
    ASSUME TypeOK, NEW H \in Seq(Payload), NEW o \in Nat, NEW w \in Nat, Held(H, o, w)
    PROVE  Recovered = [ok |-> TRUE, log |-> H, last_sequence |-> Len(H)]
<1> DEFINE l == snapshot.last_sequence
<1>1. /\ l \in Nat /\ l <= Len(H) /\ o <= l /\ snapshot.log = SubSeq(H, 1, l)
      /\ journal \in Seq(Piece) /\ Shape(journal, H, o, w)
    BY DEF TypeOK, Held, Files
<1> HIDE DEF l
<1>2. snapshot.last_sequence = l
    BY DEF l
<1> QED BY <1>1, <1>2, ReplayHeld DEF Recovered

LEMMA InitHeld ==
    ASSUME Init
    PROVE  TypeOK /\ Held(<<>>, 0, 0)
<1> DEFINE e == <<>>
<1>1. /\ e \in Seq(Payload) /\ e \in Seq(Piece) /\ Len(e) = 0 /\ 0 \in Nat
      /\ SubSeq(e, 1, 0) = e
    BY SubSeqEmpty
<1>2. /\ lock = Nobody /\ journal = e /\ acked = e
      /\ snapshot = [log |-> e, last_sequence |-> 0]
      /\ proc = [x \in Processes |-> ClosedProcess]
    BY DEF Init
<1> HIDE DEF e
<1>3. TypeOK
    BY <1>1, <1>2, ClosedCarried DEF TypeOK
<1>4. Files(snapshot, journal, acked, e, 0, 0)
    BY <1>1, <1>2 DEF Files, Shape
<1>5. Held(e, 0, 0)
    BY <1>2, <1>4, ClosedCarried DEF Held, Processes
<1> QED BY <1>3, <1>5 DEF e

LEMMA StoreInvariant ==
    ASSUME ~AppendFaults
    PROVE  Spec => []StoreInv
<1>1. Init /\ LockExcludes => StoreInv
    <2> SUFFICES ASSUME Init, LockExcludes
                 PROVE  StoreInv
        OBVIOUS
    <2> DEFINE e == <<>>
    <2>1. TypeOK /\ Held(e, 0, 0) /\ e \in Seq(Payload) /\ 0 \in Nat
        BY InitHeld
    <2> HIDE DEF e
    <2> QED BY <2>1 DEF StoreInv
<1>2. StoreInv /\ LockExcludes' /\ [Next]_vars => StoreInv'
    <2> SUFFICES ASSUME StoreInv, LockExcludes', [Next]_vars
                 PROVE  StoreInv'
        OBVIOUS
    <2>1. PICK H \in Seq(Payload), o \in Nat, w \in Nat : Held(H, o, w)
        BY DEF StoreInv
    <2>2. Carried(H)
        BY <2>1, StoreStep DEF StoreInv
    <2> QED BY <2>2 DEF Carried, StoreInv
<1> QED BY <1>1, <1>2, LockHeld, PTL DEF Spec

\* While appends succeed, the files can be opened again wherever a crash falls
\* between two system calls of an append, a compaction or a recovery: replay
\* meets no gap, and the only broken record it meets is a torn tail.
THEOREM OpensAlways ==
    ASSUME ~AppendFaults
    PROVE  Spec => []AlwaysOpens
<1>1. StoreInv => AlwaysOpens
    <2> SUFFICES ASSUME StoreInv
                 PROVE  AlwaysOpens
        OBVIOUS
    <2>1. PICK H \in Seq(Payload), o \in Nat, w \in Nat : Held(H, o, w)
        BY DEF StoreInv
    <2>2. Recovered = [ok |-> TRUE, log |-> H, last_sequence |-> Len(H)]
        BY <2>1, RecoveredIsHeld DEF StoreInv
    <2> QED BY <2>2 DEF AlwaysOpens
<1> QED BY <1>1, StoreInvariant, PTL

\* While appends succeed, the sequence number and the byte count a runtime
\* caches are those of the files whenever it is between two calls, whichever
\* compactions failed before.
THEOREM CountersKept ==
    ASSUME ~AppendFaults
    PROVE  Spec => []CountersMatchFiles
<1>1. StoreInv => CountersMatchFiles
    <2> SUFFICES ASSUME StoreInv, NEW x \in Runtimes, proc[x].stage = "ready"
                 PROVE  /\ proc[x].journal_bytes = Bytes(journal)
                        /\ proc[x].last_sequence = Recovered.last_sequence
        BY DEF CountersMatchFiles
    <2>1. PICK H \in Seq(Payload), o \in Nat, w \in Nat : Held(H, o, w)
        BY DEF StoreInv
    <2>2. Recovered = [ok |-> TRUE, log |-> H, last_sequence |-> Len(H)]
        BY <2>1, RecoveredIsHeld DEF StoreInv
    <2>3. Writes(proc[x], snapshot, journal, acked, H, o, w)
        BY <2>1 DEF Held
    <2> QED BY <2>2, <2>3 DEF Writes, Settled
<1> QED BY <1>1, StoreInvariant, PTL

\* While appends succeed, an inspector that reads the snapshot and, later, the
\* journal of a store that is being written and compacted reports a prefix of
\* its history, or nothing.
THEOREM InspectorsSeeThePast ==
    ASSUME ~AppendFaults
    PROVE  Spec => []InspectionIsPast
<1>1. StoreInv => InspectionIsPast
    <2> SUFFICES ASSUME StoreInv, NEW x \in Inspectors, proc[x].stage = "reported"
                 PROVE  IsPrefix(proc[x].log, Recovered.log)
        BY DEF InspectionIsPast
    <2>1. PICK H \in Seq(Payload), o \in Nat, w \in Nat : Held(H, o, w)
        BY DEF StoreInv
    <2>2. Recovered.log = H
        BY <2>1, RecoveredIsHeld DEF StoreInv
    <2>3. Reads(proc[x], H)
        BY <2>1 DEF Held
    <2> DEFINE g == proc[x].log
    <2>4. g \in Seq(Payload) /\ Len(g) <= Len(H) /\ g = SubSeq(H, 1, Len(g))
        BY <2>3 DEF Reads, StoreInv, TypeOK, Processes, Process
    <2> HIDE DEF g
    <2>5. SubSeq(g, 1, Len(g)) = g
        BY <2>4, SubSeqFull
    <2> QED BY <2>2, <2>4, <2>5 DEF IsPrefix, g
<1> QED BY <1>1, StoreInvariant, PTL

\* While appends succeed the store implements a durable log: what a recovery
\* would return only grows, one record at a time and only when everything
\* before it is acknowledged, and what was acknowledged stays.
THEOREM StoreIsDurableLog ==
    ASSUME ~AppendFaults
    PROVE  Spec => DurableLogSpec
<1>1. Init => Log!Init
    <2> SUFFICES ASSUME Init
                 PROVE  Log!Init
        OBVIOUS
    <2> DEFINE e == <<>>
    <2>1. TypeOK /\ Held(e, 0, 0) /\ e \in Seq(Payload) /\ 0 \in Nat
        BY InitHeld
    <2>2. acked = e
        BY DEF Init
    <2> HIDE DEF e
    <2>3. Recovered.log = e
        BY <2>1, RecoveredIsHeld
    <2> QED BY <2>2, <2>3 DEF Log!Init, e
<1>2. StoreInv /\ [Next]_vars => [Log!Next]_(Log!vars)
    <2> SUFFICES ASSUME StoreInv, [Next]_vars
                 PROVE  [Log!Next]_(Log!vars)
        OBVIOUS
    <2>1. PICK H \in Seq(Payload), o \in Nat, w \in Nat : Held(H, o, w)
        BY DEF StoreInv
    <2>2. Carried(H)
        BY <2>1, StoreStep DEF StoreInv
    <2>3. PICK G \in Seq(Payload), k \in Nat, v \in Nat : Held(G, k, v)' /\ Moves(H, G)
        BY <2>2 DEF Carried
    <2>4. Recovered.log = H
        BY <2>1, RecoveredIsHeld DEF StoreInv
    <2>5. (Recovered.log)' = G
        <3> DEFINE l == snapshot'.last_sequence
        <3>1. TypeOK' /\ Held(G, k, v)'
            BY <2>2, <2>3 DEF Carried
        <3>2. /\ l \in Nat /\ l <= Len(G) /\ k <= l /\ snapshot'.log = SubSeq(G, 1, l)
              /\ journal' \in Seq(Piece) /\ Shape(journal', G, k, v)
            BY <3>1 DEF TypeOK, Held, Files
        <3> HIDE DEF l
        <3>3. snapshot'.last_sequence = l
            BY DEF l
        <3>4. Replay(snapshot', journal') =
                  [ok |-> TRUE, log |-> G, last_sequence |-> Len(G)]
            BY <3>2, <3>3, ReplayHeld
        <3> QED BY <3>4 DEF Recovered
    <2>6. CASE G = H /\ acked' \in {acked, H}
        BY <2>4, <2>5, <2>6 DEF Log!Next, Log!Acknowledge, Log!vars
    <2>7. CASE acked' = acked /\ acked = H /\ \E c \in Payload : G = Append(H, c)
        BY <2>4, <2>5, <2>7 DEF Log!Next, Log!Write
    <2> QED BY <2>3, <2>6, <2>7 DEF Moves
<1> QED BY <1>1, <1>2, StoreInvariant, PTL DEF Spec, DurableLogSpec, Log!Spec

-----------------------------------------------------------------------------
(* What holds whatever fails, debris in the journal included. *)

\* A replay that started from the records g and still holds them.
Holds(g, r) ==
    /\ r \in [ok : BOOLEAN, log : Seq(Payload), last_sequence : Nat]
    /\ Len(g) <= Len(r.log)
    /\ SubSeq(r.log, 1, Len(g)) = g

LEMMA ApplyHolds ==
    ASSUME NEW g \in Seq(Payload), NEW r, Holds(g, r), NEW piece \in Piece
    PROVE  Holds(g, ApplyPiece(piece, r))
<1>1. /\ r \in [ok : BOOLEAN, log : Seq(Payload), last_sequence : Nat]
      /\ Len(g) <= Len(r.log) /\ SubSeq(r.log, 1, Len(g)) = g
    BY DEF Holds
<1>2. piece.payload \in Payload /\ piece.sequence \in Nat
    BY DEF Piece
<1> DEFINE a == [r EXCEPT !.log = Append(@, piece.payload), !.last_sequence = piece.sequence]
           b == [r EXCEPT !.ok = FALSE]
<1>3. ApplyPiece(piece, r) \in {r, a, b}
    BY DEF ApplyPiece
<1>4. Holds(g, a)
    <2> DEFINE t == Append(r.log, piece.payload)
    <2>0. r.log \in Seq(Payload) /\ Len(g) \in Nat
        BY <1>1
    <2>1. /\ t \in Seq(Payload) /\ Len(t) = Len(r.log) + 1 /\ Len(r.log) \in Nat
          /\ \A n \in 0 .. Len(r.log) : SubSeq(t, 1, n) = SubSeq(r.log, 1, n)
        BY <1>2, <2>0, Extended
    <2>2. Len(g) \in 0 .. Len(r.log) /\ Len(g) <= Len(t)
        BY <1>1, <2>0, <2>1
    <2>3. SubSeq(t, 1, Len(g)) = g
        BY <1>1, <2>1, <2>2
    <2>4. a = [r EXCEPT !.log = t, !.last_sequence = piece.sequence]
        OBVIOUS
    <2> HIDE DEF t, a
    <2>5. a.log = t /\ a \in [ok : BOOLEAN, log : Seq(Payload), last_sequence : Nat]
        BY <1>1, <1>2, <2>1, <2>4
    <2> QED BY <2>2, <2>3, <2>5 DEF Holds
<1>5. Holds(g, b)
    BY <1>1 DEF Holds
<1> QED BY <1>3, <1>4, <1>5

\* f runs through the first m of the pieces s.
Runs(start, s, f, m, g) ==
    /\ DOMAIN f = 0 .. m
    /\ f[0] = start
    /\ \A n \in 0 .. m : Holds(g, f[n])
    /\ \A n \in 1 .. m : f[n] = ApplyPiece(s[n], f[n - 1])

LEMMA RunsExist ==
    ASSUME NEW s \in Seq(Piece), NEW g \in Seq(Payload), NEW start, Holds(g, start)
    PROVE  \E f : Runs(start, s, f, Len(s), g)
<1> DEFINE Bad == {m \in 0 .. Len(s) : ~ \E f : Runs(start, s, f, m, g)}
<1>1. SUFFICES ASSUME Bad # {}
               PROVE  FALSE
    <2>1. Len(s) \in 0 .. Len(s)
        OBVIOUS
    <2> QED BY <2>1
<1>2. PICK m \in Bad : \A i \in Bad : m <= i
    <2>1. Bad \in SUBSET Nat
        OBVIOUS
    <2> HIDE DEF Bad
    <2> QED BY <1>1, <2>1, LeastMember
<1>3. m # 0
    <2> DEFINE f == [i \in 0 .. 0 |-> start]
    <2>1. Runs(start, s, f, 0, g)
        BY DEF Runs
    <2> QED BY <1>2, <2>1
<1>4. m \in 1 .. Len(s) /\ m - 1 \in 0 .. Len(s) /\ ~(m <= m - 1) /\ m \in Nat
    BY <1>2, <1>3
<1>5. PICK f : Runs(start, s, f, m - 1, g)
    BY <1>2, <1>4
<1> DEFINE new == ApplyPiece(s[m], f[m - 1])
           h == [n \in 0 .. m |-> IF n = m THEN new ELSE f[n]]
<1>6. Holds(g, new)
    <2>1. s[m] \in Piece /\ m - 1 \in 0 .. m - 1
        BY <1>4
    <2>2. Holds(g, f[m - 1])
        BY <1>5, <2>1 DEF Runs
    <2> QED BY <2>1, <2>2, ApplyHolds
<1>7. Runs(start, s, h, m, g)
    <2>1. DOMAIN h = 0 .. m /\ h[0] = start
        BY <1>4, <1>5 DEF Runs
    <2>2. ASSUME NEW n \in 0 .. m
          PROVE  Holds(g, h[n])
        <3>1. CASE n = m
            BY <1>6, <3>1
        <3>2. CASE n # m
            <4>1. n \in 0 .. m - 1
                BY <1>4, <3>2
            <4> QED BY <1>5, <3>2, <4>1 DEF Runs
        <3> QED BY <3>1, <3>2
    <2>3. ASSUME NEW n \in 1 .. m
          PROVE  h[n] = ApplyPiece(s[n], h[n - 1])
        <3>0. n \in 0 .. m /\ n - 1 \in 0 .. m /\ n - 1 # m
            BY <1>4
        <3>1. CASE n = m
            BY <3>0, <3>1
        <3>2. CASE n # m
            <4>1. n \in 1 .. m - 1
                BY <1>4, <3>2
            <4>2. f[n] = ApplyPiece(s[n], f[n - 1])
                BY <1>5, <4>1 DEF Runs
            <4> QED BY <3>0, <3>2, <4>2
        <3> QED BY <3>1, <3>2
    <2> QED BY <2>1, <2>2, <2>3 DEF Runs
<1> QED BY <1>2, <1>7

LEMMA IntactType ==
    ASSUME NEW q \in Seq(Piece)
    PROVE  Intact(q) \in Seq(Piece)
<1> DEFINE I == {i \in 1 .. Len(q) : ~Whole(q[i])}
           k == FirstBroken(q)
<1>1. k = IF I # {} THEN Min(I) ELSE 0
    BY DEF FirstBroken, SelectInSeq
<1>2. CASE I = {}
    BY <1>1, <1>2 DEF Intact
<1>3. CASE I # {}
    <2>1. I \in SUBSET Nat
        OBVIOUS
    <2>2. Min(I) \in I
        <3> HIDE DEF I
        <3> QED BY <1>3, <2>1, LeastMember DEF Min
    <2>3. k \in 1 .. Len(q)
        BY <1>1, <1>3, <2>2
    <2> HIDE DEF k, I
    <2>4. SubSeq(q, 1, k - 1) \in Seq(Piece)
        BY <2>3, SubSeqProperties
    <2>5. Intact(q) = SubSeq(q, 1, k - 1)
        BY <2>3 DEF Intact, k
    <2> QED BY <2>4, <2>5
<1> QED BY <1>2, <1>3

\* Whatever the journal holds, a replay keeps the records it started from.
LEMMA ReplayHolds ==
    ASSUME NEW q \in Seq(Piece), NEW base, base.log \in Seq(Payload),
           base.last_sequence \in Nat
    PROVE  Holds(base.log, Replay(base, q))
<1> DEFINE g == base.log
           s == Intact(q)
           start == [ok |-> TRUE, log |-> base.log, last_sequence |-> base.last_sequence]
           F(h) == [n \in 0 .. Len(s) |-> IF n = 0 THEN start ELSE ApplyPiece(s[n], h[n - 1])]
           h == CHOOSE h : h = F(h)
           torn == FirstBroken(q) # 0 => Torn(q, FirstBroken(q))
<1>0. s \in Seq(Piece)
    BY IntactType
<1>1. Holds(g, start)
    <2>1. SubSeq(g, 1, Len(g)) = g /\ Len(g) <= Len(g)
        BY SubSeqFull
    <2> QED BY <2>1 DEF Holds
<1>r. Replay(base, q) = [h[Len(s)] EXCEPT !.ok = @ /\ torn]
    BY DEF Replay
<1> HIDE DEF s, start, g
<1>n. Len(s) \in Nat
    BY <1>0
<1>2. PICK f : Runs(start, s, f, Len(s), g)
    <2>1. g \in Seq(Payload)
        BY DEF g
    <2> QED BY <1>0, <1>1, <2>1, RunsExist
<1>3. f = F(f)
    <2>1. \A n \in 0 .. Len(s) : f[n] = IF n = 0 THEN start ELSE ApplyPiece(s[n], f[n - 1])
        BY <1>n, <1>2 DEF Runs
    <2>2. f = [n \in 0 .. Len(s) |-> f[n]]
        BY <1>2 DEF Runs
    <2> QED BY <2>1, <2>2
<1>4. h = F(h)
    <2> HIDE DEF F
    <2> QED BY <1>3
<1>5. \A n \in 0 .. Len(s) : h[n] = IF n = 0 THEN start ELSE ApplyPiece(s[n], h[n - 1])
    <2> HIDE DEF h
    <2> QED BY <1>4
<1>6. ASSUME NEW n \in 0 .. Len(s), h[n] # f[n]
      PROVE  FALSE
    <2> DEFINE Bad == {i \in 0 .. Len(s) : h[i] # f[i]}
    <2> HIDE DEF h
    <2>1. Bad \in SUBSET Nat /\ Bad # {}
        BY <1>6
    <2>2. PICK i \in Bad : \A j \in Bad : i <= j
        <3> HIDE DEF Bad
        <3> QED BY <2>1, LeastMember
    <2>3. i # 0
        BY <1>2, <1>5, <2>2 DEF Runs
    <2>4. i \in 1 .. Len(s) /\ i - 1 \in 0 .. Len(s) /\ ~(i <= i - 1)
        BY <1>n, <2>2, <2>3
    <2>5. h[i - 1] = f[i - 1]
        BY <2>2, <2>4
    <2>6. h[i] = f[i]
        BY <1>2, <1>5, <2>3, <2>4, <2>5 DEF Runs
    <2> QED BY <2>2, <2>6
<1>7. Holds(g, h[Len(s)])
    <2> HIDE DEF h
    <2>1. Len(s) \in 0 .. Len(s)
        BY <1>n
    <2> QED BY <1>2, <1>6, <2>1 DEF Runs
<1>8. \A r : Holds(g, r) => Holds(g, [r EXCEPT !.ok = @ /\ torn])
    <2> HIDE DEF torn
    <2> SUFFICES ASSUME NEW r, Holds(g, r)
                 PROVE  Holds(g, [r EXCEPT !.ok = @ /\ torn])
        OBVIOUS
    <2> DEFINE b == r.ok /\ torn
    <2>1. b \in BOOLEAN /\ [r EXCEPT !.ok = @ /\ torn] = [r EXCEPT !.ok = b]
        OBVIOUS
    <2> HIDE DEF b
    <2>2. Holds(g, [r EXCEPT !.ok = b])
        BY <2>1 DEF Holds
    <2> QED BY <2>1, <2>2
<1>9. Holds(g, Replay(base, q))
    <2> HIDE DEF h, torn
    <2> QED BY <1>r, <1>7, <1>8
<1> QED BY <1>9 DEF g


-----------------------------------------------------------------------------
(* Snapshots advance, whatever fails. *)

Working == {"loading", "ready", "busy", "writing", "staged", "replaced"}

\* A runtime that has read the snapshot still holds everything in it.
Ahead(p, snap, q) ==
    /\ p.stage \in Working => /\ Len(snap.log) <= Len(p.log)
                              /\ SubSeq(p.log, 1, Len(snap.log)) = snap.log
    /\ p.stage = "writing" => Len(q) > 0

Reader(p) == p.stage \in {"closed", "opened", "loading", "reported"}

AdvanceInv ==
    /\ TypeOK
    /\ \A x \in Runtimes : Ahead(proc[x], snapshot, journal)
    /\ \A x \in Inspectors : Reader(proc[x])

\* Only x moves, and only a runtime touches the files.
Advances(x, p) ==
    /\ p \in Process
    /\ proc' = [proc EXCEPT ![x] = p]
    /\ lock' \in Runtimes \cup {Nobody}
    /\ Typed(snapshot', journal', acked')
    /\ x \in Inspectors => Reader(p) /\ UNCHANGED <<snapshot, journal>>
    /\ x \in Runtimes => Ahead(p, snapshot', journal')

LEMMA AdvanceStep ==
    ASSUME AdvanceInv, LockExcludes, NEW x \in Processes, NEW p, Advances(x, p),
           x \in Runtimes => \A y \in Runtimes : y # x => proc[y].stage = "closed"
    PROVE  AdvanceInv'
<1>1. Runtimes \cap Inspectors = {} /\ Processes = Runtimes \cup Inspectors
    BY StoreAssumption DEF Processes
<1>2. /\ proc \in [Processes -> Process] /\ p \in Process
      /\ proc' = [proc EXCEPT ![x] = p]
    BY DEF AdvanceInv, TypeOK, Advances
<1>3. /\ proc' \in [Processes -> Process] /\ proc'[x] = p
      /\ \A y \in Processes : y # x => proc'[y] = proc[y]
    BY <1>2
<1>4. TypeOK'
    BY <1>3 DEF Advances, Typed, TypeOK
<1>5. ASSUME NEW y \in Runtimes
      PROVE  Ahead(proc'[y], snapshot', journal')
    <2>1. CASE y = x
        BY <1>3, <2>1 DEF Advances
    <2>2. CASE y # x /\ x \in Runtimes
        <3>1. proc'[y].stage = "closed"
            BY <1>1, <1>3, <2>2
        <3> QED BY <3>1 DEF Ahead, Working
    <2>3. CASE y # x /\ x \in Inspectors
        <3>1. proc'[y] = proc[y] /\ snapshot' = snapshot /\ journal' = journal
            BY <1>1, <1>3, <2>3 DEF Advances
        <3>2. Ahead(proc[y], snapshot, journal)
            BY DEF AdvanceInv
        <3> QED BY <3>1, <3>2
    <2> QED BY <1>1, <2>1, <2>2, <2>3
<1>6. ASSUME NEW y \in Inspectors
      PROVE  Reader(proc'[y])
    BY <1>1, <1>3 DEF Advances, AdvanceInv
<1>7. \A y \in Runtimes : Ahead(proc[y], snapshot, journal)'
    BY <1>5 DEF Ahead, Working
<1>8. \A y \in Inspectors : Reader(proc[y])'
    BY <1>6 DEF Reader
<1> QED BY <1>4, <1>7, <1>8 DEF AdvanceInv

\* A step of a runtime whose store is open, or that is about to open it.
LEMMA AdvanceOpen ==
    ASSUME AdvanceInv, LockExcludes, NEW x \in Processes, NEW p, Advances(x, p),
           proc[x].stage # "closed"
    PROVE  AdvanceInv'
BY Alone, AdvanceStep

LEMMA AdvanceClosed ==
    /\ ClosedProcess \in Process /\ Reader(ClosedProcess)
    /\ \A snap, q : Ahead(ClosedProcess, snap, q)
BY ClosedCarried DEF Reader, Ahead, Working

\* A step that changes nothing but the stage, and never back to a working one.
LEMMA AdvanceStage ==
    ASSUME AdvanceInv, LockExcludes, NEW x \in Runtimes, NEW st \in Stage,
           proc' = [proc EXCEPT ![x].stage = st], lock' = lock,
           UNCHANGED <<snapshot, acked>>, journal' \in Seq(Piece),
           proc[x].stage \in Working, st = "writing" => Len(journal') > 0
    PROVE  AdvanceInv'
<1> DEFINE p == [proc[x] EXCEPT !.stage = st]
<1>1. x \in Processes /\ TypeOK /\ proc[x].stage # "closed"
    BY DEF Processes, AdvanceInv, Working
<1>2. proc[x] \in Process /\ proc \in [Processes -> Process]
    BY <1>1 DEF TypeOK
<1>3. p \in Process /\ p.stage = st /\ p.log = proc[x].log
    BY <1>2, StageUpdate
<1>4. proc' = [proc EXCEPT ![x] = p]
    BY <1>2
<1> HIDE DEF p
<1>5. Ahead(p, snapshot', journal')
    BY <1>3 DEF AdvanceInv, Ahead
<1>6. x \notin Inspectors
    BY StoreAssumption
<1>7. Typed(snapshot', journal', acked') /\ lock' \in Runtimes \cup {Nobody}
    BY <1>1 DEF Typed, TypeOK
<1>8. Advances(x, p)
    BY <1>3, <1>4, <1>5, <1>6, <1>7 DEF Advances
<1> QED BY <1>1, <1>8, AdvanceOpen

\* An inspector never gets past reading.
LEMMA WorkerIsRuntime ==
    ASSUME AdvanceInv, NEW x \in Processes,
           proc[x].stage \in {"ready", "busy", "writing", "staged", "replaced"}
    PROVE  /\ x \in Runtimes /\ x \notin Inspectors
           /\ proc[x].stage \in Working /\ proc[x].stage # "closed"
           /\ Ahead(proc[x], snapshot, journal)
BY StoreAssumption DEF AdvanceInv, Reader, Processes, Working


LEMMA PrefixOfPrefix ==
    ASSUME NEW S, NEW a \in Seq(S), NEW b \in Seq(S), NEW c \in Seq(S),
           Len(a) <= Len(b), SubSeq(b, 1, Len(a)) = a,
           Len(b) <= Len(c), SubSeq(c, 1, Len(b)) = b
    PROVE  Len(a) <= Len(c) /\ SubSeq(c, 1, Len(a)) = a
<1> DEFINE s == SubSeq(c, 1, Len(a))
<1>1. Len(a) \in Nat /\ Len(b) \in Nat /\ Len(c) \in Nat /\ Len(a) <= Len(c)
    OBVIOUS
<1>2. s \in Seq(S) /\ Len(s) = Len(a) /\ \A k \in 1 .. Len(a) : s[k] = c[k]
    BY <1>1, SubSeqProperties
<1>3. \A k \in 1 .. Len(b) : b[k] = c[k]
    <2> DEFINE t == SubSeq(c, 1, Len(b))
    <2>1. \A k \in 1 .. Len(b) : t[k] = c[k]
        BY <1>1, SubSeqProperties
    <2> HIDE DEF t
    <2> QED BY <2>1 DEF t
<1>4. \A k \in 1 .. Len(a) : a[k] = b[k]
    <2> DEFINE t == SubSeq(b, 1, Len(a))
    <2>1. \A k \in 1 .. Len(a) : t[k] = b[k]
        BY <1>1, SubSeqProperties
    <2> HIDE DEF t
    <2> QED BY <2>1 DEF t
<1> HIDE DEF s
<1>5. s = a
    <2>1. \A k \in 1 .. Len(s) : s[k] = a[k]
        BY <1>1, <1>2, <1>3, <1>4
    <2> QED BY <1>2, <2>1, SeqEqual
<1> QED BY <1>1, <1>5 DEF s


LEMMA AdvanceReading ==
    ASSUME AdvanceInv, LockExcludes, NEW x \in Processes,
           OpenFiles(x) \/ LoadSnapshot(x)
    PROVE  AdvanceInv' /\ UNCHANGED snapshot
<1>1. TypeOK /\ proc[x] \in Process /\ proc \in [Processes -> Process]
    BY DEF AdvanceInv, TypeOK
<1>2. Typed(snapshot, journal, acked)
    BY <1>1 DEF TypeOK, Typed
<1>3. CASE OpenFiles(x)
    <2> DEFINE p == [proc[x] EXCEPT !.stage = "opened"]
    <2>1. p \in Process /\ p.stage = "opened"
        <3>1. "opened" \in Stage
            BY DEF Stage
        <3> QED BY <1>1, <3>1, StageUpdate
    <2>2. /\ proc' = [proc EXCEPT ![x] = p] /\ lock' \in Runtimes \cup {Nobody}
          /\ UNCHANGED <<snapshot, journal, acked>>
        BY <1>1, <1>3 DEF OpenFiles, TypeOK
    <2> HIDE DEF p
    <2>3. Reader(p) /\ Ahead(p, snapshot, journal)
        BY <2>1 DEF Reader, Ahead, Working
    <2>4. Advances(x, p)
        BY <1>2, <2>1, <2>2, <2>3 DEF Advances
    <2>5. x \in Runtimes => \A y \in Runtimes : y # x => proc[y].stage = "closed"
        BY <1>3, StoreAssumption DEF OpenFiles, LockExcludes
    <2> QED BY <2>2, <2>4, <2>5, AdvanceStep
<1>4. CASE LoadSnapshot(x)
    <2> DEFINE p == [proc[x] EXCEPT !.stage = "loading", !.log = snapshot.log,
                                    !.last_sequence = snapshot.last_sequence]
    <2>0. snapshot.log \in Seq(Payload) /\ snapshot.last_sequence \in Nat
        BY <1>2 DEF Typed
    <2>1. p \in Process /\ p.stage = "loading" /\ p.log = snapshot.log
        <3>1. "loading" \in Stage
            BY DEF Stage
        <3> QED BY <1>1, <2>0, <3>1 DEF Process
    <2>2. /\ proc' = [proc EXCEPT ![x] = p] /\ lock' \in Runtimes \cup {Nobody}
          /\ UNCHANGED <<snapshot, journal, acked>> /\ proc[x].stage # "closed"
        BY <1>1, <1>4 DEF LoadSnapshot, TypeOK
    <2> HIDE DEF p
    <2>3. Reader(p) /\ Ahead(p, snapshot, journal)
        <3>1. SubSeq(snapshot.log, 1, Len(snapshot.log)) = snapshot.log
              /\ Len(snapshot.log) <= Len(snapshot.log)
            BY <2>0, SubSeqFull
        <3> QED BY <2>1, <3>1 DEF Reader, Ahead, Working
    <2>4. Advances(x, p)
        BY <1>2, <2>1, <2>2, <2>3 DEF Advances
    <2> QED BY <2>2, <2>4, AdvanceOpen
<1> QED BY <1>3, <1>4

LEMMA AdvanceGone ==
    ASSUME AdvanceInv, LockExcludes, NEW x \in Processes, proc[x].stage # "closed",
           Gone(x), UNCHANGED <<snapshot, journal, acked>>
    PROVE  AdvanceInv'
<1>1. Advances(x, ClosedProcess)
    <2>1. proc' = [proc EXCEPT ![x] = ClosedProcess] /\ lock' \in Runtimes \cup {Nobody}
        BY DEF Gone, AdvanceInv, TypeOK
    <2>2. Typed(snapshot', journal', acked')
        BY DEF AdvanceInv, TypeOK, Typed
    <2> QED BY <2>1, <2>2, AdvanceClosed DEF Advances
<1> QED BY <1>1, AdvanceOpen

LEMMA AdvanceReplay ==
    ASSUME AdvanceInv, LockExcludes, NEW x \in Processes, ReplayJournal(x)
    PROVE  AdvanceInv' /\ UNCHANGED snapshot
<1> DEFINE r == Replay(proc[x], journal)
           st == IF x \in Runtimes THEN "busy" ELSE "reported"
           p == [stage |-> st, log |-> r.log, last_sequence |-> r.last_sequence,
                 journal_bytes |-> Bytes(Intact(journal))]
<1>1. /\ proc[x] \in Process /\ journal \in Seq(Piece) /\ acked \in Seq(Payload)
      /\ snapshot \in [log : Seq(Payload), last_sequence : Nat]
      /\ lock \in Runtimes \cup {Nobody}
    BY DEF AdvanceInv, TypeOK
<1>2. proc[x].log \in Seq(Payload) /\ proc[x].last_sequence \in Nat
    BY <1>1 DEF Process
<1>3. Holds(proc[x].log, r)
    BY <1>1, <1>2, ReplayHolds
<1>4. Intact(journal) \in Seq(Piece) /\ Bytes(Intact(journal)) \in Nat
    BY <1>1, IntactType, BytesFacts
<1>5. snapshot' = snapshot /\ proc[x].stage = "loading"
    BY DEF ReplayJournal
<1>6. CASE Gone(x) /\ UNCHANGED <<journal, acked>>
    BY <1>5, <1>6, AdvanceGone
<1>7. CASE ~(Gone(x) /\ UNCHANGED <<journal, acked>>)
    <2>1. /\ proc' = [proc EXCEPT ![x] = p]
          /\ journal' = IF x \in Runtimes THEN Intact(journal) ELSE journal
          /\ acked' = IF x \in Runtimes THEN r.log ELSE acked
          /\ lock' = lock
        BY <1>7 DEF ReplayJournal
    <2> HIDE DEF r
    <2>2. r.log \in Seq(Payload) /\ r.last_sequence \in Nat
        BY <1>3 DEF Holds
    <2>3. p \in Process /\ p.stage = st /\ p.log = r.log
        BY <1>4, <2>2 DEF Process, Stage
    <2> HIDE DEF p
    <2>4. Typed(snapshot', journal', acked')
        BY <1>1, <1>4, <1>5, <2>1, <2>2 DEF Typed
    <2>5. x \in Inspectors => Reader(p) /\ UNCHANGED <<snapshot, journal>>
        BY <1>5, <2>1, <2>3, StoreAssumption DEF Reader
    <2>6. ASSUME x \in Runtimes
          PROVE  Ahead(p, snapshot, journal')
        <3>1. /\ Len(snapshot.log) <= Len(proc[x].log)
              /\ SubSeq(proc[x].log, 1, Len(snapshot.log)) = snapshot.log
            BY <1>5, <2>6 DEF AdvanceInv, Ahead, Working
        <3>2. /\ Len(proc[x].log) <= Len(r.log)
              /\ SubSeq(r.log, 1, Len(proc[x].log)) = proc[x].log
            BY <1>3 DEF Holds
        <3>3. snapshot.log \in Seq(Payload)
            BY <1>1
        <3>4. /\ Len(snapshot.log) <= Len(r.log)
              /\ SubSeq(r.log, 1, Len(snapshot.log)) = snapshot.log
            BY <1>2, <2>2, <3>1, <3>2, <3>3, PrefixOfPrefix
        <3> QED BY <2>3, <2>6, <3>4 DEF Ahead
    <2>7. Advances(x, p)
        BY <1>1, <1>5, <2>1, <2>3, <2>4, <2>5, <2>6 DEF Advances
    <2> QED BY <1>5, <2>7, AdvanceOpen
<1> QED BY <1>6, <1>7


\* Writing a record, refusing it, failing to write it, and ending the call.
LEMMA AdvanceAppending ==
    ASSUME AdvanceInv, LockExcludes, NEW x \in Processes,
           \/ \E c \in Payload : StartAppend(x, c) \/ RefuseAppend(x, c)
           \/ FailAppend(x) \/ EndCall(x) \/ FailCompaction(x)
    PROVE  AdvanceInv' /\ UNCHANGED snapshot
<1>1. journal \in Seq(Piece) /\ proc[x] \in Process
    BY DEF AdvanceInv, TypeOK
<1>2. proc[x].stage \in {"ready", "busy", "writing", "staged", "replaced"}
    BY DEF StartAppend, RefuseAppend, FailAppend, EndCall, FailCompaction
<1>3. x \in Runtimes /\ proc[x].stage \in Working
    BY <1>2, WorkerIsRuntime
<1>4. lock' = lock /\ UNCHANGED <<snapshot, acked>>
    BY DEF StartAppend, RefuseAppend, FailAppend, EndCall, FailCompaction
<1>5. CASE \E c \in Payload : StartAppend(x, c)
    <2>1. PICK c \in Payload : StartAppend(x, c)
        BY <1>5
    <2>2. PICK u \in 1 .. Units(c) :
              journal' = Append(journal, [sequence |-> proc[x].last_sequence + 1,
                                          payload |-> c, written |-> u])
        BY <2>1 DEF StartAppend
    <2> DEFINE piece == [sequence |-> proc[x].last_sequence + 1, payload |-> c, written |-> u]
    <2>3. piece \in Piece
        BY <1>1, UnitsType DEF Piece, Process
    <2> HIDE DEF piece
    <2>4. journal' = Append(journal, piece)
        BY <2>2 DEF piece
    <2>5. journal' \in Seq(Piece) /\ Len(journal') > 0
        BY <1>1, <2>3, <2>4
    <2>6. proc' = [proc EXCEPT ![x].stage = "writing"] /\ "writing" \in Stage
        BY <2>1 DEF StartAppend, Stage
    <2> QED BY <1>3, <1>4, <2>5, <2>6, AdvanceStage
<1>6. CASE ~ \E c \in Payload : StartAppend(x, c)
    <2>1. PICK st \in {"ready", "busy", "staged", "headless"} :
              proc' = [proc EXCEPT ![x].stage = st]
        BY <1>6 DEF RefuseAppend, FailAppend, EndCall, FailCompaction
    <2>2. journal' = journal
        BY <1>6 DEF RefuseAppend, FailAppend, EndCall, FailCompaction
    <2>3. st \in Stage /\ st # "writing"
        BY <2>1 DEF Stage
    <2> QED BY <1>1, <1>3, <1>4, <2>1, <2>2, <2>3, AdvanceStage
<1> QED BY <1>5, <1>6

LEMMA LastIn ==
    ASSUME NEW q \in Seq(Piece), Len(q) > 0
    PROVE  /\ Last(q) = q[Len(q)] /\ Len(q) \in 1 .. Len(q)
           /\ Last(q) \in Piece /\ Last(q).payload \in Payload
<1>1. Len(q) \in 1 .. Len(q)
    OBVIOUS
<1>2. q[Len(q)] \in Piece
    BY <1>1
<1> QED BY <1>1, <1>2 DEF Last, Piece

LEMMA AdvanceComplete ==
    ASSUME AdvanceInv, LockExcludes, NEW x \in Processes, CompleteAppend(x)
    PROVE  AdvanceInv' /\ UNCHANGED snapshot
<1> DEFINE n == Len(journal)
           u == Units(Last(journal).payload)
           piece == [journal[n] EXCEPT !.written = u]
<1>1. journal \in Seq(Piece) /\ TypeOK
    BY DEF AdvanceInv, TypeOK
<1>2. proc[x].stage = "writing" /\ UNCHANGED <<lock, snapshot, proc, acked>>
    BY DEF CompleteAppend
<1>3. Ahead(proc[x], snapshot, journal)
    BY <1>2, WorkerIsRuntime
<1>4. n > 0
    BY <1>2, <1>3 DEF Ahead
<1>5. /\ Last(journal) = journal[n] /\ n \in 1 .. n /\ Last(journal).payload \in Payload
      /\ journal[n] \in Piece
    BY <1>1, <1>4, LastIn
<1>6. piece \in Piece
    <2>1. u \in Nat
        BY <1>5, UnitsType
    <2> HIDE DEF u
    <2> QED BY <1>5, <2>1 DEF Piece
<1>7. journal' = [journal EXCEPT ![n] = piece]
    BY DEF CompleteAppend
<1> HIDE DEF piece
<1>8. journal' \in Seq(Piece) /\ Len(journal') = n
    BY <1>1, <1>5, <1>6, <1>7
<1>9. TypeOK'
    BY <1>1, <1>2, <1>8 DEF TypeOK
<1>10. ASSUME NEW y \in Runtimes
       PROVE  Ahead(proc[y], snapshot, journal)'
    <2>1. Ahead(proc[y], snapshot, journal)
        BY DEF AdvanceInv
    <2> QED BY <1>2, <1>8, <2>1 DEF Ahead, Working
<1>11. \A y \in Inspectors : Reader(proc[y])'
    BY <1>2 DEF AdvanceInv, Reader
<1> QED BY <1>2, <1>9, <1>10, <1>11 DEF AdvanceInv

LEMMA AdvanceAcknowledge ==
    ASSUME AdvanceInv, LockExcludes, NEW x \in Processes, Acknowledge(x)
    PROVE  AdvanceInv' /\ UNCHANGED snapshot
<1> DEFINE c == Last(journal).payload
           g == proc[x].log
           p == [stage |-> "busy", log |-> Append(g, c),
                 last_sequence |-> proc[x].last_sequence + 1,
                 journal_bytes |-> proc[x].journal_bytes + Units(c)]
<1>1. /\ proc[x] \in Process /\ journal \in Seq(Piece) /\ acked \in Seq(Payload)
      /\ snapshot \in [log : Seq(Payload), last_sequence : Nat]
      /\ lock \in Runtimes \cup {Nobody} /\ proc \in [Processes -> Process]
    BY DEF AdvanceInv, TypeOK
<1>2. /\ proc[x].stage = "writing" /\ UNCHANGED <<lock, snapshot, journal>>
      /\ acked' = Append(acked, c) /\ proc' = [proc EXCEPT ![x] = p]
    BY <1>1 DEF Acknowledge
<1>3. /\ x \in Runtimes /\ x \notin Inspectors /\ proc[x].stage # "closed"
      /\ Ahead(proc[x], snapshot, journal)
    BY <1>2, WorkerIsRuntime
<1>4. /\ Len(journal) > 0 /\ Len(snapshot.log) <= Len(g)
      /\ SubSeq(g, 1, Len(snapshot.log)) = snapshot.log
    BY <1>2, <1>3 DEF Ahead, Working
<1>5. c \in Payload /\ Units(c) \in Nat
    BY <1>1, <1>4, LastIn, UnitsType
<1>6. g \in Seq(Payload) /\ proc[x].last_sequence \in Nat /\ proc[x].journal_bytes \in Nat
    BY <1>1 DEF Process
<1> HIDE DEF c, g
<1>7. /\ Append(g, c) \in Seq(Payload) /\ Len(Append(g, c)) = Len(g) + 1 /\ Len(g) \in Nat
      /\ \A n \in 0 .. Len(g) : SubSeq(Append(g, c), 1, n) = SubSeq(g, 1, n)
    BY <1>5, <1>6, Extended
<1>8. p \in Process /\ p.stage = "busy" /\ p.log = Append(g, c)
    BY <1>5, <1>6, <1>7 DEF Process, Stage
<1>9. Len(snapshot.log) \in 0 .. Len(g)
    <2>1. snapshot.log \in Seq(Payload)
        BY <1>1
    <2> QED BY <1>4, <1>7, <2>1
<1> HIDE DEF p
<1>10. Ahead(p, snapshot', journal')
    <2>1. /\ Len(snapshot.log) <= Len(Append(g, c))
          /\ SubSeq(Append(g, c), 1, Len(snapshot.log)) = snapshot.log
        BY <1>4, <1>7, <1>9
    <2> QED BY <1>2, <1>8, <2>1 DEF Ahead
<1>11. Typed(snapshot', journal', acked')
    BY <1>1, <1>2, <1>5 DEF Typed
<1>12. Advances(x, p)
    BY <1>1, <1>2, <1>3, <1>8, <1>10, <1>11 DEF Advances
<1> QED BY <1>2, <1>3, <1>12, AdvanceOpen


\* What a step may do to the snapshot.
Advanced ==
    /\ Len(snapshot.log) <= Len(snapshot'.log)
    /\ SubSeq(snapshot'.log, 1, Len(snapshot.log)) = snapshot.log

LEMMA AdvanceReplace ==
    ASSUME AdvanceInv, LockExcludes, NEW x \in Processes, ReplaceSnapshot(x)
    PROVE  AdvanceInv' /\ Advanced
<1> DEFINE p == [proc[x] EXCEPT !.stage = "replaced"]
<1>1. /\ proc[x] \in Process /\ journal \in Seq(Piece) /\ acked \in Seq(Payload)
      /\ lock \in Runtimes \cup {Nobody} /\ proc \in [Processes -> Process]
    BY DEF AdvanceInv, TypeOK
<1>2. /\ proc[x].stage = "staged" /\ UNCHANGED <<lock, journal, acked>>
      /\ proc' = [proc EXCEPT ![x] = p]
      /\ snapshot' = [log |-> proc[x].log, last_sequence |-> proc[x].last_sequence]
    BY <1>1 DEF ReplaceSnapshot
<1>3. /\ x \in Runtimes /\ x \notin Inspectors /\ proc[x].stage # "closed"
      /\ Ahead(proc[x], snapshot, journal)
    BY <1>2, WorkerIsRuntime
<1>4. p \in Process /\ p.stage = "replaced" /\ p.log = proc[x].log
    <2>1. "replaced" \in Stage
        BY DEF Stage
    <2> QED BY <1>1, <2>1, StageUpdate
<1>5. proc[x].log \in Seq(Payload) /\ proc[x].last_sequence \in Nat
    BY <1>1 DEF Process
<1> HIDE DEF p
<1>6. Ahead(p, snapshot', journal')
    <2>1. SubSeq(proc[x].log, 1, Len(proc[x].log)) = proc[x].log
          /\ Len(proc[x].log) <= Len(proc[x].log) /\ snapshot'.log = proc[x].log
        BY <1>2, <1>5, SubSeqFull
    <2> QED BY <1>4, <2>1 DEF Ahead
<1>7. Typed(snapshot', journal', acked')
    BY <1>1, <1>2, <1>5 DEF Typed
<1>8. Advances(x, p)
    BY <1>1, <1>2, <1>3, <1>4, <1>6, <1>7 DEF Advances
<1>9. Advanced
    BY <1>2, <1>3 DEF Ahead, Working, Advanced
<1> QED BY <1>3, <1>8, <1>9, AdvanceOpen

LEMMA AdvanceReset ==
    ASSUME AdvanceInv, LockExcludes, NEW x \in Processes, ResetJournal(x)
    PROVE  AdvanceInv' /\ UNCHANGED snapshot
<1> DEFINE p == [proc[x] EXCEPT !.stage = "ready", !.journal_bytes = 0]
<1>1. /\ proc[x] \in Process /\ acked \in Seq(Payload)
      /\ snapshot \in [log : Seq(Payload), last_sequence : Nat]
      /\ lock \in Runtimes \cup {Nobody} /\ proc \in [Processes -> Process]
    BY DEF AdvanceInv, TypeOK
<1>2. /\ proc[x].stage = "replaced" /\ UNCHANGED <<lock, snapshot, acked>>
      /\ proc' = [proc EXCEPT ![x] = p] /\ journal' \in Seq(Piece)
    BY <1>1 DEF ResetJournal
<1>3. /\ x \in Runtimes /\ x \notin Inspectors /\ proc[x].stage # "closed"
      /\ Ahead(proc[x], snapshot, journal)
    BY <1>2, WorkerIsRuntime
<1>4. p \in Process /\ p.stage = "ready" /\ p.log = proc[x].log
    BY <1>1 DEF Process, Stage
<1> HIDE DEF p
<1>5. Ahead(p, snapshot', journal')
    BY <1>2, <1>3, <1>4 DEF Ahead, Working
<1>6. Typed(snapshot', journal', acked')
    BY <1>1, <1>2 DEF Typed
<1>7. Advances(x, p)
    BY <1>1, <1>2, <1>3, <1>4, <1>5, <1>6 DEF Advances
<1> QED BY <1>2, <1>3, <1>7, AdvanceOpen

LEMMA AdvanceNext ==
    ASSUME AdvanceInv, LockExcludes, [Next]_vars
    PROVE  AdvanceInv' /\ Advanced
<1>1. UNCHANGED snapshot => Advanced
    <2>1. snapshot.log \in Seq(Payload)
        BY DEF AdvanceInv, TypeOK
    <2>2. SubSeq(snapshot.log, 1, Len(snapshot.log)) = snapshot.log
          /\ Len(snapshot.log) <= Len(snapshot.log)
        BY <2>1, SubSeqFull
    <2> QED BY <2>2 DEF Advanced
<1>2. CASE UNCHANGED vars
    BY <1>1, <1>2 DEF vars, AdvanceInv, TypeOK, Ahead, Reader, Working
<1>3. CASE Next
    <2>1. PICK x \in Processes :
              \/ OpenFiles(x) \/ LoadSnapshot(x) \/ ReplayJournal(x)
              \/ \E p \in Payload : StartAppend(x, p) \/ RefuseAppend(x, p)
              \/ CompleteAppend(x) \/ Acknowledge(x) \/ FailAppend(x)
              \/ EndCall(x) \/ ReplaceSnapshot(x) \/ ResetJournal(x)
              \/ FailCompaction(x) \/ Exit(x)
        BY <1>3 DEF Next
    <2>2. CASE ReplaceSnapshot(x)
        BY <2>2, AdvanceReplace
    <2>3. CASE Exit(x)
        BY <1>1, <2>3, AdvanceGone DEF Exit
    <2> QED BY <1>1, <2>1, <2>2, <2>3, AdvanceReading, AdvanceReplay, AdvanceAppending,
               AdvanceComplete, AdvanceAcknowledge, AdvanceReset
<1> QED BY <1>2, <1>3

LEMMA AdvanceInvariant == Spec => []AdvanceInv
<1>1. Init => AdvanceInv
    <2> SUFFICES ASSUME Init PROVE AdvanceInv
        OBVIOUS
    <2>1. proc = [x \in Processes |-> ClosedProcess] /\ ClosedProcess \in Process
        BY AdvanceClosed DEF Init
    <2>2. \A x \in Processes : proc[x] = ClosedProcess
        BY <2>1
    <2>3. TypeOK
        <3>1. journal \in Seq(Piece) /\ acked \in Seq(Payload)
              /\ snapshot \in [log : Seq(Payload), last_sequence : Nat]
            BY DEF Init
        <3> QED BY <2>1, <3>1 DEF Init, TypeOK
    <2> QED BY <2>2, <2>3, AdvanceClosed DEF AdvanceInv, Processes
<1>2. AdvanceInv /\ LockExcludes /\ [Next]_vars => AdvanceInv'
    BY AdvanceNext
<1> QED BY <1>1, <1>2, LockHeld, PTL DEF Spec

\* Every variable keeps its type, whatever fails: the debris of failed appends
\* and of failed compactions are still pieces of records.
THEOREM StoreTyped == Spec => []TypeOK
<1>1. AdvanceInv => TypeOK
    BY DEF AdvanceInv
<1> QED BY <1>1, AdvanceInvariant, PTL

\* Whatever fails, and whatever a later incarnation makes of the debris in the
\* journal, a snapshot extends the one it replaces: no compaction drops a record
\* an earlier one had made durable.
THEOREM SnapshotsAdvance == Spec => SnapshotOnlyAdvances
<1>1. AdvanceInv /\ LockExcludes /\ [Next]_vars
          => [IsPrefix(snapshot.log, snapshot'.log)]_vars
    <2> SUFFICES ASSUME AdvanceInv, LockExcludes, [Next]_vars
                 PROVE  IsPrefix(snapshot.log, snapshot'.log)
        OBVIOUS
    <2>1. Advanced
        BY AdvanceNext
    <2>2. snapshot.log \in Seq(Payload)
        BY DEF AdvanceInv, TypeOK
    <2>3. SubSeq(snapshot.log, 1, Len(snapshot.log)) = snapshot.log
        BY <2>2, SubSeqFull
    <2> QED BY <2>1, <2>3 DEF Advanced, IsPrefix
<1> QED BY <1>1, AdvanceInvariant, LockHeld, PTL DEF Spec, SnapshotOnlyAdvances
==============================================================================
