------------------------------ MODULE WireProofs ------------------------------
(***************************************************************************)
(* Proofs about Wire: what is written is read back, what is read is        *)
(* spelled in one way only, and nothing is read from a part.               *)
(***************************************************************************)
EXTENDS Wire, SequenceTheorems, NaturalsInduction, WellFoundedInduction, TLAPS

-----------------------------------------------------------------------------
(* Recursive functions over 0 .. N.  An induction is an argument about the *)
(* least number at which its statement would fail.                         *)

\* What holds at 0 and passes from each number to the next holds up to N.
LEMMA Climb ==
    ASSUME NEW N \in Nat, NEW I, 0 \in I,
           \A n \in 1 .. N : n - 1 \in I => n \in I
    PROVE  0 .. N \subseteq I
<1> DEFINE Bad == {n \in 0 .. N : n \notin I}
           R == {ss \in Nat \X Nat : ss[1] < ss[2]}
<1>1. SUFFICES ASSUME Bad # {}
               PROVE  FALSE
    OBVIOUS
<1>2. IsWellFoundedOn(R, Nat)
    BY NatLessThanWellFounded DEF OpToRel
<1>3. PICK n \in Bad : \A m \in Bad : ~(<<m, n>> \in R)
    <2>1. Bad \subseteq Nat
        OBVIOUS
    <2> HIDE DEF R, Bad
    <2> QED BY <1>1, <1>2, <2>1, WFMin
<1>4. n \in 1 .. N /\ n - 1 \in 0 .. N /\ n - 1 < n /\ n - 1 \in Nat /\ n \in Nat
    BY <1>3
<1>5. n - 1 \notin Bad
    BY <1>3, <1>4
<1> QED BY <1>3, <1>4, <1>5

\* f starts with a, goes on with g, and has its values in the sets W[n].
Runs(f, N, W, a, g) ==
    /\ f = [n \in 0 .. N |-> IF n = 0 THEN a ELSE g[<<n, f[n - 1]>>]]
    /\ \A n \in 0 .. N : f[n] \in W[n]

\* Such a function exists, if g leads from each of the sets to the next.
LEMMA Recursion ==
    ASSUME NEW N \in Nat, NEW W, NEW a, NEW g, a \in W[0],
           \A n \in 1 .. N : \A v \in W[n - 1] : g[<<n, v>>] \in W[n]
    PROVE  \E f : Runs(f, N, W, a, g)
<1> DEFINE I == {m \in 0 .. N : \E f : Runs(f, m, W, a, g)}
<1>1. 0 \in I
    <2> DEFINE f == [n \in 0 .. 0 |-> a]
    <2>1. \A n \in 0 .. 0 : n = 0
        OBVIOUS
    <2>2. f = [n \in 0 .. 0 |-> IF n = 0 THEN a ELSE g[<<n, f[n - 1]>>]]
        BY <2>1
    <2>3. \A n \in 0 .. 0 : f[n] \in W[n]
        BY <2>1
    <2>4. Runs(f, 0, W, a, g)
        BY <2>2, <2>3 DEF Runs
    <2> HIDE DEF f
    <2> QED BY <2>4
<1>2. ASSUME NEW m \in 1 .. N, m - 1 \in I
      PROVE  m \in I
    <2>0. PICK f : Runs(f, m - 1, W, a, g)
        BY <1>2
    <2>1. /\ f = [n \in 0 .. m - 1 |-> IF n = 0 THEN a ELSE g[<<n, f[n - 1]>>]]
          /\ \A n \in 0 .. m - 1 : f[n] \in W[n]
        BY <2>0 DEF Runs
    <2> DEFINE h == [n \in 0 .. m |-> IF n = m THEN g[<<m, f[m - 1]>>] ELSE f[n]]
    <2>2. m - 1 \in 0 .. m - 1 /\ m \in 0 .. m /\ m # 0
        OBVIOUS
    <2>3. \A n \in 0 .. m : n # m => n \in 0 .. m - 1
        OBVIOUS
    <2>4. \A n \in 0 .. m - 1 : h[n] = f[n] /\ n \in 0 .. m
        OBVIOUS
    <2>5. \A n \in 0 .. m - 1 : f[n] = IF n = 0 THEN a ELSE g[<<n, f[n - 1]>>]
        BY <2>1
    <2>6. h[m] = g[<<m, f[m - 1]>>]
        BY <2>2
    <2>7. ASSUME NEW n \in 0 .. m
          PROVE  h[n] = IF n = 0 THEN a ELSE g[<<n, h[n - 1]>>]
        <3>1. n # 0 => n - 1 \in 0 .. m - 1
            OBVIOUS
        <3>2. n # 0 => h[n - 1] = f[n - 1]
            BY <2>4, <3>1
        <3>3. CASE n = m
            BY <2>2, <2>6, <3>2, <3>3
        <3>4. CASE n # m
            BY <2>3, <2>4, <2>5, <3>2, <3>4
        <3> QED BY <3>3, <3>4
    <2>8. ASSUME NEW n \in 0 .. m
          PROVE  h[n] \in W[n]
        <3>1. CASE n = m
            BY <1>2, <2>1, <2>2, <2>6, <3>1
        <3>2. CASE n # m
            BY <2>1, <2>3, <2>4, <3>2
        <3> QED BY <3>1, <3>2
    <2>9. h = [n \in 0 .. m |-> h[n]]
        OBVIOUS
    <2> HIDE DEF h
    <2>10. h = [n \in 0 .. m |-> IF n = 0 THEN a ELSE g[<<n, h[n - 1]>>]]
        BY <2>7, <2>9
    <2>11. Runs(h, m, W, a, g)
        BY <2>8, <2>10 DEF Runs
    <2>12. m \in 0 .. N
        OBVIOUS
    <2> QED BY <2>11, <2>12
<1>3. 0 .. N \subseteq I
    <2> HIDE DEF I
    <2> QED BY <1>1, <1>2, Climb
<1>4. N \in I
    <2> HIDE DEF I
    <2> QED BY <1>3
<1> QED BY <1>4

-----------------------------------------------------------------------------
(* Numbers and their bytes. *)

Byte == 0 .. Base - 1

LEMMA BaseFacts == Base \in Nat /\ Base >= 14 /\ Base > 0
BY WireAssumption

LEMMA DivisionOf ==
    ASSUME NEW B \in Nat, B > 0, NEW n \in Nat, NEW q, NEW r, q = n \div B, r = n % B
    PROVE  q \in Nat /\ r \in Nat /\ n = q * B + r
BY SMTT(30)

LEMMA Division ==
    ASSUME NEW B \in Nat, B > 0, NEW n \in Nat
    PROVE  /\ n \div B \in Nat /\ n % B \in Nat /\ n % B \in 0 .. B - 1
           /\ n = (n \div B) * B + (n % B)
<1>1. n % B \in 0 .. B - 1
    OBVIOUS
<1> DEFINE q == n \div B
           r == n % B
<1>2. q = n \div B /\ r = n % B
    OBVIOUS
<1> HIDE DEF q, r
<1>3. q \in Nat /\ r \in Nat /\ n = q * B + r
    BY <1>2, DivisionOf
<1> QED BY <1>1, <1>2, <1>3

LEMMA Quotient ==
    ASSUME NEW B \in Nat, B > 0, NEW n \in Nat, NEW r \in 0 .. B - 1
    PROVE  (n * B + r) \div B = n /\ (n * B + r) % B = r
OBVIOUS

LEMMA DivideTwice ==
    ASSUME NEW a \in Nat, a > 0, NEW B \in Nat, B > 0, NEW n \in Nat
    PROVE  n \div (a * B) = (n \div a) \div B
OBVIOUS

LEMMA ValuesFacts ==
    /\ Values[0] = 1
    /\ \A w \in 1 .. 8 : Values[w] = Values[w - 1] * Base
    /\ \A w \in 0 .. 8 : Values[w] \in Nat /\ Values[w] > 0
<1> DEFINE F(h) == [w \in 0 .. 8 |-> IF w = 0 THEN 1 ELSE h[w - 1] * Base]
           P == Nat \ {0}
           W == [w \in 0 .. 8 |-> P]
           g == [p \in (1 .. 8) \X P |-> p[2] * Base]
<1>1. \A w \in 1 .. 8 : w - 1 \in 0 .. 8 /\ w \in 0 .. 8
    OBVIOUS
<1>2. ASSUME NEW w \in 1 .. 8, NEW v \in P
      PROVE  v * Base \in P /\ g[<<w, v>>] = v * Base
    BY BaseFacts
<1>3. PICK f : Runs(f, 8, W, 1, g)
    <2>1. 1 \in W[0]
        OBVIOUS
    <2>2. \A n \in 1 .. 8 : \A v \in W[n - 1] : g[<<n, v>>] \in W[n]
        BY <1>1, <1>2
    <2> HIDE DEF W, g
    <2> QED BY <2>1, <2>2, Recursion
<1>4. f = F(f)
    <2>1. /\ f = [n \in 0 .. 8 |-> IF n = 0 THEN 1 ELSE g[<<n, f[n - 1]>>]]
          /\ \A n \in 0 .. 8 : f[n] \in W[n]
        <3> HIDE DEF W, g
        <3> QED BY <1>3 DEF Runs
    <2>2. \A n \in 0 .. 8 : n # 0 => g[<<n, f[n - 1]>>] = f[n - 1] * Base
        <3> SUFFICES ASSUME NEW n \in 0 .. 8, n # 0
                     PROVE  g[<<n, f[n - 1]>>] = f[n - 1] * Base
            OBVIOUS
        <3>1. n \in 1 .. 8 /\ f[n - 1] \in P
            BY <1>1, <2>1
        <3> HIDE DEF g
        <3> QED BY <1>2, <3>1
    <2> HIDE DEF g
    <2> QED BY <2>1, <2>2
<1>5. Values = F(Values)
    <2> HIDE DEF F
    <2>1. \E h : h = F(h)
        BY <1>4
    <2>2. Values = CHOOSE h : h = F(h)
        BY DEF Values, F
    <2> QED BY <2>1, <2>2
<1>6. \A w \in 0 .. 8 : Values[w] = IF w = 0 THEN 1 ELSE Values[w - 1] * Base
    BY <1>5
<1>7. Values[0] = 1 /\ \A w \in 1 .. 8 : Values[w] = Values[w - 1] * Base
    BY <1>1, <1>6
<1> DEFINE I == {w \in 0 .. 8 : Values[w] \in P}
<1>8. 0 \in I
    BY <1>7
<1>9. ASSUME NEW w \in 1 .. 8, w - 1 \in I
      PROVE  w \in I
    <2>1. Values[w - 1] \in P /\ w \in 0 .. 8
        BY <1>9
    <2>2. Values[w] \in P
        BY <1>2, <1>7, <2>1
    <2> QED BY <2>1, <2>2
<1>10. 0 .. 8 \subseteq I
    <2> HIDE DEF I
    <2> QED BY <1>8, <1>9, Climb
<1> QED BY <1>7, <1>10

\* A reader sums up w bytes from the last to the first.
Sums(b, o, w, h) ==
    /\ h \in [0 .. w -> Nat]
    /\ h[0] = 0
    /\ \A i \in 1 .. w : h[i] = h[i - 1] * Base + b[o + w - i + 1]

LEMMA NumberSums ==
    ASSUME NEW b \in Seq(Byte), NEW o \in Nat, NEW w \in Nat, o + w <= Len(b)
    PROVE  \E h : Sums(b, o, w, h) /\ Number(b, o, w) = h[w]
<1> DEFINE F(h) == [i \in 0 .. w |-> IF i = 0 THEN 0 ELSE h[i - 1] * Base + b[o + w - i + 1]]
           W == [i \in 0 .. w |-> Nat]
           g == [p \in (1 .. w) \X Nat |-> p[2] * Base + b[o + w - p[1] + 1]]
           h == CHOOSE h : h = F(h)
<1>1. \A i \in 1 .. w : i - 1 \in 0 .. w /\ i \in 0 .. w
    OBVIOUS
<1>2. ASSUME NEW i \in 1 .. w, NEW v \in Nat
      PROVE  v * Base + b[o + w - i + 1] \in Nat /\ g[<<i, v>>] = v * Base + b[o + w - i + 1]
    <2>1. o + w - i + 1 \in 1 .. Len(b)
        OBVIOUS
    <2>2. b[o + w - i + 1] \in Nat
        BY <2>1, BaseFacts DEF Byte
    <2>3. v * Base \in Nat
        BY BaseFacts
    <2>4. g[<<i, v>>] = v * Base + b[o + w - i + 1]
        OBVIOUS
    <2> DEFINE x == v * Base
               y == b[o + w - i + 1]
    <2>5. x \in Nat /\ y \in Nat
        BY <2>2, <2>3
    <2> HIDE DEF x, y
    <2>6. x + y \in Nat
        BY <2>5
    <2> QED BY <2>4, <2>6 DEF x, y
<1>3. PICK f : Runs(f, w, W, 0, g)
    <2>1. 0 \in W[0]
        OBVIOUS
    <2>2. \A n \in 1 .. w : \A v \in W[n - 1] : g[<<n, v>>] \in W[n]
        BY <1>1, <1>2
    <2> HIDE DEF W, g
    <2> QED BY <2>1, <2>2, Recursion
<1>4. f = F(f)
    <2>1. /\ f = [n \in 0 .. w |-> IF n = 0 THEN 0 ELSE g[<<n, f[n - 1]>>]]
          /\ \A n \in 0 .. w : f[n] \in W[n]
        <3> HIDE DEF W, g
        <3> QED BY <1>3 DEF Runs
    <2>2. ASSUME NEW n \in 0 .. w, n # 0
          PROVE  g[<<n, f[n - 1]>>] = f[n - 1] * Base + b[o + w - n + 1]
        <3>1. n \in 1 .. w /\ n - 1 \in 0 .. w
            BY <2>2
        <3>2. f[n - 1] \in W[n - 1] /\ W[n - 1] = Nat
            BY <2>1, <3>1
        <3> HIDE DEF g, W
        <3> QED BY <1>2, <3>1, <3>2
    <2> HIDE DEF g
    <2> QED BY <2>1, <2>2
<1>5. h = F(h)
    <2> HIDE DEF F
    <2> QED BY <1>4
<1>6. Number(b, o, w) = h[w]
    BY DEF Number
<1> HIDE DEF h
<1>7. h = [i \in 0 .. w |-> h[i]]
    BY <1>5
<1>8. \A i \in 0 .. w : h[i] = IF i = 0 THEN 0 ELSE h[i - 1] * Base + b[o + w - i + 1]
    BY <1>5
<1>9. h[0] = 0 /\ \A i \in 1 .. w : h[i] = h[i - 1] * Base + b[o + w - i + 1]
    BY <1>1, <1>8
<1> DEFINE I == {i \in 0 .. w : h[i] \in Nat}
<1>10. 0 \in I
    BY <1>9
<1>11. ASSUME NEW i \in 1 .. w, i - 1 \in I
       PROVE  i \in I
    <2>1. h[i - 1] \in Nat /\ i \in 0 .. w
        BY <1>11
    <2>2. h[i] \in Nat
        BY <1>2, <1>9, <2>1
    <2> QED BY <2>1, <2>2
<1>12. 0 .. w \subseteq I
    <2> HIDE DEF I
    <2> QED BY <1>10, <1>11, Climb
<1>13. h \in [0 .. w -> Nat]
    BY <1>7, <1>12
<1> QED BY <1>6, <1>9, <1>13 DEF Sums

LEMMA NumberType ==
    ASSUME NEW b \in Seq(Byte), NEW o \in Nat, NEW w \in 0 .. 8, o + w <= Len(b)
    PROVE  Number(b, o, w) \in Nat /\ Number(b, o, w) < Values[w]
<1>0. w \in Nat
    OBVIOUS
<1>1. PICK h : Sums(b, o, w, h) /\ Number(b, o, w) = h[w]
    BY <1>0, NumberSums
<1> DEFINE I == {i \in 0 .. w : h[i] < Values[i]}
<1>2. 0 \in I
    <2>1. h[0] = 0 /\ Values[0] = 1
        BY <1>1, ValuesFacts DEF Sums
    <2>2. 0 \in 0 .. w
        OBVIOUS
    <2> QED BY <2>1, <2>2
<1>3. ASSUME NEW i \in 1 .. w, i - 1 \in I
      PROVE  i \in I
    <2>1. /\ i - 1 \in 0 .. w /\ i \in 0 .. w /\ i \in 1 .. 8 /\ i - 1 \in 0 .. 8
          /\ h[i - 1] < Values[i - 1]
        BY <1>3
    <2> DEFINE x == h[i - 1]
               y == Values[i - 1]
               z == b[o + w - i + 1]
    <2>2. x \in Nat /\ y \in Nat /\ x < y
        BY <1>1, <2>1, ValuesFacts DEF Sums
    <2>3. z \in Nat /\ z < Base
        <3>1. o + w - i + 1 \in 1 .. Len(b)
            OBVIOUS
        <3> QED BY <3>1, BaseFacts DEF Byte
    <2>4. h[i] = x * Base + z /\ Values[i] = y * Base
        BY <1>1, <2>1, ValuesFacts DEF Sums
    <2> HIDE DEF x, y, z
    <2>5. x * Base + Base <= y * Base
        <3>1. y - x - 1 \in Nat
            BY <2>2
        <3>2. (y - x - 1) * Base \in Nat
            BY <3>1, BaseFacts
        <3>3. (y - x - 1) * Base = y * Base - x * Base - Base
            BY <2>2, BaseFacts
        <3>4. x * Base \in Nat /\ y * Base \in Nat
            BY <2>2, BaseFacts
        <3> QED BY <3>2, <3>3, <3>4, BaseFacts
    <2>6. x * Base \in Nat /\ y * Base \in Nat
        BY <2>2, BaseFacts
    <2> QED BY <2>1, <2>3, <2>4, <2>5, <2>6, BaseFacts
<1>4. 0 .. w \subseteq I
    <2> HIDE DEF I
    <2> QED BY <1>2, <1>0, <1>3, Climb
<1> QED BY <1>1, <1>4 DEF Sums

\* The bytes of the number that was read are the bytes that it was read from.
LEMMA DigitsOfNumber ==
    ASSUME NEW b \in Seq(Byte), NEW o \in Nat, NEW w \in 0 .. 8, o + w <= Len(b)
    PROVE  \A i \in 1 .. w : Digits(Number(b, o, w), w)[i] = b[o + i]
<1> DEFINE n == Number(b, o, w)
<1>0. w \in Nat
    OBVIOUS
<1>1. PICK h : Sums(b, o, w, h) /\ n = h[w]
    BY <1>0, NumberSums
<1>2. n \in Nat
    BY NumberType
<1> HIDE DEF n
<1>3. ASSUME NEW i \in 1 .. w
      PROVE  /\ h[w - i + 1] \div Base = h[w - i]
             /\ h[w - i + 1] % Base = b[o + i]
    <2> DEFINE x == h[w - i]
               z == b[o + i]
    <2>1. w - i + 1 \in 1 .. w /\ w - i \in 0 .. w /\ (w - i + 1) - 1 = w - i
          /\ o + w - (w - i + 1) + 1 = o + i /\ o + i \in 1 .. Len(b)
        OBVIOUS
    <2>2. x \in Nat /\ z \in 0 .. Base - 1
        <3>1. z \in Byte
            BY <2>1
        <3> QED BY <1>1, <2>1, <3>1 DEF Sums, Byte
    <2>3. h[w - i + 1] = x * Base + z
        BY <1>1, <2>1 DEF Sums
    <2> HIDE DEF x, z
    <2>4. (x * Base + z) \div Base = x /\ (x * Base + z) % Base = z
        BY <2>2, BaseFacts, Quotient
    <2> QED BY <2>3, <2>4 DEF x, z
<1> DEFINE I == {i \in 0 .. w : n \div Values[i] = h[w - i]}
<1>4. 0 \in I
    <2>1. n \div 1 = n
        BY <1>2
    <2>2. w - 0 = w /\ 0 \in 0 .. w
        OBVIOUS
    <2>3. Values[0] = 1 /\ n = h[w]
        BY <1>1, ValuesFacts
    <2>4. n \div Values[0] = h[w - 0]
        BY <2>1, <2>2, <2>3
    <2> QED BY <2>2, <2>4
<1>5. ASSUME NEW i \in 1 .. w, i - 1 \in I
      PROVE  i \in I
    <2>1. /\ i \in 0 .. w /\ i \in 1 .. 8 /\ i - 1 \in 0 .. 8 /\ w - (i - 1) = w - i + 1
          /\ n \div Values[i - 1] = h[w - (i - 1)]
        BY <1>5
    <2>2. Values[i - 1] \in Nat /\ Values[i - 1] > 0 /\ Values[i] = Values[i - 1] * Base
        BY <2>1, ValuesFacts
    <2>3. n \div (Values[i - 1] * Base) = (n \div Values[i - 1]) \div Base
        <3> DEFINE v == Values[i - 1]
        <3> HIDE DEF v
        <3>1. n \div (v * Base) = (n \div v) \div Base
            BY <1>2, <2>2, BaseFacts, DivideTwice DEF v
        <3> QED BY <3>1 DEF v
    <2>4. n \div Values[i] = h[w - i]
        BY <1>3, <2>1, <2>2, <2>3
    <2> QED BY <2>1, <2>4
<1>6. 0 .. w \subseteq I
    <2> HIDE DEF I
    <2> QED BY <1>0, <1>4, <1>5, Climb
<1>7. ASSUME NEW i \in 1 .. w
      PROVE  Digits(n, w)[i] = b[o + i]
    <2>1. i - 1 \in 0 .. w /\ w - (i - 1) = w - i + 1
        OBVIOUS
    <2>2. n \div Values[i - 1] = h[w - i + 1]
        BY <1>6, <2>1
    <2>3. Digits(n, w)[i] = (n \div Values[i - 1]) % Base
        BY DEF Digits
    <2> QED BY <1>3, <2>2, <2>3
<1> QED BY <1>7 DEF n

LEMMA DigitsType ==
    ASSUME NEW n \in Nat, NEW w \in 0 .. 8
    PROVE  Digits(n, w) \in Seq(Byte) /\ Len(Digits(n, w)) = w
<1>1. ASSUME NEW i \in 1 .. w
      PROVE  (n \div Values[i - 1]) % Base \in Byte
    <2> DEFINE v == Values[i - 1]
               q == n \div v
    <2>1. v \in Nat /\ v > 0
        BY ValuesFacts
    <2>2. q \in Nat
        <3> HIDE DEF v
        <3> QED BY <2>1, Division
    <2> HIDE DEF q
    <2>3. q % Base \in 0 .. Base - 1
        BY <2>2, BaseFacts, Division
    <2> QED BY <2>3 DEF Byte, q
<1>2. Digits(n, w) \in [1 .. w -> Byte]
    BY <1>1 DEF Digits
<1> QED BY <1>2

\* From the bytes of a number that w bytes can hold, the number is read.
LEMMA NumberOfDigits ==
    ASSUME NEW b \in Seq(Byte), NEW o \in Nat, NEW w \in 0 .. 8, o + w <= Len(b),
           NEW n \in Nat, n < Values[w], \A i \in 1 .. w : b[o + i] = Digits(n, w)[i]
    PROVE  Number(b, o, w) = n
<1>0. w \in Nat
    OBVIOUS
<1>1. PICK h : Sums(b, o, w, h) /\ Number(b, o, w) = h[w]
    BY <1>0, NumberSums
<1> DEFINE I == {i \in 0 .. w : h[i] = n \div Values[w - i]}
<1>2. 0 \in I
    <2> DEFINE v == Values[w]
    <2>1. v \in Nat /\ v > 0
        BY ValuesFacts
    <2>1a. n < v /\ w - 0 = w
        OBVIOUS
    <2> HIDE DEF v
    <2>2. n \div v = 0
        BY <2>1, <2>1a
    <2> QED BY <1>0, <1>1, <2>1a, <2>2 DEF Sums, v
<1>3. ASSUME NEW i \in 1 .. w, i - 1 \in I
      PROVE  i \in I
    <2> DEFINE v == Values[w - i]
               q == n \div v
    <2>1. /\ w - i \in 0 .. 8 /\ w - i + 1 \in 1 .. 8 /\ (w - i + 1) - 1 = w - i
          /\ w - (i - 1) = w - i + 1 /\ w - i + 1 \in 1 .. w
          /\ o + w - i + 1 = o + (w - i + 1) /\ i \in 0 .. w
          /\ h[i - 1] = n \div Values[w - (i - 1)]
        BY <1>3
    <2>2. v \in Nat /\ v > 0 /\ Values[w - i + 1] = v * Base
        BY <2>1, ValuesFacts
    <2> HIDE DEF v
    <2>3. q \in Nat /\ n \div (v * Base) = q \div Base
        BY <2>2, BaseFacts, Division, DivideTwice
    <2>4. Digits(n, w)[w - i + 1] = (n \div Values[(w - i + 1) - 1]) % Base
        <3> DEFINE k == w - i + 1
        <3> HIDE DEF k
        <3>1. Digits(n, w)[k] = (n \div Values[k - 1]) % Base
            BY <2>1 DEF Digits, k
        <3> QED BY <3>1 DEF k
    <2>5. b[o + w - i + 1] = q % Base
        BY <2>1, <2>4 DEF v
    <2>6. h[i] = (q \div Base) * Base + (q % Base)
        <3>1. h[i] = h[i - 1] * Base + b[o + w - i + 1]
            BY <1>1 DEF Sums
        <3> QED BY <2>1, <2>2, <2>3, <2>5, <3>1
    <2> HIDE DEF q
    <2>7. h[i] = q
        BY <2>3, <2>6, BaseFacts, Division
    <2> QED BY <2>1, <2>7 DEF q, v
<1>4. 0 .. w \subseteq I
    <2> HIDE DEF I
    <2> QED BY <1>2, <1>0, <1>3, Climb
<1>5. h[w] = n \div Values[w - w] /\ w - w = 0
    <2>1. w \in 0 .. w /\ w - w = 0
        OBVIOUS
    <2>2. w \in I
        BY <1>4, <2>1
    <2> QED BY <2>1, <2>2
<1>6. n \div 1 = n
    OBVIOUS
<1> QED BY <1>1, <1>5, <1>6, ValuesFacts

-----------------------------------------------------------------------------
(* What is written one after the other. *)

\* The bytes p stand at the offset; those of them that are there do.
Holds(b, o, p) == o + Len(p) <= Len(b) /\ \A i \in 1 .. Len(p) : b[o + i] = p[i]
Matches(b, o, p) == \A i \in 1 .. Len(p) : o + i <= Len(b) => b[o + i] = p[i]

\* Where each of n pieces ends.
Ends(n, s, t) ==
    /\ t \in [0 .. n -> Nat]
    /\ t[0] = 0
    /\ \A i \in 1 .. n : t[i] = t[i - 1] + Len(s[i])

\* c is the first m pieces.
Joined(S, s, t, m, c) ==
    /\ c \in Seq(S)
    /\ Len(c) = t[m]
    /\ \A i \in 1 .. m : t[i] <= t[m] /\ \A j \in 1 .. Len(s[i]) : c[t[i - 1] + j] = s[i][j]
    /\ \A k \in 1 .. t[m] : \E i \in 1 .. m : \E j \in 1 .. Len(s[i]) : k = t[i - 1] + j

LEMMA JoinOne ==
    ASSUME NEW S, NEW n \in Nat, NEW s \in [1 .. n -> Seq(S)], NEW t, Ends(n, s, t),
           NEW m \in 1 .. n, NEW c, Joined(S, s, t, m - 1, c)
    PROVE  Joined(S, s, t, m, c \o s[m])
<1> DEFINE d == c \o s[m]
           x == t[m - 1]
<1>1. /\ c \in Seq(S) /\ Len(c) = x /\ x \in Nat /\ m - 1 \in 0 .. n /\ m \in 0 .. n
      /\ s[m] \in Seq(S) /\ Len(s[m]) \in Nat /\ t[m] = x + Len(s[m])
    BY DEF Joined, Ends
<1>2. /\ d \in Seq(S) /\ Len(d) = x + Len(s[m])
      /\ \A k \in 1 .. x : d[k] = c[k]
      /\ \A k \in 1 .. Len(s[m]) : d[x + k] = s[m][k]
    <2> HIDE DEF x
    <2>1. \A u \in Seq(S), v \in Seq(S) :
            /\ u \o v \in Seq(S) /\ Len(u \o v) = Len(u) + Len(v)
            /\ \A k \in 1 .. Len(u) : (u \o v)[k] = u[k]
            /\ \A k \in 1 .. Len(v) : (u \o v)[Len(u) + k] = v[k]
        OBVIOUS
    <2> QED BY <1>1, <2>1
<1> HIDE DEF d, x
<1>3. ASSUME NEW i \in 1 .. m
      PROVE  t[i] <= t[m] /\ \A j \in 1 .. Len(s[i]) : d[t[i - 1] + j] = s[i][j]
    <2>1. CASE i = m
        BY <1>1, <1>2, <2>1 DEF x
    <2>2. CASE i # m
        <3>1. i \in 1 .. m - 1 /\ i \in 0 .. n /\ i - 1 \in 0 .. n /\ i \in 1 .. n
            BY <2>2
        <3>2. t[i] <= x /\ \A j \in 1 .. Len(s[i]) : c[t[i - 1] + j] = s[i][j]
            BY <3>1 DEF Joined, x
        <3>3. /\ t[i] = t[i - 1] + Len(s[i]) /\ t[i - 1] \in Nat /\ Len(s[i]) \in Nat
            <4>1. t[i] = t[i - 1] + Len(s[i])
                BY <3>1 DEF Ends
            <4>2. t[i - 1] \in Nat
                BY <3>1 DEF Ends
            <4>3. s[i] \in Seq(S)
                BY <3>1
            <4> QED BY <4>1, <4>2, <4>3
        <3>4. ASSUME NEW j \in 1 .. Len(s[i])
              PROVE  d[t[i - 1] + j] = s[i][j]
            <4>1. t[i - 1] + j \in 1 .. x
                <5> DEFINE y == t[i - 1]
                           l == Len(s[i])
                <5>1. y \in Nat /\ l \in Nat /\ y + l <= x /\ j \in 1 .. l /\ x \in Nat
                    BY <1>1, <3>2, <3>3
                <5> HIDE DEF y, l
                <5>2. y + j \in 1 .. x
                    BY <5>1
                <5> QED BY <5>2 DEF y
            <4> QED BY <1>2, <3>2, <4>1
        <3> QED BY <1>1, <3>2, <3>3, <3>4
    <2> QED BY <2>1, <2>2
<1>4. ASSUME NEW k \in 1 .. t[m]
      PROVE  \E i \in 1 .. m : \E j \in 1 .. Len(s[i]) : k = t[i - 1] + j
    <2>1. CASE k <= x
        <3>1. k \in 1 .. t[m - 1]
            BY <1>1, <2>1 DEF x
        <3>2. PICK i \in 1 .. m - 1 : \E j \in 1 .. Len(s[i]) : k = t[i - 1] + j
            BY <3>1 DEF Joined
        <3>3. i \in 1 .. m
            OBVIOUS
        <3> QED BY <3>2, <3>3
    <2>2. CASE k > x
        <3>1. k - x \in 1 .. Len(s[m]) /\ k = x + (k - x) /\ m \in 1 .. m
            BY <1>1, <2>2
        <3> QED BY <3>1 DEF x
    <2> QED BY <1>1, <2>1, <2>2
<1>5. Len(d) = t[m]
    BY <1>1, <1>2
<1>6. Joined(S, s, t, m, d)
    BY <1>2, <1>3, <1>4, <1>5 DEF Joined
<1> QED BY <1>6 DEF d

LEMMA ConcatJoins ==
    ASSUME NEW S, NEW n \in Nat, NEW s \in [1 .. n -> Seq(S)]
    PROVE  \E t : Ends(n, s, t) /\ Joined(S, s, t, n, Concat(s))
<1> DEFINE F(h) == [i \in 0 .. n |-> IF i = 0 THEN <<>> ELSE h[i - 1] \o s[i]]
           W == [i \in 0 .. n |-> Seq(S)]
           g == [p \in (1 .. n) \X Seq(S) |-> p[2] \o s[p[1]]]
           h == CHOOSE h : h = F(h)
<1>1. \A i \in 1 .. n : i - 1 \in 0 .. n /\ i \in 0 .. n
    OBVIOUS
<1>2. ASSUME NEW i \in 1 .. n, NEW v \in Seq(S)
      PROVE  v \o s[i] \in Seq(S) /\ g[<<i, v>>] = v \o s[i]
    <2>1. s[i] \in Seq(S)
        OBVIOUS
    <2>2. v \o s[i] \in Seq(S)
        BY <2>1
    <2>3. g[<<i, v>>] = v \o s[i]
        OBVIOUS
    <2> QED BY <2>2, <2>3
<1>3. PICK f : Runs(f, n, W, <<>>, g)
    <2>1. <<>> \in W[0]
        OBVIOUS
    <2>2. \A m \in 1 .. n : \A v \in W[m - 1] : g[<<m, v>>] \in W[m]
        <3> SUFFICES ASSUME NEW m \in 1 .. n, NEW v \in W[m - 1]
                     PROVE  g[<<m, v>>] \in W[m]
            OBVIOUS
        <3>1. v \in Seq(S) /\ W[m] = Seq(S)
            BY <1>1
        <3> HIDE DEF g, W
        <3> QED BY <1>2, <3>1
    <2> HIDE DEF W, g
    <2> QED BY <2>1, <2>2, Recursion
<1>4. f = F(f)
    <2>1. /\ f = [i \in 0 .. n |-> IF i = 0 THEN <<>> ELSE g[<<i, f[i - 1]>>]]
          /\ \A i \in 0 .. n : f[i] \in W[i]
        <3> HIDE DEF W, g
        <3> QED BY <1>3 DEF Runs
    <2>2. ASSUME NEW i \in 0 .. n, i # 0
          PROVE  g[<<i, f[i - 1]>>] = f[i - 1] \o s[i]
        <3>1. i \in 1 .. n /\ i - 1 \in 0 .. n
            BY <2>2
        <3>2. f[i - 1] \in W[i - 1] /\ W[i - 1] = Seq(S)
            BY <2>1, <3>1
        <3> HIDE DEF g, W
        <3> QED BY <1>2, <3>1, <3>2
    <2> HIDE DEF g
    <2> QED BY <2>1, <2>2
<1>5. h = F(h)
    <2> HIDE DEF F
    <2> QED BY <1>4
<1>6. Concat(s) = h[n]
    <2>1. Len(s) = n
        OBVIOUS
    <2> QED BY <2>1 DEF Concat
<1> HIDE DEF h
<1>7. \A i \in 0 .. n : h[i] = IF i = 0 THEN <<>> ELSE h[i - 1] \o s[i]
    BY <1>5
<1>8. h[0] = <<>> /\ \A i \in 1 .. n : h[i] = h[i - 1] \o s[i]
    <2>1. h[0] = <<>>
        BY <1>7
    <2>2. ASSUME NEW i \in 1 .. n
          PROVE  h[i] = h[i - 1] \o s[i]
        <3>1. i \in 0 .. n /\ i # 0
            OBVIOUS
        <3> QED BY <1>7, <3>1
    <2> QED BY <2>1, <2>2
<1> DEFINE I == {i \in 0 .. n : h[i] \in Seq(S)}
<1>9. 0 .. n \subseteq I
    <2>1. 0 \in I
        <3>1. <<>> \in Seq(S) /\ 0 \in 0 .. n
            OBVIOUS
        <3> QED BY <1>8, <3>1
    <2>2. ASSUME NEW i \in 1 .. n, i - 1 \in I
          PROVE  i \in I
        BY <1>1, <1>2, <1>8, <2>2
    <2> HIDE DEF I
    <2> QED BY <2>1, <2>2, Climb
<1> DEFINE t == [i \in 0 .. n |-> Len(h[i])]
<1>10. Ends(n, s, t)
    <2>1. t \in [0 .. n -> Nat]
        BY <1>9
    <2>2. t[0] = 0
        BY <1>8
    <2>3. ASSUME NEW i \in 1 .. n
          PROVE  t[i] = t[i - 1] + Len(s[i])
        <3>1. h[i] = h[i - 1] \o s[i] /\ h[i - 1] \in Seq(S) /\ s[i] \in Seq(S)
            BY <1>1, <1>8, <1>9
        <3>2. Len(h[i]) = Len(h[i - 1]) + Len(s[i])
            BY <3>1
        <3> QED BY <1>1, <3>2
    <2> HIDE DEF t
    <2> QED BY <2>1, <2>2, <2>3 DEF Ends
<1> HIDE DEF t
<1> DEFINE J == {i \in 0 .. n : Joined(S, s, t, i, h[i])}
<1>11. 0 .. n \subseteq J
    <2>1. 0 \in J
        <3>1. Joined(S, s, t, 0, <<>>)
            <4>1. t[0] = 0 /\ Len(<<>>) = 0 /\ <<>> \in Seq(S)
                BY <1>10 DEF Ends
            <4> QED BY <4>1 DEF Joined
        <3> QED BY <1>8, <3>1
    <2>2. ASSUME NEW i \in 1 .. n, i - 1 \in J
          PROVE  i \in J
        <3>1. Joined(S, s, t, i - 1, h[i - 1]) /\ h[i] = h[i - 1] \o s[i] /\ i \in 0 .. n
            BY <1>8, <2>2
        <3>2. Joined(S, s, t, i, h[i - 1] \o s[i])
            BY <1>10, <3>1, JoinOne
        <3> QED BY <3>1, <3>2
    <2> HIDE DEF J
    <2> QED BY <2>1, <2>2, Climb
<1>12. Joined(S, s, t, n, h[n])
    BY <1>11
<1> QED BY <1>6, <1>10, <1>12

\* Each piece stands where it ends up.
Pieces(b, o, n, s, t) == \A i \in 1 .. n : Holds(b, o + t[i - 1], s[i])

\* Where the whole stands its pieces stand.
LEMMA HoldsJoined ==
    ASSUME NEW S, NEW n \in Nat, NEW s \in [1 .. n -> Seq(S)], NEW t, Ends(n, s, t),
           NEW c, Joined(S, s, t, n, c), NEW b, NEW o \in Nat, Len(b) \in Nat
    PROVE  /\ Holds(b, o, c) => Pieces(b, o, n, s, t)
           /\ Matches(b, o, c) => \A i \in 1 .. n : Matches(b, o + t[i - 1], s[i])
<1>1. Len(c) = t[n] /\ t[n] \in Nat
    BY DEF Joined, Ends
<1>2. ASSUME NEW i \in 1 .. n
      PROVE  /\ t[i - 1] \in Nat /\ t[i] = t[i - 1] + Len(s[i])
             /\ Len(s[i]) \in Nat /\ t[i] <= t[n]
             /\ \A j \in 1 .. Len(s[i]) : /\ t[i - 1] + j \in 1 .. Len(c)
                                          /\ c[t[i - 1] + j] = s[i][j]
                                          /\ (o + t[i - 1]) + j = o + (t[i - 1] + j)
    <2> DEFINE y == t[i - 1]
               l == Len(s[i])
    <2>1. i - 1 \in 0 .. n /\ s[i] \in Seq(S)
        OBVIOUS
    <2>2. y \in Nat /\ t[i] = y + l /\ l \in Nat
        BY <2>1 DEF Ends
    <2>3. t[i] <= t[n] /\ \A j \in 1 .. l : c[y + j] = s[i][j]
        BY DEF Joined
    <2> HIDE DEF y, l
    <2>4. ASSUME NEW j \in 1 .. l
          PROVE  y + j \in 1 .. Len(c) /\ (o + y) + j = o + (y + j)
        BY <1>1, <2>2, <2>3
    <2> QED BY <2>2, <2>3, <2>4 DEF y, l
<1>3. ASSUME Holds(b, o, c), NEW i \in 1 .. n
      PROVE  Holds(b, o + t[i - 1], s[i])
    <2>1. (o + t[i - 1]) + Len(s[i]) <= Len(b)
        <3> DEFINE x == t[i - 1]
                   y == Len(s[i])
                   z == t[n]
                   l == Len(b)
        <3>1. x \in Nat /\ y \in Nat /\ x + y <= z /\ z \in Nat /\ l \in Nat
            BY <1>1, <1>2
        <3>2. o + z <= l
            BY <1>1, <1>3 DEF Holds
        <3> HIDE DEF x, y, z, l
        <3>3. (o + x) + y <= l
            BY <3>1, <3>2
        <3> QED BY <3>3 DEF x, y, l
    <2>2. ASSUME NEW j \in 1 .. Len(s[i])
          PROVE  b[(o + t[i - 1]) + j] = s[i][j]
        <3>1. /\ t[i - 1] + j \in 1 .. Len(c) /\ c[t[i - 1] + j] = s[i][j]
              /\ (o + t[i - 1]) + j = o + (t[i - 1] + j)
            BY <1>2
        <3>2. b[o + (t[i - 1] + j)] = c[t[i - 1] + j]
            BY <1>3, <3>1 DEF Holds
        <3> QED BY <3>1, <3>2
    <2> QED BY <2>1, <2>2 DEF Holds
<1>4. ASSUME Matches(b, o, c), NEW i \in 1 .. n
      PROVE  Matches(b, o + t[i - 1], s[i])
    <2>1. ASSUME NEW j \in 1 .. Len(s[i]), (o + t[i - 1]) + j <= Len(b)
          PROVE  b[(o + t[i - 1]) + j] = s[i][j]
        <3>1. /\ t[i - 1] + j \in 1 .. Len(c) /\ c[t[i - 1] + j] = s[i][j]
              /\ (o + t[i - 1]) + j = o + (t[i - 1] + j)
            BY <1>2
        <3>2. b[o + (t[i - 1] + j)] = c[t[i - 1] + j]
            BY <1>4, <2>1, <3>1 DEF Matches
        <3> QED BY <3>1, <3>2
    <2> QED BY <2>1 DEF Matches
<1> QED BY <1>3, <1>4 DEF Pieces

\* And the whole stands where its pieces stand.
LEMMA JoinedHolds ==
    ASSUME NEW S, NEW n \in Nat, NEW s \in [1 .. n -> Seq(S)], NEW t, Ends(n, s, t),
           NEW c, Joined(S, s, t, n, c), NEW b, NEW o \in Nat, Len(b) \in Nat,
           o + t[n] <= Len(b), Pieces(b, o, n, s, t)
    PROVE  Holds(b, o, c)
<1>1. Len(c) = t[n] /\ t[n] \in Nat
    BY DEF Joined, Ends
<1>2. ASSUME NEW k \in 1 .. Len(c)
      PROVE  b[o + k] = c[k]
    <2>0. k \in 1 .. t[n]
        BY <1>1
    <2>1. PICK i \in 1 .. n : \E j \in 1 .. Len(s[i]) : k = t[i - 1] + j
        BY <2>0 DEF Joined
    <2>2. PICK j \in 1 .. Len(s[i]) : k = t[i - 1] + j
        BY <2>1
    <2>3. c[t[i - 1] + j] = s[i][j]
        BY DEF Joined
    <2>4. b[(o + t[i - 1]) + j] = s[i][j]
        BY DEF Holds, Pieces
    <2> DEFINE y == t[i - 1]
    <2>5. y \in Nat /\ j \in Int
        <3>1. i - 1 \in 0 .. n
            OBVIOUS
        <3>2. Len(s[i]) \in Nat
            OBVIOUS
        <3> QED BY <3>1, <3>2 DEF Ends
    <2> HIDE DEF y
    <2>6. (o + y) + j = o + (y + j)
        BY <2>5
    <2> QED BY <2>2, <2>3, <2>4, <2>6 DEF y
<1> QED BY <1>1, <1>2 DEF Holds

-----------------------------------------------------------------------------
(* What is read one after the other. *)

\* No reader goes past the end, at L.
Readers(n, G, L) ==
    \A i \in 1 .. n : \A p \in 0 .. L : G[i][p].ok => G[i][p].offset \in 0 .. L

\* Each reader starts where the one before it stopped.
Way(n, G, o, L, u) ==
    /\ u \in [0 .. n -> 0 .. L]
    /\ u[0] = o
    /\ \A i \in 1 .. n : G[i][u[i - 1]].ok /\ u[i] = G[i][u[i - 1]].offset

LEMMA AppendOne ==
    ASSUME NEW m \in Nat, m # 0, NEW e
    PROVE  Append([i \in 1 .. m - 1 |-> e[i]], e[m]) = [i \in 1 .. m |-> e[i]]
<1> DEFINE S == {e[i] : i \in 1 .. m}
           u == [i \in 1 .. m - 1 |-> e[i]]
           v == [i \in 1 .. m |-> e[i]]
           w == Append(u, e[m])
<1>1. u \in [1 .. m - 1 -> S] /\ e[m] \in S /\ m - 1 \in Nat
    OBVIOUS
<1>2. u \in Seq(S) /\ Len(u) = m - 1 /\ \A i \in 1 .. m - 1 : u[i] = e[i]
    BY <1>1
<1> HIDE DEF u, S
<1>3. /\ w \in Seq(S) /\ Len(w) = (m - 1) + 1 /\ w[(m - 1) + 1] = e[m]
      /\ \A i \in 1 .. m - 1 : w[i] = u[i]
    BY <1>1, <1>2, AppendProperties
<1> HIDE DEF w
<1>4. (m - 1) + 1 = m
    OBVIOUS
<1>5. ASSUME NEW i \in 1 .. m
      PROVE  w[i] = e[i]
    <2>1. CASE i = m
        BY <1>3, <1>4, <2>1
    <2>2. CASE i # m
        <3>1. i \in 1 .. m - 1
            BY <2>2
        <3> QED BY <1>2, <1>3, <3>1
    <2> QED BY <2>1, <2>2
<1>6. w = [i \in 1 .. m |-> w[i]]
    <2>1. DOMAIN w = 1 .. m
        BY <1>3, <1>4
    <2> QED BY <1>3, <2>1
<1>7. w = v
    BY <1>5, <1>6
<1> QED BY <1>7 DEF w, u

LEMMA RecordFacts ==
    /\ \A p, v : Done(p, v).ok = TRUE /\ Done(p, v).offset = p /\ Done(p, v).value = v
    /\ \A p : Refused(p).ok = FALSE /\ Refused(p).offset = p /\ Refused(p).value = 0
BY DEF Done, Refused

\* The reader after each thing.
Course(n, G, o, L, c) ==
    /\ c[0] = Done(o, <<>>)
    /\ \A i \in 1 .. n : c[i] = After(c[i - 1], G[i])
    /\ \A i \in 0 .. n : c[i].offset \in 0 .. L
    /\ Chain(n, G, o) = c[n]

LEMMA ChainSteps ==
    ASSUME NEW n \in Nat, NEW L \in Nat, NEW o \in 0 .. L, NEW G, Readers(n, G, L)
    PROVE  \E c : Course(n, G, o, L, c)
<1> DEFINE F(h) == [i \in 0 .. n |-> IF i = 0 THEN Done(o, <<>>) ELSE After(h[i - 1], G[i])]
           V == {G[x[1]][x[2]].value : x \in (1 .. n) \X (0 .. L)}
           R == {Done(x[1], x[2]) : x \in (0 .. L) \X Seq(V)} \cup {Refused(p) : p \in 0 .. L}
           W == [i \in 0 .. n |-> R]
           g == [p \in (1 .. n) \X R |-> After(p[2], G[p[1]])]
           h == CHOOSE h : h = F(h)
<1>1. \A i \in 1 .. n : i - 1 \in 0 .. n /\ i \in 0 .. n
    OBVIOUS
<1>2. ASSUME NEW p \in 0 .. L, NEW v \in Seq(V)
      PROVE  Done(p, v) \in R
    <2>1. <<p, v>> \in (0 .. L) \X Seq(V) /\ <<p, v>>[1] = p /\ <<p, v>>[2] = v
        OBVIOUS
    <2> HIDE DEF V
    <2> QED BY <2>1
<1>3. Done(o, <<>>) \in R
    <2>1. <<>> \in Seq(V)
        OBVIOUS
    <2> HIDE DEF R, V
    <2> QED BY <1>2, <2>1
<1>4. ASSUME NEW i \in 1 .. n, NEW r \in R
      PROVE  After(r, G[i]) \in R /\ g[<<i, r>>] = After(r, G[i])
    <2>1. CASE r \in {Done(x[1], x[2]) : x \in (0 .. L) \X Seq(V)}
        <3>1. PICK x \in (0 .. L) \X Seq(V) : r = Done(x[1], x[2])
            BY <2>1
        <3>2. x[1] \in 0 .. L /\ x[2] \in Seq(V)
            BY <3>1
        <3> DEFINE got == G[i][x[1]]
        <3>3. After(r, G[i]) = IF ~got.ok THEN Refused(x[1])
                               ELSE Done(got.offset, Append(x[2], got.value))
            <4> HIDE DEF V, got
            <4> QED BY <3>1, RecordFacts DEF After, got
        <3>4. CASE ~got.ok
            <4>1. Refused(x[1]) \in R
                BY <3>2
            <4> HIDE DEF got, R, V
            <4> QED BY <3>3, <3>4, <4>1
        <3>5. CASE got.ok
            <4>1. got.offset \in 0 .. L
                BY <3>2, <3>5 DEF Readers
            <4>2. got.value \in V
                <5>1. <<i, x[1]>> \in (1 .. n) \X (0 .. L)
                    BY <3>2
                <5> QED BY <5>1
            <4>3. Append(x[2], got.value) \in Seq(V)
                <5> HIDE DEF V, got
                <5> QED BY <3>2, <4>2
            <4> DEFINE q == got.offset
                       v == Append(x[2], got.value)
            <4> HIDE DEF q, v, R, V, got
            <4>4. Done(q, v) \in R
                BY <1>2, <4>1, <4>3 DEF q, v
            <4> QED BY <3>3, <3>5, <4>4 DEF q, v
        <3>6. After(r, G[i]) \in R
            BY <3>4, <3>5
        <3> HIDE DEF R
        <3> QED BY <3>6
    <2>2. CASE r \in {Refused(p) : p \in 0 .. L}
        <3>1. PICK p \in 0 .. L : r = Refused(p)
            BY <2>2
        <3>2. After(r, G[i]) = r
            <4> HIDE DEF R
            <4> QED BY <3>1, RecordFacts DEF After
        <3> HIDE DEF R
        <3> QED BY <3>2
    <2> QED BY <2>1, <2>2
<1> HIDE DEF R
<1>5. PICK f : Runs(f, n, W, Done(o, <<>>), g)
    <2>1. Done(o, <<>>) \in W[0]
        BY <1>3
    <2>2. \A m \in 1 .. n : \A v \in W[m - 1] : g[<<m, v>>] \in W[m]
        <3> SUFFICES ASSUME NEW m \in 1 .. n, NEW v \in W[m - 1]
                     PROVE  g[<<m, v>>] \in W[m]
            OBVIOUS
        <3>1. v \in R /\ W[m] = R
            BY <1>1
        <3> HIDE DEF g, W
        <3> QED BY <1>4, <3>1
    <2> DEFINE a == Done(o, <<>>)
    <2> HIDE DEF W, g, a
    <2>3. \E f : Runs(f, n, W, a, g)
        BY <2>1, <2>2, Recursion DEF a
    <2> QED BY <2>3 DEF a
<1>6. f = F(f)
    <2>1. /\ f = [i \in 0 .. n |-> IF i = 0 THEN Done(o, <<>>) ELSE g[<<i, f[i - 1]>>]]
          /\ \A i \in 0 .. n : f[i] \in W[i]
        <3> HIDE DEF W, g
        <3> QED BY <1>5 DEF Runs
    <2>2. ASSUME NEW i \in 0 .. n, i # 0
          PROVE  g[<<i, f[i - 1]>>] = After(f[i - 1], G[i])
        <3>1. i \in 1 .. n /\ i - 1 \in 0 .. n
            BY <2>2
        <3>2. f[i - 1] \in W[i - 1] /\ W[i - 1] = R
            BY <2>1, <3>1
        <3> HIDE DEF g, W
        <3> QED BY <1>4, <3>1, <3>2
    <2> HIDE DEF g
    <2> QED BY <2>1, <2>2
<1>7. h = F(h)
    <2> HIDE DEF F
    <2> QED BY <1>6
<1>8. Chain(n, G, o) = h[n]
    BY DEF Chain
<1> HIDE DEF h
<1>9. \A i \in 0 .. n : h[i] = IF i = 0 THEN Done(o, <<>>) ELSE After(h[i - 1], G[i])
    BY <1>7
<1>10. h[0] = Done(o, <<>>)
    BY <1>9
<1>11. ASSUME NEW i \in 1 .. n
       PROVE  h[i] = After(h[i - 1], G[i])
    <2>1. i \in 0 .. n /\ i # 0
        OBVIOUS
    <2> QED BY <1>9, <2>1
<1> DEFINE I == {i \in 0 .. n : h[i] \in R}
<1>12. 0 .. n \subseteq I
    <2>1. 0 \in I
        BY <1>3, <1>10
    <2>2. ASSUME NEW i \in 1 .. n, i - 1 \in I
          PROVE  i \in I
        BY <1>1, <1>4, <1>11, <2>2
    <2> HIDE DEF I
    <2> QED BY <2>1, <2>2, Climb
<1>13. ASSUME NEW r \in R
       PROVE  r.offset \in 0 .. L
    <2>1. CASE r \in {Done(x[1], x[2]) : x \in (0 .. L) \X Seq(V)}
        <3>1. PICK x \in (0 .. L) \X Seq(V) : r = Done(x[1], x[2])
            BY <2>1
        <3>2. x[1] \in 0 .. L
            BY <3>1
        <3> HIDE DEF V
        <3> QED BY <3>1, <3>2, RecordFacts
    <2>2. CASE r \in {Refused(p) : p \in 0 .. L}
        BY <2>2, RecordFacts
    <2> QED BY <2>1, <2>2 DEF R
<1>14. \A i \in 0 .. n : h[i].offset \in 0 .. L
    BY <1>12, <1>13
<1> QED BY <1>8, <1>10, <1>11, <1>14 DEF Course

Went(n, G, o, L, u) ==
    /\ Way(n, G, o, L, u)
    /\ Chain(n, G, o) = Done(u[n], [i \in 1 .. n |-> G[i][u[i - 1]].value])

\* A chain that does not fail went its way, and has the values it met there.
LEMMA ChainWent ==
    ASSUME NEW n \in Nat, NEW L \in Nat, NEW o \in 0 .. L, NEW G, Readers(n, G, L),
           Chain(n, G, o).ok
    PROVE  \E u : Went(n, G, o, L, u)
<1>0. PICK c : Course(n, G, o, L, c)
    BY ChainSteps
<1>1. /\ c[0] = Done(o, <<>>)
      /\ \A i \in 1 .. n : c[i] = After(c[i - 1], G[i])
      /\ \A i \in 0 .. n : c[i].offset \in 0 .. L
      /\ Chain(n, G, o) = c[n]
    BY <1>0 DEF Course
<1> DEFINE u == [i \in 0 .. n |-> c[i].offset]
           e == [i \in 1 .. n |-> G[i][u[i - 1]].value]
           I == {m \in 0 .. n : c[m].ok =>
                   /\ c[m] = Done(u[m], [i \in 1 .. m |-> e[i]])
                   /\ \A i \in 1 .. m : G[i][u[i - 1]].ok /\ u[i] = G[i][u[i - 1]].offset}
<1>2. \A i \in 0 .. n : u[i] = c[i].offset /\ u[i] \in 0 .. L
    BY <1>1
<1>3. u \in [0 .. n -> 0 .. L] /\ u[0] = o
    BY <1>1, RecordFacts
<1>4. \A i \in 1 .. n : e[i] = G[i][u[i - 1]].value
    OBVIOUS
<1> HIDE DEF u, e
<1>5. 0 \in I
    <2>1. [i \in 1 .. 0 |-> e[i]] = <<>>
        OBVIOUS
    <2> QED BY <1>1, <1>3, <2>1
<1>6. ASSUME NEW m \in 1 .. n, m - 1 \in I
      PROVE  m \in I
    <2>0. m - 1 \in 0 .. n /\ m \in 0 .. n /\ m \in Nat /\ m # 0
        OBVIOUS
    <2> DEFINE got == G[m][u[m - 1]]
               r == c[m - 1]
    <2>1. c[m] = After(r, G[m]) /\ u[m - 1] = r.offset /\ u[m] = c[m].offset
        BY <1>1, <1>2, <2>0
    <2>2. SUFFICES ASSUME c[m].ok
                   PROVE  /\ c[m] = Done(u[m], [i \in 1 .. m |-> e[i]])
                          /\ \A i \in 1 .. m : G[i][u[i - 1]].ok /\ u[i] = G[i][u[i - 1]].offset
        BY <2>0
    <2>3. c[m] = IF ~r.ok THEN r ELSE IF ~got.ok THEN Refused(r.offset)
                 ELSE Done(got.offset, Append(r.value, got.value))
        BY <2>1 DEF After
    <2>4. r.ok /\ got.ok
        <3> HIDE DEF r, got
        <3> QED BY <2>2, <2>3, RecordFacts
    <2>5. /\ r = Done(u[m - 1], [i \in 1 .. m - 1 |-> e[i]])
          /\ \A i \in 1 .. m - 1 : G[i][u[i - 1]].ok /\ u[i] = G[i][u[i - 1]].offset
        BY <1>6, <2>4
    <2>6. r.value = [i \in 1 .. m - 1 |-> e[i]] /\ got.value = e[m]
        BY <1>4, <2>5, RecordFacts
    <2>7. Append(r.value, got.value) = [i \in 1 .. m |-> e[i]]
        <3> HIDE DEF r, got
        <3> QED BY <2>0, <2>6, AppendOne
    <2> DEFINE w == [i \in 1 .. m |-> e[i]]
    <2>8. c[m] = Done(got.offset, w) /\ u[m] = got.offset
        <3> HIDE DEF r, got, w
        <3>1. c[m] = Done(got.offset, w)
            BY <2>3, <2>4, <2>7 DEF w
        <3> QED BY <2>1, <3>1, RecordFacts
    <2>9. ASSUME NEW i \in 1 .. m
          PROVE  G[i][u[i - 1]].ok /\ u[i] = G[i][u[i - 1]].offset
        <3>1. CASE i = m
            BY <2>4, <2>8, <3>1
        <3>2. CASE i # m
            <4>1. i \in 1 .. m - 1
                BY <3>2
            <4> QED BY <2>5, <4>1
        <3> QED BY <3>1, <3>2
    <2> QED BY <2>8, <2>9
<1>7. 0 .. n \subseteq I
    <2> HIDE DEF I
    <2> QED BY <1>5, <1>6, Climb
<1>8. /\ c[n] = Done(u[n], [i \in 1 .. n |-> e[i]])
      /\ \A i \in 1 .. n : G[i][u[i - 1]].ok /\ u[i] = G[i][u[i - 1]].offset
    <2>1. n \in 0 .. n
        OBVIOUS
    <2>2. n \in I
        BY <1>7, <2>1
    <2> QED BY <1>1, <2>2
<1>9. [i \in 1 .. n |-> e[i]] = [i \in 1 .. n |-> G[i][u[i - 1]].value]
    BY <1>4
<1>10. Way(n, G, o, L, u)
    <2>1. \A i \in 1 .. n : G[i][u[i - 1]].ok /\ u[i] = G[i][u[i - 1]].offset
        BY <1>8
    <2> QED BY <1>3, <2>1 DEF Way
<1>11. Chain(n, G, o) = Done(u[n], [i \in 1 .. n |-> G[i][u[i - 1]].value])
    <2> DEFINE y == [i \in 1 .. n |-> e[i]]
               z == [i \in 1 .. n |-> G[i][u[i - 1]].value]
    <2>1. y = z /\ c[n] = Done(u[n], y)
        BY <1>8, <1>9
    <2> HIDE DEF y, z
    <2>2. Chain(n, G, o) = Done(u[n], z)
        BY <1>1, <2>1
    <2> QED BY <2>2 DEF z
<1> QED BY <1>10, <1>11, Zenon DEF Went

\* A way to the end is gone.
LEMMA ChainGoes ==
    ASSUME NEW n \in Nat, NEW L \in Nat, NEW o \in 0 .. L, NEW G, Readers(n, G, L),
           NEW u, Way(n, G, o, L, u)
    PROVE  Chain(n, G, o) = Done(u[n], [i \in 1 .. n |-> G[i][u[i - 1]].value])
<1>0. PICK c : Course(n, G, o, L, c)
    BY ChainSteps
<1>1. /\ c[0] = Done(o, <<>>)
      /\ \A i \in 1 .. n : c[i] = After(c[i - 1], G[i])
      /\ \A i \in 0 .. n : c[i].offset \in 0 .. L
      /\ Chain(n, G, o) = c[n]
    BY <1>0 DEF Course
<1> DEFINE e == [i \in 1 .. n |-> G[i][u[i - 1]].value]
           I == {m \in 0 .. n : c[m] = Done(u[m], [i \in 1 .. m |-> e[i]])}
<1>2. \A i \in 1 .. n : e[i] = G[i][u[i - 1]].value
    OBVIOUS
<1> HIDE DEF e
<1>3. 0 \in I
    <2>1. [i \in 1 .. 0 |-> e[i]] = <<>>
        OBVIOUS
    <2> QED BY <1>1, <2>1 DEF Way
<1>4. ASSUME NEW m \in 1 .. n, m - 1 \in I
      PROVE  m \in I
    <2>0. m - 1 \in 0 .. n /\ m \in 0 .. n /\ m \in Nat /\ m # 0
        OBVIOUS
    <2> DEFINE got == G[m][u[m - 1]]
               r == c[m - 1]
               v == [i \in 1 .. m - 1 |-> e[i]]
               w == [i \in 1 .. m |-> e[i]]
    <2>1. c[m] = After(r, G[m]) /\ r = Done(u[m - 1], v)
        BY <1>1, <1>4
    <2>2. got.ok /\ u[m] = got.offset /\ got.value = e[m]
        BY <1>2 DEF Way
    <2>3. Append(v, e[m]) = w
        BY <2>0, AppendOne
    <2> HIDE DEF v, w, r
    <2>4. r.ok = TRUE /\ r.offset = u[m - 1] /\ r.value = v
        BY <2>1, RecordFacts
    <2>5. c[m] = Done(u[m], w)
        BY <2>1, <2>2, <2>3, <2>4 DEF After
    <2> QED BY <2>0, <2>5 DEF w
<1>5. 0 .. n \subseteq I
    <2> HIDE DEF I
    <2> QED BY <1>3, <1>4, Climb
<1>6. [i \in 1 .. n |-> e[i]] = [i \in 1 .. n |-> G[i][u[i - 1]].value]
    BY <1>2
<1>7. c[n] = Done(u[n], [i \in 1 .. n |-> e[i]])
    BY <1>5
<1> QED BY <1>1, <1>6, <1>7

\* Each of the readers G reads the bytes s[i] of a value v[i] back; where it finds
\* them, as far as there are any, it goes as far as they do; and what it reads from
\* p is written as the bytes S[i][p] that it was read from.
Returns(b, n, G, s, v) ==
    \A i \in 1 .. n : \A p \in 0 .. Len(b) :
        Holds(b, p, s[i]) => G[i][p] = Done(p + Len(s[i]), v[i])

Measures(b, n, G, s) ==
    \A i \in 1 .. n : \A p \in 0 .. Len(b) :
        Matches(b, p, s[i]) /\ G[i][p].ok => G[i][p].offset = p + Len(s[i])

From(b, p, r, s) == s \in Seq(Byte) /\ Holds(b, p, s) /\ r.offset = p + Len(s)

Spells(b, n, G, S) ==
    \A i \in 1 .. n : \A p \in 0 .. Len(b) : G[i][p].ok => From(b, p, G[i][p], S[i][p])

Spelled(b, n, G, S, o, u) ==
    /\ Went(n, G, o, Len(b), u)
    /\ [i \in 1 .. n |-> S[i][u[i - 1]]] \in [1 .. n -> Seq(Byte)]
    /\ Holds(b, o, Concat([i \in 1 .. n |-> S[i][u[i - 1]]]))
    /\ u[n] = o + Len(Concat([i \in 1 .. n |-> S[i][u[i - 1]]]))

\* What reads each piece back reads the whole back.
LEMMA ReadsBack ==
    ASSUME NEW b \in Seq(Byte), NEW n \in Nat, NEW s \in [1 .. n -> Seq(Byte)],
           NEW G, Readers(n, G, Len(b)), NEW v, NEW o \in 0 .. Len(b),
           Returns(b, n, G, s, v), Holds(b, o, Concat(s))
    PROVE  Chain(n, G, o) = Done(o + Len(Concat(s)), [i \in 1 .. n |-> v[i]])
<1> DEFINE L == Len(b)
           c == Concat(s)
<1>0. L \in Nat /\ o \in Nat
    OBVIOUS
<1>1. PICK t : Ends(n, s, t) /\ Joined(Byte, s, t, n, c)
    BY ConcatJoins
<1> HIDE DEF L, c
<1>2. \A i \in 1 .. n : Holds(b, o + t[i - 1], s[i])
    <2>1. Pieces(b, o, n, s, t)
        BY <1>0, <1>1, HoldsJoined DEF L, c
    <2> QED BY <2>1 DEF Pieces
<1>3. /\ t \in [0 .. n -> Nat] /\ t[0] = 0 /\ Len(c) = t[n] /\ o + Len(c) <= L
      /\ \A i \in 1 .. n : t[i] = t[i - 1] + Len(s[i]) /\ t[i] <= t[n]
    BY <1>1 DEF Ends, Joined, Holds, L, c
<1> DEFINE u == [i \in 0 .. n |-> o + t[i]]
<1>4. ASSUME NEW i \in 0 .. n
      PROVE  u[i] = o + t[i] /\ u[i] \in 0 .. L
    <2>1. t[i] \in Nat /\ t[n] \in Nat /\ t[i] <= t[n]
        BY <1>3
    <2> QED BY <1>0, <1>3, <2>1
<1>5. u \in [0 .. n -> 0 .. L] /\ u[0] = o
    BY <1>0, <1>3, <1>4
<1> HIDE DEF u
<1>6. ASSUME NEW i \in 1 .. n
      PROVE  G[i][u[i - 1]] = Done(u[i], v[i])
    <2>1. i - 1 \in 0 .. n /\ i \in 0 .. n
        OBVIOUS
    <2>2. u[i - 1] = o + t[i - 1] /\ u[i] = o + t[i] /\ u[i - 1] \in 0 .. L
        BY <1>4, <2>1
    <2>3. G[i][u[i - 1]] = Done(u[i - 1] + Len(s[i]), v[i])
        BY <1>2, <2>2 DEF L, Returns
    <2>4. u[i - 1] + Len(s[i]) = u[i]
        <3> DEFINE y == t[i - 1]
                   l == Len(s[i])
        <3>1. y \in Nat /\ l \in Nat /\ t[i] = y + l
            BY <1>3, <2>1
        <3> HIDE DEF y, l
        <3>2. (o + y) + l = o + (y + l)
            BY <1>0, <3>1
        <3> QED BY <2>2, <3>1, <3>2 DEF y, l
    <2> QED BY <2>3, <2>4
<1>7. \A i \in 1 .. n : /\ G[i][u[i - 1]].ok = TRUE /\ u[i] = G[i][u[i - 1]].offset
                        /\ G[i][u[i - 1]].value = v[i]
    BY <1>6, RecordFacts
<1>8. Way(n, G, o, L, u)
    BY <1>5, <1>7 DEF Way
<1>9. Chain(n, G, o) = Done(u[n], [i \in 1 .. n |-> G[i][u[i - 1]].value])
    BY <1>0, <1>8, ChainGoes DEF L
<1>10. [i \in 1 .. n |-> G[i][u[i - 1]].value] = [i \in 1 .. n |-> v[i]]
    BY <1>7
<1>11. u[n] = o + Len(c)
    BY <1>3, <1>4
<1> QED BY <1>9, <1>10, <1>11 DEF c

\* The same, with what it needs in one.
Ready(b, n, s, G, v, o) ==
    /\ b \in Seq(Byte) /\ n \in Nat /\ s \in [1 .. n -> Seq(Byte)] /\ Readers(n, G, Len(b))
    /\ o \in 0 .. Len(b) /\ Returns(b, n, G, s, v) /\ Holds(b, o, Concat(s))

LEMMA ReadyReads ==
    ASSUME NEW b, NEW n, NEW s, NEW G, NEW v, NEW o, Ready(b, n, s, G, v, o)
    PROVE  Chain(n, G, o) = Done(o + Len(Concat(s)), [i \in 1 .. n |-> v[i]])
<1>1. /\ b \in Seq(Byte) /\ n \in Nat /\ s \in [1 .. n -> Seq(Byte)] /\ Readers(n, G, Len(b))
      /\ o \in 0 .. Len(b) /\ Returns(b, n, G, s, v) /\ Holds(b, o, Concat(s))
    BY DEF Ready
<1> QED BY <1>1, ReadsBack

\* A chain over the pieces, as many of them as there are, goes as far as they do.
LEMMA ReadsAsFar ==
    ASSUME NEW b \in Seq(Byte), NEW n \in Nat, NEW s \in [1 .. n -> Seq(Byte)],
           NEW G, Readers(n, G, Len(b)), NEW o \in 0 .. Len(b),
           Measures(b, n, G, s), Matches(b, o, Concat(s)), Chain(n, G, o).ok
    PROVE  /\ Chain(n, G, o).offset = o + Len(Concat(s))
           /\ Chain(n, G, o).offset <= Len(b)
<1> DEFINE L == Len(b)
           c == Concat(s)
<1>0. L \in Nat /\ o \in Nat
    OBVIOUS
<1>1. PICK t : Ends(n, s, t) /\ Joined(Byte, s, t, n, c)
    BY ConcatJoins
<1> HIDE DEF L, c
<1>2. \A i \in 1 .. n : Matches(b, o + t[i - 1], s[i])
    BY <1>0, <1>1, HoldsJoined DEF L, c
<1>3. /\ t \in [0 .. n -> Nat] /\ t[0] = 0 /\ Len(c) = t[n]
      /\ \A i \in 1 .. n : t[i] = t[i - 1] + Len(s[i])
    BY <1>1 DEF Ends, Joined
<1>4. PICK u : Went(n, G, o, L, u)
    <2>1. Readers(n, G, L)
        BY DEF L
    <2> QED BY <1>0, <2>1, ChainWent DEF L
<1>5. /\ u \in [0 .. n -> 0 .. L] /\ u[0] = o
      /\ \A i \in 1 .. n : G[i][u[i - 1]].ok /\ u[i] = G[i][u[i - 1]].offset
    BY <1>4 DEF Went, Way
<1> DEFINE I == {i \in 0 .. n : u[i] = o + t[i]}
<1>6. 0 .. n \subseteq I
    <2>1. 0 \in I
        BY <1>0, <1>3, <1>5
    <2>2. ASSUME NEW i \in 1 .. n, i - 1 \in I
          PROVE  i \in I
        <3>1. i - 1 \in 0 .. n /\ i \in 0 .. n /\ u[i - 1] = o + t[i - 1]
            BY <2>2
        <3>2. u[i - 1] \in 0 .. L
            BY <1>5, <3>1
        <3>3. u[i] = u[i - 1] + Len(s[i])
            BY <1>2, <1>5, <3>1, <3>2 DEF L, Measures
        <3> DEFINE y == t[i - 1]
                   l == Len(s[i])
        <3>4. y \in Nat /\ l \in Nat /\ t[i] = y + l
            BY <1>3, <3>1
        <3> HIDE DEF y, l
        <3>5. (o + y) + l = o + (y + l)
            BY <1>0, <3>4
        <3>6. u[i] = o + t[i]
            BY <3>1, <3>3, <3>4, <3>5 DEF y, l
        <3> QED BY <3>1, <3>6
    <2> HIDE DEF I
    <2> QED BY <2>1, <2>2, Climb
<1>7. u[n] = o + t[n] /\ u[n] \in 0 .. L
    BY <1>5, <1>6
<1>8. Chain(n, G, o).offset = u[n]
    BY <1>4, RecordFacts DEF Went
<1> QED BY <1>0, <1>3, <1>7, <1>8 DEF L, c

\* A reader that reads bytes that are there does not go past the end.
LEMMA SpellsReaders ==
    ASSUME NEW b \in Seq(Byte), NEW n \in Nat, NEW G, NEW S, Spells(b, n, G, S)
    PROVE  Readers(n, G, Len(b))
<1> DEFINE L == Len(b)
<1>0. L \in Nat
    OBVIOUS
<1> SUFFICES ASSUME NEW i \in 1 .. n, NEW p \in 0 .. L, G[i][p].ok
             PROVE  G[i][p].offset \in 0 .. L
    BY DEF Readers
<1> DEFINE l == Len(S[i][p])
<1>1. l \in Nat /\ p + l <= L /\ G[i][p].offset = p + l
    BY DEF Holds, Spells, From
<1> HIDE DEF l, L
<1> QED BY <1>0, <1>1

\* If each piece is read from its own bytes, so is the whole.
LEMMA ReadsCanonically ==
    ASSUME NEW b \in Seq(Byte), NEW n \in Nat, NEW G, NEW S, NEW o \in 0 .. Len(b),
           Spells(b, n, G, S), Chain(n, G, o).ok
    PROVE  \E u : Spelled(b, n, G, S, o, u)
<1> DEFINE L == Len(b)
<1>0. L \in Nat /\ o \in Nat
    OBVIOUS
<1>1. Readers(n, G, L)
    BY SpellsReaders
<1> HIDE DEF L
<1>4. PICK u : Went(n, G, o, L, u)
    BY <1>0, <1>1, ChainWent DEF L
<1>5. /\ u \in [0 .. n -> 0 .. L] /\ u[0] = o
      /\ \A i \in 1 .. n : G[i][u[i - 1]].ok /\ u[i] = G[i][u[i - 1]].offset
    BY <1>4 DEF Went, Way
<1> DEFINE s == [i \in 1 .. n |-> S[i][u[i - 1]]]
           c == Concat(s)
<1>6. ASSUME NEW i \in 1 .. n
      PROVE  /\ u[i - 1] \in 0 .. L /\ s[i] = S[i][u[i - 1]] /\ s[i] \in Seq(Byte)
             /\ Holds(b, u[i - 1], s[i]) /\ u[i] = u[i - 1] + Len(s[i])
    <2>1. i - 1 \in 0 .. n
        OBVIOUS
    <2>2. u[i - 1] \in 0 .. L
        BY <1>5, <2>1
    <2> QED BY <1>5, <2>2 DEF L, Spells, From
<1>7. s \in [1 .. n -> Seq(Byte)]
    BY <1>6
<1> HIDE DEF s
<1>8. PICK t : Ends(n, s, t) /\ Joined(Byte, s, t, n, c)
    BY <1>7, ConcatJoins
<1> HIDE DEF c
<1>9. /\ t \in [0 .. n -> Nat] /\ t[0] = 0 /\ Len(c) = t[n]
      /\ \A i \in 1 .. n : t[i] = t[i - 1] + Len(s[i])
    BY <1>8 DEF Ends, Joined
<1> DEFINE I == {i \in 0 .. n : u[i] = o + t[i]}
<1>10. 0 .. n \subseteq I
    <2>1. 0 \in I
        BY <1>0, <1>5, <1>9
    <2>2. ASSUME NEW i \in 1 .. n, i - 1 \in I
          PROVE  i \in I
        <3>1. i - 1 \in 0 .. n /\ i \in 0 .. n /\ u[i - 1] = o + t[i - 1]
            BY <2>2
        <3> DEFINE y == t[i - 1]
                   l == Len(s[i])
        <3>4. y \in Nat /\ l \in Nat /\ t[i] = y + l /\ u[i] = u[i - 1] + l
            BY <1>6, <1>9, <3>1
        <3> HIDE DEF y, l
        <3>5. (o + y) + l = o + (y + l)
            BY <1>0, <3>4
        <3>6. u[i] = o + t[i]
            BY <3>1, <3>4, <3>5 DEF y, l
        <3> QED BY <3>1, <3>6
    <2> HIDE DEF I
    <2> QED BY <2>1, <2>2, Climb
<1>11. u[n] = o + t[n] /\ u[n] \in 0 .. L
    BY <1>5, <1>10
<1>12. Pieces(b, o, n, s, t)
    <2> SUFFICES ASSUME NEW i \in 1 .. n
                 PROVE  Holds(b, o + t[i - 1], s[i])
        BY DEF Pieces
    <2>1. i - 1 \in 0 .. n
        OBVIOUS
    <2> QED BY <1>6, <1>10, <2>1
<1>13. Holds(b, o, c)
    <2>1. o + t[n] <= Len(b)
        BY <1>0, <1>11 DEF L
    <2> QED BY <1>0, <1>7, <1>8, <1>12, <2>1, JoinedHolds DEF L
<1>14. u[n] = o + Len(c)
    BY <1>9, <1>11
<1> QED BY <1>4, <1>7, <1>13, <1>14 DEF L, c, s, Spelled

-----------------------------------------------------------------------------
(* Sizes. *)

LEMMA TotalSums ==
    ASSUME NEW n \in Nat, NEW z \in [1 .. n -> Nat]
    PROVE  \E h : /\ h \in [0 .. n -> Nat] /\ h[0] = 0
                  /\ \A i \in 1 .. n : h[i] = h[i - 1] + z[i]
                  /\ Total(z) = h[n]
<1> DEFINE F(h) == [i \in 0 .. n |-> IF i = 0 THEN 0 ELSE h[i - 1] + z[i]]
           W == [i \in 0 .. n |-> Nat]
           g == [p \in (1 .. n) \X Nat |-> p[2] + z[p[1]]]
           h == CHOOSE h : h = F(h)
<1>1. \A i \in 1 .. n : i - 1 \in 0 .. n /\ i \in 0 .. n
    OBVIOUS
<1>2. ASSUME NEW i \in 1 .. n, NEW v \in Nat
      PROVE  v + z[i] \in Nat /\ g[<<i, v>>] = v + z[i]
    <2>1. z[i] \in Nat
        OBVIOUS
    <2> QED BY <2>1
<1>3. PICK f : Runs(f, n, W, 0, g)
    <2>1. 0 \in W[0]
        OBVIOUS
    <2>2. \A m \in 1 .. n : \A v \in W[m - 1] : g[<<m, v>>] \in W[m]
        BY <1>1, <1>2
    <2> HIDE DEF W, g
    <2> QED BY <2>1, <2>2, Recursion
<1>4. f = F(f)
    <2>1. /\ f = [i \in 0 .. n |-> IF i = 0 THEN 0 ELSE g[<<i, f[i - 1]>>]]
          /\ \A i \in 0 .. n : f[i] \in W[i]
        <3> HIDE DEF W, g
        <3> QED BY <1>3 DEF Runs
    <2>2. ASSUME NEW i \in 0 .. n, i # 0
          PROVE  g[<<i, f[i - 1]>>] = f[i - 1] + z[i]
        <3>1. i \in 1 .. n /\ i - 1 \in 0 .. n
            BY <2>2
        <3>2. f[i - 1] \in W[i - 1] /\ W[i - 1] = Nat
            BY <2>1, <3>1
        <3> HIDE DEF g, W
        <3> QED BY <1>2, <3>1, <3>2
    <2> HIDE DEF g
    <2> QED BY <2>1, <2>2
<1>5. h = F(h)
    <2> HIDE DEF F
    <2> QED BY <1>4
<1>6. Total(z) = h[n]
    <2>1. Len(z) = n
        OBVIOUS
    <2> QED BY <2>1 DEF Total
<1> HIDE DEF h
<1>7. h = [i \in 0 .. n |-> h[i]]
    BY <1>5
<1>8. \A i \in 0 .. n : h[i] = IF i = 0 THEN 0 ELSE h[i - 1] + z[i]
    BY <1>5
<1>9. h[0] = 0
    BY <1>8
<1>10. ASSUME NEW i \in 1 .. n
       PROVE  h[i] = h[i - 1] + z[i]
    <2>1. i \in 0 .. n /\ i # 0
        OBVIOUS
    <2> QED BY <1>8, <2>1
<1> DEFINE I == {i \in 0 .. n : h[i] \in Nat}
<1>11. 0 .. n \subseteq I
    <2>1. 0 \in I
        BY <1>9
    <2>2. ASSUME NEW i \in 1 .. n, i - 1 \in I
          PROVE  i \in I
        BY <1>1, <1>2, <1>10, <2>2
    <2> HIDE DEF I
    <2> QED BY <2>1, <2>2, Climb
<1>12. h \in [0 .. n -> Nat]
    BY <1>7, <1>11
<1> QED BY <1>6, <1>9, <1>10, <1>12

LEMMA ConcatSize ==
    ASSUME NEW n \in Nat, NEW s \in [1 .. n -> Seq(Byte)], NEW z \in [1 .. n -> Nat],
           \A i \in 1 .. n : Len(s[i]) <= z[i]
    PROVE  Len(Concat(s)) <= Total(z) /\ Total(z) \in Nat
<1>1. PICK h : /\ h \in [0 .. n -> Nat] /\ h[0] = 0
               /\ \A i \in 1 .. n : h[i] = h[i - 1] + z[i]
               /\ Total(z) = h[n]
    BY TotalSums
<1>2. PICK t : Ends(n, s, t) /\ Joined(Byte, s, t, n, Concat(s))
    BY ConcatJoins
<1>3. /\ t \in [0 .. n -> Nat] /\ t[0] = 0 /\ Len(Concat(s)) = t[n]
      /\ \A i \in 1 .. n : t[i] = t[i - 1] + Len(s[i])
    BY <1>2 DEF Ends, Joined
<1> DEFINE I == {i \in 0 .. n : t[i] <= h[i]}
<1>4. 0 \in I
    BY <1>1, <1>3
<1>5. ASSUME NEW i \in 1 .. n, i - 1 \in I
      PROVE  i \in I
    <2> DEFINE x == t[i - 1]
               y == h[i - 1]
               l == Len(s[i])
               k == z[i]
    <2>1. i - 1 \in 0 .. n /\ i \in 0 .. n /\ x <= y
        BY <1>5
    <2>2. /\ x \in Nat /\ y \in Nat /\ l \in Nat /\ k \in Nat /\ l <= k
          /\ t[i] = x + l /\ h[i] = y + k
        <3>1. x \in Nat /\ t[i] = x + l
            BY <1>3, <2>1
        <3>2. y \in Nat /\ h[i] = y + k
            BY <1>1, <2>1
        <3>3. l \in Nat /\ k \in Nat /\ l <= k
            OBVIOUS
        <3> QED BY <3>1, <3>2, <3>3
    <2> HIDE DEF x, y, l, k
    <2> QED BY <2>1, <2>2
<1>6. 0 .. n \subseteq I
    <2> HIDE DEF I
    <2> QED BY <1>4, <1>5, Climb
<1> QED BY <1>1, <1>3, <1>6

LEMMA ConcatSizeEqual ==
    ASSUME NEW n \in Nat, NEW s \in [1 .. n -> Seq(Byte)], NEW w \in Nat,
           \A i \in 1 .. n : Len(s[i]) <= w
    PROVE  Len(Concat(s)) <= n * w
<1>2. PICK t : Ends(n, s, t) /\ Joined(Byte, s, t, n, Concat(s))
    BY ConcatJoins
<1>3. /\ t \in [0 .. n -> Nat] /\ t[0] = 0 /\ Len(Concat(s)) = t[n]
      /\ \A i \in 1 .. n : t[i] = t[i - 1] + Len(s[i])
    BY <1>2 DEF Ends, Joined
<1> DEFINE I == {i \in 0 .. n : t[i] <= i * w}
<1>4. 0 \in I
    BY <1>3
<1>5. ASSUME NEW i \in 1 .. n, i - 1 \in I
      PROVE  i \in I
    <2> DEFINE x == t[i - 1]
               l == Len(s[i])
    <2>1. i - 1 \in 0 .. n /\ i \in 0 .. n /\ x <= (i - 1) * w
        BY <1>5
    <2>2. /\ x \in Nat /\ l \in Nat /\ l <= w /\ t[i] = x + l
        BY <1>3, <2>1
    <2>3. (i - 1) * w = i * w - w /\ i * w \in Int
        OBVIOUS
    <2> HIDE DEF x, l
    <2>4. x + l <= i * w
        BY <2>1, <2>2, <2>3
    <2> QED BY <2>1, <2>2, <2>4
<1>6. 0 .. n \subseteq I
    <2> HIDE DEF I
    <2> QED BY <1>4, <1>5, Climb
<1> QED BY <1>3, <1>6

-----------------------------------------------------------------------------
(* Numbers, signed numbers and Booleans. *)

\* A plain type that a reader may use.
PlainType(g) ==
    /\ g.as \in Plain
    /\ g.width \in 1 .. 8
    /\ g.most \in 0 .. Top(g.width)
    /\ g.as = "signed" => g.width = 8 /\ g.most = Top(8)
    /\ g.as = "bool" => g.most = 1

LEMMA TopFacts ==
    ASSUME NEW w \in 0 .. 8
    PROVE  Top(w) \in Nat /\ \A n \in Nat : n < Values[w] <=> n <= Top(w)
<1> DEFINE v == Values[w]
<1>1. v \in Nat /\ v > 0
    BY ValuesFacts
<1> HIDE DEF v
<1>2. v - 1 \in Nat /\ \A n \in Nat : n < v <=> n <= v - 1
    BY <1>1
<1> QED BY <1>2 DEF Top, v

LEMMA HalfFacts ==
    /\ Half \in Nat /\ Half + Half <= Values[8] /\ Values[8] \in Nat /\ Values[8] > 0
<1> DEFINE v == Values[8]
           q == v \div 2
<1>1. v \in Nat /\ v > 0
    BY ValuesFacts
<1> HIDE DEF v
<1>2. q \in Nat /\ q + q <= v
    BY <1>1
<1> QED BY <1>1, <1>2 DEF Half, v, q

LEMMA UnsignedOf ==
    ASSUME NEW v \in -Half .. Half - 1
    PROVE  /\ Unsigned(v) = IF v < 0 THEN v + Values[8] ELSE v
           /\ Unsigned(v) \in 0 .. Top(8)
           /\ Signed(Unsigned(v)) = v
<1> DEFINE m == Values[8]
           h == Half
<1>1. h \in Nat /\ h + h <= m /\ m \in Nat /\ m > 0 /\ v \in -h .. h - 1
    BY HalfFacts
<1> HIDE DEF m, h
<1>2. v \in Int /\ (v < 0 => v + m \in 0 .. m - 1 /\ ~(v + m < h)) /\ (v >= 0 => v \in 0 .. m - 1)
    BY <1>1
<1>3. v % m = IF v < 0 THEN v + m ELSE v
    <2>1. CASE v < 0
        BY <1>1, <1>2, <2>1
    <2>2. CASE v >= 0
        BY <1>1, <1>2, <2>2
    <2> QED BY <1>2, <2>1, <2>2
<1>4. Unsigned(v) = IF v < 0 THEN v + m ELSE v
    BY <1>3 DEF Unsigned, m
<1>5. Signed(Unsigned(v)) = IF Unsigned(v) < h THEN Unsigned(v) ELSE Unsigned(v) - m
    BY DEF Signed, m, h
<1>6. Top(8) = m - 1
    BY DEF Top, m
<1>7. (v + m) - m = v
    BY <1>1, <1>2
<1>8. CASE v < 0
    BY <1>2, <1>4, <1>5, <1>6, <1>7, <1>8 DEF m
<1>9. CASE v >= 0
    BY <1>1, <1>2, <1>4, <1>5, <1>6, <1>9 DEF m
<1> QED BY <1>2, <1>8, <1>9

LEMMA SignedOf ==
    ASSUME NEW n \in 0 .. Top(8)
    PROVE  Unsigned(Signed(n)) = n
<1> DEFINE m == Values[8]
           h == Half
<1>1. h \in Nat /\ h + h <= m /\ m \in Nat /\ m > 0
    BY HalfFacts
<1>2. n \in 0 .. m - 1
    BY DEF Top
<1> HIDE DEF m, h
<1>3. n % m = n /\ (n - m) % m = n
    <2>1. n % m = n
        BY <1>1, <1>2
    <2>2. (n - m) % m = n
        BY <1>1, <1>2
    <2> QED BY <2>1, <2>2
<1>4. Unsigned(Signed(n)) = (IF n < h THEN n ELSE n - m) % m
    BY DEF Unsigned, Signed, m, h
<1> QED BY <1>3, <1>4

\* What is understood is carried as the number it was understood from.
LEMMA CarriedUnderstood ==
    ASSUME NEW p, NEW g, PlainType(g), p.as = g.as, NEW n \in 0 .. g.most
    PROVE  Carried(p, Understood(g, n)) = n
<1>1. n \in 0 .. Top(g.width) /\ n \in Nat
    BY TopFacts DEF PlainType
<1>2. CASE g.as = "number"
    BY <1>2 DEF Carried, Understood
<1>3. CASE g.as = "signed"
    <2>1. n \in 0 .. Top(8)
        BY <1>1, <1>3 DEF PlainType
    <2>2. Unsigned(Signed(n)) = n
        BY <2>1, SignedOf
    <2> QED BY <1>3, <2>2 DEF Carried, Understood
<1>4. CASE g.as = "bool"
    <2>1. n = 0 \/ n = 1
        BY <1>4 DEF PlainType
    <2> QED BY <1>4, <2>1 DEF Carried, Understood
<1> QED BY <1>2, <1>3, <1>4 DEF PlainType, Plain

\* What the program holds is carried by the bytes of its type.
LEMMA CarriedFits ==
    ASSUME NEW p, p.as \in Plain, p.width \in 1 .. 8, p.as = "signed" => p.width = 8,
           NEW v, FitsPlain(p, v)
    PROVE  Carried(p, v) \in Nat /\ Carried(p, v) < Values[p.width]
<1> DEFINE w == p.width
<1>0. Top(w) \in Nat /\ \A n \in Nat : n < Values[w] <=> n <= Top(w)
    BY TopFacts
<1>1. CASE p.as = "number"
    <2>1. v \in 0 .. Top(w) /\ Carried(p, v) = v
        BY <1>1 DEF FitsPlain, Carried
    <2> QED BY <1>0, <2>1
<1>2. CASE p.as = "signed"
    <2>1. v \in -Half .. Half - 1 /\ Carried(p, v) = Unsigned(v) /\ w = 8
        BY <1>2 DEF FitsPlain, Carried
    <2>2. Unsigned(v) \in 0 .. Top(w)
        BY <2>1, UnsignedOf
    <2> QED BY <1>0, <2>1, <2>2
<1>3. CASE p.as = "bool"
    <2>1. Carried(p, v) \in {0, 1}
        BY <1>3 DEF Carried
    <2>2. Values[w] \in Nat /\ Values[w] > 1
        <3>1. w \in 1 .. 8 /\ w - 1 \in 0 .. 8
            OBVIOUS
        <3> DEFINE x == Values[w - 1]
        <3>2. Values[w] = x * Base /\ x \in Nat /\ x > 0
            BY <3>1, ValuesFacts
        <3> HIDE DEF x
        <3>3. x * Base >= Base
            BY <3>2, BaseFacts
        <3>4. x * Base \in Nat
            BY <3>2, BaseFacts
        <3> QED BY <3>2, <3>3, <3>4, BaseFacts
    <2>3. ASSUME NEW x \in {0, 1}
          PROVE  x \in Nat /\ x < Values[w]
        <3> HIDE DEF w
        <3> QED BY <2>2
    <2> QED BY <2>1, <2>3
<1> QED BY <1>1, <1>2, <1>3 DEF Plain

\* It is understood as it was, if the reader lets it pass.
LEMMA UnderstoodCarried ==
    ASSUME NEW p, NEW g, PlainType(g), p.as = g.as, p.width = g.width,
           NEW v, FitsPlain(p, v), LegalPlain(g, v)
    PROVE  Carried(p, v) \in 0 .. g.most /\ Understood(g, Carried(p, v)) = v
<1>1. CASE g.as = "number"
    BY <1>1 DEF Carried, Understood, LegalPlain
<1>2. CASE g.as = "signed"
    <2>1. v \in -Half .. Half - 1 /\ Carried(p, v) = Unsigned(v) /\ g.most = Top(8)
        BY <1>2 DEF FitsPlain, Carried, PlainType
    <2>2. Unsigned(v) \in 0 .. Top(8) /\ Signed(Unsigned(v)) = v
        BY <2>1, UnsignedOf
    <2> QED BY <1>2, <2>1, <2>2 DEF Understood
<1>3. CASE g.as = "bool"
    <2>1. v \in BOOLEAN /\ g.most = 1
        BY <1>3 DEF FitsPlain, PlainType
    <2> QED BY <1>3, <2>1 DEF Carried, Understood
<1> QED BY <1>1, <1>2, <1>3 DEF PlainType, Plain

\* The two types have the same bytes, and the reader's is one it may use.
Alike(p, g) == PlainType(g) /\ p.as = g.as /\ p.width = g.width

LEMMA PutPlainType ==
    ASSUME NEW p, NEW g, Alike(p, g), NEW v, FitsPlain(p, v)
    PROVE  PutPlain(p, v) \in Seq(Byte) /\ Len(PutPlain(p, v)) = g.width
<1>1. p.as \in Plain /\ p.width \in 1 .. 8 /\ (p.as = "signed" => p.width = 8)
    BY DEF Alike, PlainType
<1>2. Carried(p, v) \in Nat
    BY <1>1, CarriedFits
<1>3. p.width \in 0 .. 8
    BY <1>1
<1> DEFINE c == Carried(p, v)
           w == p.width
<1>4. PutPlain(p, v) = Digits(c, w)
    BY DEF PutPlain
<1> HIDE DEF c, w
<1>5. Digits(c, w) \in Seq(Byte) /\ Len(Digits(c, w)) = w
    BY <1>2, <1>3, DigitsType DEF c, w
<1> QED BY <1>4, <1>5 DEF Alike, w

LEMMA GetPlainIs ==
    ASSUME NEW g, NEW b, NEW o
    PROVE  GetPlain(g, b, o) =
             IF o + g.width > Len(b) THEN Refused(o)
             ELSE IF Number(b, o, g.width) > g.most THEN Refused(o)
             ELSE Done(o + g.width, Understood(g, Number(b, o, g.width)))
BY DEF GetPlain

LEMMA GetPlainOk ==
    ASSUME NEW g, PlainType(g), NEW b \in Seq(Byte), NEW o \in 0 .. Len(b),
           GetPlain(g, b, o).ok
    PROVE  /\ o + g.width <= Len(b)
           /\ Number(b, o, g.width) \in 0 .. g.most
           /\ GetPlain(g, b, o) = Done(o + g.width, Understood(g, Number(b, o, g.width)))
<1> DEFINE w == g.width
           n == Number(b, o, w)
           L == Len(b)
           r == GetPlain(g, b, o)
<1>1. w \in 0 .. 8 /\ o \in Nat /\ L \in Nat /\ g.most \in Nat
    <2>1. g.width \in 0 .. 8
        BY DEF PlainType
    <2>2. g.most \in Nat
        BY <2>1, TopFacts DEF PlainType
    <2> QED BY <2>1, <2>2
<1>2. r = IF o + w > L THEN Refused(o) ELSE IF n > g.most THEN Refused(o)
          ELSE Done(o + w, Understood(g, n))
    BY GetPlainIs
<1> HIDE DEF w, n, L, r
<1>3. ~(o + w > L) /\ ~(n > g.most)
    <2>1. r.ok
        BY DEF r
    <2> QED BY <1>2, <2>1, RecordFacts
<1>4. o + w <= L
    BY <1>1, <1>3
<1>5. n \in Nat
    BY <1>1, <1>4, NumberType DEF n, L
<1>6. n \in 0 .. g.most
    BY <1>1, <1>3, <1>5
<1>7. r = Done(o + w, Understood(g, n))
    BY <1>2, <1>3
<1> QED BY <1>4, <1>6, <1>7 DEF w, n, L, r

\* Whatever a plain reader accepts is written as it was read.
LEMMA PlainCanonical ==
    ASSUME NEW p, NEW g, Alike(p, g), NEW b \in Seq(Byte), NEW o \in 0 .. Len(b),
           GetPlain(g, b, o).ok
    PROVE  /\ From(b, o, GetPlain(g, b, o), PutPlain(p, GetPlain(g, b, o).value))
           /\ Len(PutPlain(p, GetPlain(g, b, o).value)) = g.width
<1> DEFINE w == g.width
           n == Number(b, o, w)
           v == GetPlain(g, b, o).value
<1>0. PlainType(g) /\ p.as = g.as /\ p.width = w /\ w \in 0 .. 8 /\ o \in Nat
    BY DEF Alike, PlainType
<1>1. o + w <= Len(b) /\ n \in 0 .. g.most /\ GetPlain(g, b, o) = Done(o + w, Understood(g, n))
    BY <1>0, GetPlainOk
<1>2. v = Understood(g, n) /\ GetPlain(g, b, o).offset = o + w
    <2> HIDE DEF n, w
    <2> QED BY <1>1, RecordFacts
<1>3. Carried(p, v) = n
    <2> HIDE DEF n, v
    <2> QED BY <1>0, <1>1, <1>2, CarriedUnderstood
<1>4. n \in Nat /\ PutPlain(p, v) = Digits(n, w)
    <2>1. n \in Nat
        BY <1>0, <1>1, NumberType
    <2> HIDE DEF n, v
    <2> QED BY <1>0, <1>3, <2>1 DEF PutPlain
<1>5. \A i \in 1 .. w : Digits(n, w)[i] = b[o + i]
    BY <1>0, <1>1, DigitsOfNumber
<1> HIDE DEF n, w
<1>6. Digits(n, w) \in Seq(Byte) /\ Len(Digits(n, w)) = w
    BY <1>0, <1>4, DigitsType
<1>7. Holds(b, o, Digits(n, w))
    BY <1>1, <1>5, <1>6 DEF Holds
<1> QED BY <1>2, <1>4, <1>6, <1>7 DEF w, From

\* A plain value that its reader lets pass is read back.
LEMMA PlainBack ==
    ASSUME NEW p, NEW g, Alike(p, g), NEW b \in Seq(Byte), NEW o \in 0 .. Len(b),
           NEW v, FitsPlain(p, v), LegalPlain(g, v), Holds(b, o, PutPlain(p, v))
    PROVE  GetPlain(g, b, o) = Done(o + Len(PutPlain(p, v)), v)
<1> DEFINE w == g.width
           n == Carried(p, v)
           s == PutPlain(p, v)
<1>0. /\ PlainType(g) /\ p.as = g.as /\ p.width = w /\ w \in 0 .. 8 /\ o \in Nat
      /\ p.as \in Plain /\ p.width \in 1 .. 8 /\ (p.as = "signed" => p.width = 8)
    BY DEF Alike, PlainType
<1>1. s \in Seq(Byte) /\ Len(s) = w /\ s = Digits(n, w)
    BY <1>0, PutPlainType DEF PutPlain
<1>2. n \in Nat /\ n < Values[w]
    BY <1>0, CarriedFits
<1>3. n \in 0 .. g.most /\ Understood(g, n) = v
    BY <1>0, UnderstoodCarried
<1> HIDE DEF s, n, w
<1>4. o + w <= Len(b) /\ \A i \in 1 .. w : b[o + i] = Digits(n, w)[i]
    BY <1>1 DEF Holds, s
<1>5. Number(b, o, w) = n
    BY <1>0, <1>2, <1>4, NumberOfDigits
<1>6. ~(o + w > Len(b)) /\ ~(n > g.most)
    <2>1. Len(b) \in Nat
        OBVIOUS
    <2>2. g.most \in Nat
        BY <1>0, TopFacts DEF PlainType, w
    <2> QED BY <1>0, <1>3, <1>4, <2>1, <2>2
<1>7. GetPlain(g, b, o) = Done(o + w, v)
    BY <1>3, <1>5, <1>6, GetPlainIs DEF w
<1> QED BY <1>1, <1>7 DEF s

-----------------------------------------------------------------------------
(* Documents, given readers for their fields. *)

\* The tables name the same fields in the same order, and none of them twice.
Matched(p, g) ==
    /\ Len(g) \in Nat /\ Len(p) = Len(g)
    /\ DOMAIN g = 1 .. Len(g) /\ DOMAIN p = 1 .. Len(g)
    /\ \A i \in 1 .. Len(g) : p[i][1] = g[i][1]
    /\ \A i, j \in 1 .. Len(g) : g[i][1] = g[j][1] => i = j

LEMMA NamedAt ==
    ASSUME NEW p, NEW g, Matched(p, g), NEW e, NEW i \in 1 .. Len(g)
    PROVE  Named(g, e)[p[i][1]] = e[i]
<1> DEFINE x == g[i][1]
           c == CHOOSE j \in DOMAIN g : g[j][1] = x
<1>1. i \in DOMAIN g /\ p[i][1] = x
    BY DEF Matched
<1>2. c \in DOMAIN g /\ g[c][1] = x
    BY <1>1
<1>3. c = i
    BY <1>1, <1>2 DEF Matched
<1>4. Named(g, e)[x] = e[c]
    BY <1>1 DEF Named
<1> QED BY <1>1, <1>3, <1>4

\* e are the values of the fields of v, and v has no other fields.
Lists(p, e, v) ==
    /\ v = [x \in {p[i][1] : i \in DOMAIN p} |-> v[x]]
    /\ \A i \in DOMAIN p : e[i] = v[p[i][1]]

LEMMA NamedSame ==
    ASSUME NEW p, NEW g, Matched(p, g), NEW e, NEW v, Lists(p, e, v)
    PROVE  Named(g, e) = v
<1> DEFINE X == {g[i][1] : i \in DOMAIN g}
<1>1. X = {p[i][1] : i \in DOMAIN p}
    BY DEF Matched
<1>2. ASSUME NEW x \in X
      PROVE  Named(g, e)[x] = v[x]
    <2>1. PICK i \in DOMAIN g : x = g[i][1]
        OBVIOUS
    <2>2. i \in 1 .. Len(g) /\ i \in DOMAIN p /\ p[i][1] = x
        BY <2>1 DEF Matched
    <2> HIDE DEF X
    <2>3. Named(g, e)[p[i][1]] = e[i]
        BY <2>2, NamedAt
    <2> QED BY <2>2, <2>3 DEF Lists
<1>3. Named(g, e) = [x \in X |-> Named(g, e)[x]]
    BY DEF Named
<1> HIDE DEF X
<1>4. v = [x \in X |-> v[x]]
    BY <1>1 DEF Lists
<1> QED BY <1>2, <1>3, <1>4

LEMMA CheckedIs ==
    ASSUME NEW name, NEW r
    PROVE  Checked(name, r) =
             IF ~r.ok THEN r
             ELSE IF Valid(name, Named(Get[name], r.value))
             THEN Done(r.offset, Named(Get[name], r.value))
             ELSE Refused(r.offset)
BY DEF Checked

LEMMA CheckedOk ==
    ASSUME NEW name, NEW r, Checked(name, r).ok
    PROVE  r.ok /\ Checked(name, r) = Done(r.offset, Named(Get[name], r.value))
<1> DEFINE c == Checked(name, r)
           v == Named(Get[name], r.value)
<1>1. c = IF ~r.ok THEN r ELSE IF Valid(name, v) THEN Done(r.offset, v) ELSE Refused(r.offset)
    BY CheckedIs
<1>2. c.ok
    OBVIOUS
<1> HIDE DEF c, v
<1>3. r.ok /\ c = Done(r.offset, v)
    BY <1>1, <1>2, RecordFacts
<1> QED BY <1>3 DEF c, v

\* The fields are read one after the other from the bytes S.
FieldsRead(name, b, G, S, o, u) ==
    LET n == Len(Get[name])
        r == Checked(name, Chain(n, G, o))
        s == [i \in 1 .. n |-> S[i][u[i - 1]]]
    IN  /\ u \in [0 .. n -> 0 .. Len(b)]
        /\ \A i \in 1 .. n : /\ G[i][u[i - 1]].ok
                             /\ r.value[Put[name][i][1]] = G[i][u[i - 1]].value
        /\ s \in [1 .. n -> Seq(Byte)]
        /\ From(b, o, r, Concat(s))

LEMMA FieldsCanonical ==
    ASSUME NEW name, Matched(Put[name], Get[name]),
           NEW b \in Seq(Byte), NEW G, NEW S, NEW o \in 0 .. Len(b),
           Spells(b, Len(Get[name]), G, S), Checked(name, Chain(Len(Get[name]), G, o)).ok
    PROVE  \E u : FieldsRead(name, b, G, S, o, u)
<1> DEFINE n == Len(Get[name])
           c == Chain(n, G, o)
           r == Checked(name, c)
<1>0. n \in Nat
    BY DEF Matched
<1>1. c.ok /\ r = Done(c.offset, Named(Get[name], c.value))
    <2> HIDE DEF c
    <2> QED BY CheckedOk DEF c
<1> HIDE DEF n
<1>2. PICK u : Spelled(b, n, G, S, o, u)
    <2>1. Spells(b, n, G, S)
        BY DEF n
    <2> QED BY <1>0, <1>1, <2>1, ReadsCanonically
<1>3. /\ u \in [0 .. n -> 0 .. Len(b)]
      /\ \A i \in 1 .. n : G[i][u[i - 1]].ok
      /\ c = Done(u[n], [i \in 1 .. n |-> G[i][u[i - 1]].value])
    BY <1>2 DEF Spelled, Went, Way
<1> DEFINE e == [i \in 1 .. n |-> G[i][u[i - 1]].value]
           s == [i \in 1 .. n |-> S[i][u[i - 1]]]
<1>4. c.offset = u[n] /\ c.value = e
    <2>1. c = Done(u[n], e)
        BY <1>3
    <2> HIDE DEF e, c
    <2> QED BY <2>1, RecordFacts
<1>5. r.offset = u[n] /\ r.value = Named(Get[name], e)
    <2> HIDE DEF e, c, r
    <2> QED BY <1>1, <1>4, RecordFacts
<1>6. ASSUME NEW i \in 1 .. n
      PROVE  r.value[Put[name][i][1]] = G[i][u[i - 1]].value
    <2>1. e[i] = G[i][u[i - 1]].value
        OBVIOUS
    <2> HIDE DEF e, r
    <2>2. Named(Get[name], e)[Put[name][i][1]] = e[i]
        BY NamedAt DEF n
    <2> QED BY <1>5, <2>1, <2>2
<1>7. r.offset = o + Len(Concat(s))
    <2> HIDE DEF r
    <2> QED BY <1>2, <1>5 DEF Spelled
<1>8. s \in [1 .. n -> Seq(Byte)] /\ Holds(b, o, Concat(s))
    BY <1>2 DEF Spelled
<1> HIDE DEF s
<1>10. Concat(s) \in Seq(Byte)
    <2>1. \E t : Ends(n, s, t) /\ Joined(Byte, s, t, n, Concat(s))
        BY <1>0, <1>8, ConcatJoins
    <2> QED BY <2>1 DEF Joined
<1> HIDE DEF r
<1>9. /\ u \in [0 .. n -> 0 .. Len(b)]
      /\ \A i \in 1 .. n : /\ G[i][u[i - 1]].ok
                           /\ r.value[Put[name][i][1]] = G[i][u[i - 1]].value
      /\ s \in [1 .. n -> Seq(Byte)]
      /\ From(b, o, r, Concat(s))
    BY <1>3, <1>6, <1>7, <1>8, <1>10 DEF From
<1> QED BY <1>9 DEF n, r, s, FieldsRead

LEMMA FieldsBack ==
    ASSUME NEW name, Matched(Put[name], Get[name]),
           NEW b \in Seq(Byte), NEW G, Readers(Len(Get[name]), G, Len(b)), NEW o \in 0 .. Len(b),
           NEW v, Valid(name, v), NEW e, Lists(Put[name], e, v),
           NEW s \in [1 .. Len(Get[name]) -> Seq(Byte)],
           Returns(b, Len(Get[name]), G, s, e),
           Holds(b, o, Concat(s))
    PROVE  Checked(name, Chain(Len(Get[name]), G, o)) = Done(o + Len(Concat(s)), v)
<1> DEFINE n == Len(Get[name])
           f == [i \in 1 .. n |-> e[i]]
           c == Chain(n, G, o)
<1>0. n \in Nat /\ DOMAIN Put[name] = 1 .. n
    BY DEF Matched
<1>2. Named(Get[name], f) = v
    <2> DEFINE p == Put[name]
               g == Get[name]
    <2>1. Matched(p, g)
        OBVIOUS
    <2>2. \A i \in DOMAIN p : f[i] = v[p[i][1]]
        BY <1>0 DEF Lists
    <2>3. v = [x \in {p[i][1] : i \in DOMAIN p} |-> v[x]]
        BY DEF Lists
    <2> HIDE DEF f, p, g
    <2>4. Lists(p, f, v)
        BY <2>2, <2>3 DEF Lists
    <2>5. Named(g, f) = v
        BY <2>1, <2>4, NamedSame
    <2> QED BY <2>5 DEF g
<1> HIDE DEF n
<1>4. c = Done(o + Len(Concat(s)), f)
    <2>1. Returns(b, n, G, s, e)
        BY DEF n
    <2>2. s \in [1 .. n -> Seq(Byte)] /\ Readers(n, G, Len(b))
        BY DEF n
    <2> QED BY <1>0, <2>1, <2>2, ReadsBack
<1> DEFINE q == o + Len(Concat(s))
<1>5. c = Done(q, f)
    BY <1>4
<1> HIDE DEF c, q, f
<1>6. c.ok = TRUE /\ c.offset = q /\ c.value = f
    BY <1>5, RecordFacts
<1>7. Checked(name, c) = Done(q, v)
    BY <1>2, <1>6, CheckedIs
<1> QED BY <1>7 DEF c, q, n

LEMMA FieldsAsFar ==
    ASSUME NEW name, Matched(Put[name], Get[name]),
           NEW b \in Seq(Byte), NEW G, Readers(Len(Get[name]), G, Len(b)), NEW o \in 0 .. Len(b),
           NEW s \in [1 .. Len(Get[name]) -> Seq(Byte)],
           Measures(b, Len(Get[name]), G, s), Matches(b, o, Concat(s)),
           Checked(name, Chain(Len(Get[name]), G, o)).ok
    PROVE  Checked(name, Chain(Len(Get[name]), G, o)).offset = o + Len(Concat(s))
<1> DEFINE n == Len(Get[name])
           c == Chain(n, G, o)
           r == Checked(name, c)
<1>0. n \in Nat
    BY DEF Matched
<1>1. c.ok /\ r = Done(c.offset, Named(Get[name], c.value))
    <2> HIDE DEF c
    <2> QED BY CheckedOk DEF c
<1>2. r.offset = c.offset
    <2> HIDE DEF c, r
    <2> QED BY <1>1, RecordFacts
<1> HIDE DEF r, n
<1>3. c.offset = o + Len(Concat(s))
    <2>1. Measures(b, n, G, s)
        BY DEF n
    <2>2. s \in [1 .. n -> Seq(Byte)] /\ Readers(n, G, Len(b))
        BY DEF n
    <2> QED BY <1>0, <1>1, <2>1, <2>2, ReadsAsFar
<1> QED BY <1>2, <1>3 DEF r, n
-----------------------------------------------------------------------------
(* Rows: documents of plain fields. *)

AgreeRow(name) ==
    /\ Matched(Put[name], Get[name])
    /\ \A i \in 1 .. Len(Get[name]) : Alike(Put[name][i][2], Get[name][i][2])

\* The readers of the fields, the bytes they accept, and the bytes of a value's fields.
RowReaders(name, b) ==
    [i \in DOMAIN Get[name] |-> [p \in 0 .. Len(b) |-> GetPlain(Get[name][i][2], b, p)]]
RowBytes(name, b) ==
    [i \in DOMAIN Get[name] |->
       [p \in 0 .. Len(b) |-> PutPlain(Put[name][i][2], GetPlain(Get[name][i][2], b, p).value)]]
RowPieces(name, v) ==
    [i \in DOMAIN Put[name] |-> PutPlain(Put[name][i][2], v[Put[name][i][1]])]
RowWidths(name) == [i \in DOMAIN Get[name] |-> Get[name][i][2].width]

LEMMA RowAt ==
    ASSUME NEW name, AgreeRow(name), NEW i \in 1 .. Len(Get[name]), NEW b, NEW p \in 0 .. Len(b)
    PROVE  /\ RowReaders(name, b)[i][p] = GetPlain(Get[name][i][2], b, p)
           /\ RowBytes(name, b)[i][p] =
                PutPlain(Put[name][i][2], GetPlain(Get[name][i][2], b, p).value)
<1>1. i \in DOMAIN Get[name] /\ i \in DOMAIN Put[name]
    BY DEF AgreeRow, Matched
<1> QED BY <1>1 DEF RowReaders, RowBytes

LEMMA RowPieceAt ==
    ASSUME NEW name, AgreeRow(name), NEW i \in 1 .. Len(Get[name]), NEW v
    PROVE  RowPieces(name, v)[i] = PutPlain(Put[name][i][2], v[Put[name][i][1]])
<1>1. i \in DOMAIN Put[name]
    BY DEF AgreeRow, Matched
<1> QED BY <1>1 DEF RowPieces

LEMMA RowTypes ==
    ASSUME NEW name, AgreeRow(name), NEW i \in 1 .. Len(Get[name])
    PROVE  /\ RowWidths(name)[i] = Get[name][i][2].width
           /\ Alike(Put[name][i][2], Get[name][i][2])
<1>1. i \in DOMAIN Get[name]
    BY DEF AgreeRow, Matched
<1> QED BY <1>1 DEF RowWidths, AgreeRow

LEMMA RowAre ==
    ASSUME NEW name, NEW b, NEW v, NEW o
    PROVE  /\ GetRow(name, b, o) = Checked(name, Chain(Len(Get[name]), RowReaders(name, b), o))
           /\ PutRow(name, v) = Concat(RowPieces(name, v))
           /\ RowSize(name) = Total(RowWidths(name))
BY DEF GetRow, PutRow, RowSize, RowReaders, RowPieces, RowWidths

LEMMA RowWidthsType ==
    ASSUME NEW name, AgreeRow(name)
    PROVE  RowWidths(name) \in [1 .. Len(Get[name]) -> Nat]
<1>1. DOMAIN Get[name] = 1 .. Len(Get[name])
    BY DEF AgreeRow, Matched
<1>2. ASSUME NEW i \in 1 .. Len(Get[name])
      PROVE  Get[name][i][2].width \in Nat
    <2> DEFINE g == Get[name][i][2]
               p == Put[name][i][2]
    <2>1. Alike(p, g)
        BY DEF AgreeRow
    <2> HIDE DEF g, p
    <2>2. g.width \in 1 .. 8
        BY <2>1 DEF Alike, PlainType
    <2>3. g.width \in Nat
        BY <2>2
    <2> QED BY <2>3 DEF g
<1> QED BY <1>1, <1>2 DEF RowWidths

LEMMA RowSizeType ==
    ASSUME NEW name, AgreeRow(name)
    PROVE  RowSize(name) \in Nat
<1> DEFINE k == Len(Get[name])
           z == RowWidths(name)
           w == RowSize(name)
<1>1. k \in Nat /\ z \in [1 .. k -> Nat]
    BY RowWidthsType DEF AgreeRow, Matched
<1>2. w = Total(z)
    BY RowAre
<1> HIDE DEF k, z, w
<1>3. PICK h : /\ h \in [0 .. k -> Nat] /\ h[0] = 0
               /\ \A i \in 1 .. k : h[i] = h[i - 1] + z[i]
               /\ Total(z) = h[k]
    BY <1>1, TotalSums
<1>4. h[k] \in Nat
    BY <1>1, <1>3
<1> QED BY <1>2, <1>3, <1>4 DEF w

LEMMA RowSpells ==
    ASSUME NEW name, AgreeRow(name), NEW b \in Seq(Byte)
    PROVE  Spells(b, Len(Get[name]), RowReaders(name, b), RowBytes(name, b))
<1> SUFFICES ASSUME NEW i \in 1 .. Len(Get[name]), NEW p \in 0 .. Len(b),
                    RowReaders(name, b)[i][p].ok
             PROVE  From(b, p, RowReaders(name, b)[i][p], RowBytes(name, b)[i][p])
    BY DEF Spells
<1> DEFINE y == Put[name][i][2]
           g == Get[name][i][2]
<1>1. /\ RowReaders(name, b)[i][p] = GetPlain(g, b, p) /\ Alike(y, g)
      /\ RowBytes(name, b)[i][p] = PutPlain(y, GetPlain(g, b, p).value)
    BY RowAt, RowTypes
<1> HIDE DEF y, g
<1>2. From(b, p, GetPlain(g, b, p), PutPlain(y, GetPlain(g, b, p).value))
    BY <1>1, PlainCanonical
<1> QED BY <1>1, <1>2

\* Whatever the reader of a row accepts is written as it was read.
LEMMA RowCanonical ==
    ASSUME NEW name, AgreeRow(name), NEW b \in Seq(Byte), NEW o \in 0 .. Len(b),
           GetRow(name, b, o).ok
    PROVE  /\ From(b, o, GetRow(name, b, o), PutRow(name, GetRow(name, b, o).value))
           /\ Len(PutRow(name, GetRow(name, b, o).value)) <= RowSize(name)
<1> DEFINE n == Len(Get[name])
           G == RowReaders(name, b)
           S == RowBytes(name, b)
           r == GetRow(name, b, o)
<1>1. n \in Nat /\ DOMAIN Put[name] = 1 .. n
    BY DEF AgreeRow, Matched
<1>2. Spells(b, n, G, S) /\ r = Checked(name, Chain(n, G, o))
    BY RowSpells, RowAre
<1>3. PICK u : FieldsRead(name, b, G, S, o, u)
    <2> HIDE DEF G, S
    <2> QED BY <1>2, FieldsCanonical DEF AgreeRow
<1> DEFINE s == [i \in 1 .. n |-> S[i][u[i - 1]]]
<1>4. /\ u \in [0 .. n -> 0 .. Len(b)]
      /\ \A i \in 1 .. n : G[i][u[i - 1]].ok /\ r.value[Put[name][i][1]] = G[i][u[i - 1]].value
      /\ s \in [1 .. n -> Seq(Byte)]
      /\ From(b, o, r, Concat(s))
    <2> HIDE DEF G, S
    <2> QED BY <1>2, <1>3 DEF FieldsRead
<1> HIDE DEF r
<1>5. ASSUME NEW i \in 1 .. n
      PROVE  /\ s[i] = PutPlain(Put[name][i][2], r.value[Put[name][i][1]])
             /\ Len(s[i]) = RowWidths(name)[i]
    <2> DEFINE y == Put[name][i][2]
               g == Get[name][i][2]
               p == u[i - 1]
    <2>0. i - 1 \in 0 .. n
        BY <1>1
    <2>1. p \in 0 .. Len(b)
        BY <1>4, <2>0
    <2>2. /\ G[i][p] = GetPlain(g, b, p) /\ Alike(y, g)
          /\ S[i][p] = PutPlain(y, GetPlain(g, b, p).value)
          /\ RowWidths(name)[i] = g.width
        BY <2>1, RowAt, RowTypes
    <2>3. s[i] = S[i][p] /\ G[i][p].ok /\ r.value[Put[name][i][1]] = G[i][p].value
        BY <1>4
    <2> HIDE DEF y, g, p, s, G, S
    <2>4. Len(PutPlain(y, GetPlain(g, b, p).value)) = g.width
        BY <2>1, <2>2, <2>3, PlainCanonical
    <2> QED BY <2>2, <2>3, <2>4 DEF y
<1>6. s = RowPieces(name, r.value)
    <2>1. s = [i \in 1 .. n |-> PutPlain(Put[name][i][2], r.value[Put[name][i][1]])]
        BY <1>5
    <2> QED BY <1>1, <2>1 DEF RowPieces
<1>7. PutRow(name, r.value) = Concat(s)
    <2> HIDE DEF s
    <2> QED BY <1>6, RowAre
<1>8. Len(Concat(s)) <= RowSize(name)
    <2> DEFINE z == RowWidths(name)
    <2>1. z \in [1 .. n -> Nat] /\ RowSize(name) = Total(z)
        BY RowWidthsType, RowAre
    <2> HIDE DEF s, z, n
    <2>2. ASSUME NEW i \in 1 .. n
          PROVE  Len(s[i]) <= z[i]
        BY <1>5, <2>1 DEF z
    <2> QED BY <1>1, <1>4, <2>1, <2>2, ConcatSize
<1> QED BY <1>4, <1>7, <1>8 DEF r

\* The bytes of a value that the program may hold.
LEMMA RowPieceType ==
    ASSUME NEW name, AgreeRow(name), NEW v, FitsRow(name, v), NEW i \in 1 .. Len(Get[name])
    PROVE  /\ FitsPlain(Put[name][i][2], v[Put[name][i][1]])
           /\ RowPieces(name, v)[i] \in Seq(Byte)
           /\ Len(RowPieces(name, v)[i]) = Get[name][i][2].width
<1> DEFINE y == Put[name][i][2]
           g == Get[name][i][2]
           x == v[Put[name][i][1]]
<1>1. FitsPlain(y, x)
    <2>1. i \in DOMAIN Put[name]
        BY DEF AgreeRow, Matched
    <2> QED BY <2>1 DEF FitsRow
<1>2. RowPieces(name, v)[i] = PutPlain(y, x) /\ Alike(y, g)
    BY RowPieceAt, RowTypes
<1> HIDE DEF y, g, x
<1>3. PutPlain(y, x) \in Seq(Byte) /\ Len(PutPlain(y, x)) = g.width
    BY <1>1, <1>2, PutPlainType
<1> QED BY <1>1, <1>2, <1>3 DEF y, g, x

LEMMA RowPiecesType ==
    ASSUME NEW name, AgreeRow(name), NEW v, FitsRow(name, v)
    PROVE  RowPieces(name, v) \in [1 .. Len(Get[name]) -> Seq(Byte)]
<1> DEFINE n == Len(Get[name])
           s == RowPieces(name, v)
<1>1. DOMAIN Put[name] = 1 .. n
    BY DEF AgreeRow, Matched
<1>2. \A i \in 1 .. n : s[i] \in Seq(Byte)
    BY RowPieceType
<1>3. s = [i \in 1 .. n |-> s[i]]
    BY <1>1 DEF RowPieces
<1> HIDE DEF s, n
<1>4. s \in [1 .. n -> Seq(Byte)]
    BY <1>2, <1>3
<1> QED BY <1>4 DEF s, n

LEMMA PutRowType ==
    ASSUME NEW name, AgreeRow(name), NEW v, FitsRow(name, v)
    PROVE  /\ PutRow(name, v) \in Seq(Byte)
           /\ Len(PutRow(name, v)) <= RowSize(name) /\ RowSize(name) \in Nat
<1> DEFINE n == Len(Get[name])
           s == RowPieces(name, v)
           z == RowWidths(name)
<1>1. n \in Nat
    BY DEF AgreeRow, Matched
<1>2. s \in [1 .. n -> Seq(Byte)] /\ z \in [1 .. n -> Nat]
    BY RowPiecesType, RowWidthsType
<1>3. ASSUME NEW i \in 1 .. n
      PROVE  Len(s[i]) <= z[i]
    <2>0. Len(s[i]) = Get[name][i][2].width
        BY RowPieceType, Zenon
    <2>1. Len(s[i]) = z[i]
        BY <2>0, RowTypes
    <2>2. z[i] \in Nat
        BY <1>2
    <2> QED BY <2>1, <2>2
<1>4. PutRow(name, v) = Concat(s) /\ RowSize(name) = Total(z)
    BY RowAre
<1> HIDE DEF s, z, n
<1>5. Concat(s) \in Seq(Byte)
    <2>1. \E t : Ends(n, s, t) /\ Joined(Byte, s, t, n, Concat(s))
        BY <1>1, <1>2, ConcatJoins
    <2> QED BY <2>1 DEF Joined
<1>6. Len(Concat(s)) <= Total(z) /\ Total(z) \in Nat
    BY <1>1, <1>2, <1>3, ConcatSize
<1> QED BY <1>4, <1>5, <1>6

\* A row that its reader lets pass is read back.
LEMMA RowBack ==
    ASSUME NEW name, AgreeRow(name), NEW b \in Seq(Byte), NEW o \in 0 .. Len(b),
           NEW v, FitsRow(name, v), LegalRow(name, v), Holds(b, o, PutRow(name, v))
    PROVE  GetRow(name, b, o) = Done(o + Len(PutRow(name, v)), v)
<1> DEFINE n == Len(Get[name])
           G == RowReaders(name, b)
           s == RowPieces(name, v)
           e == [i \in 1 .. n |-> v[Put[name][i][1]]]
<1>1. n \in Nat /\ Matched(Put[name], Get[name]) /\ DOMAIN Get[name] = 1 .. n
    BY DEF AgreeRow, Matched
<1>2. s \in [1 .. n -> Seq(Byte)]
    BY RowPiecesType
<1>3. Readers(n, G, Len(b))
    <2> HIDE DEF n, G
    <2> QED BY <1>1, RowSpells, SpellsReaders DEF n, G
<1>4. Returns(b, n, G, s, e)
    <2> SUFFICES ASSUME NEW i \in 1 .. n, NEW p \in 0 .. Len(b), Holds(b, p, s[i])
                 PROVE  G[i][p] = Done(p + Len(s[i]), e[i])
        BY DEF Returns
    <2> DEFINE y == Put[name][i][2]
               g == Get[name][i][2]
               x == v[Put[name][i][1]]
    <2>1. /\ G[i][p] = GetPlain(g, b, p) /\ Alike(y, g) /\ s[i] = PutPlain(y, x)
          /\ e[i] = x
        BY RowAt, RowTypes, RowPieceAt
    <2>2. FitsPlain(y, x)
        BY RowPieceType
    <2>3. LegalPlain(g, x)
        <3>1. LegalPlain(g, v[Get[name][i][1]])
            BY <1>1 DEF LegalRow
        <3>2. Get[name][i][1] = Put[name][i][1]
            BY <1>1 DEF Matched
        <3> QED BY <3>1, <3>2
    <2> HIDE DEF G, s, e, y, g, x
    <2>4. GetPlain(g, b, p) = Done(p + Len(PutPlain(y, x)), x)
        BY <2>1, <2>2, <2>3, PlainBack
    <2> QED BY <2>1, <2>4
<1>5. Concat(s) = PutRow(name, v) /\ GetRow(name, b, o) = Checked(name, Chain(n, G, o))
    BY RowAre
<1>6. Lists(Put[name], e, v) /\ Valid(name, v)
    <2>1. HasFields(name, v) /\ Valid(name, v)
        BY DEF FitsRow, LegalRow
    <2>2. \A i \in DOMAIN Put[name] : e[i] = v[Put[name][i][1]]
        BY <1>1 DEF Matched
    <2> HIDE DEF e
    <2> QED BY <2>1, <2>2 DEF HasFields, Lists
<1> HIDE DEF G, s, e
<1>7. Checked(name, Chain(n, G, o)) = Done(o + Len(Concat(s)), v)
    BY <1>1, <1>2, <1>3, <1>4, <1>5, <1>6, FieldsBack
<1> QED BY <1>5, <1>7

\* Where a row stands, its reader goes as far as the row, even if its end is missing.
LEMMA RowAsFar ==
    ASSUME NEW name, AgreeRow(name), NEW b \in Seq(Byte), NEW o \in 0 .. Len(b),
           NEW v, FitsRow(name, v), Matches(b, o, PutRow(name, v)), GetRow(name, b, o).ok
    PROVE  GetRow(name, b, o).offset = o + Len(PutRow(name, v))
<1> DEFINE n == Len(Get[name])
           G == RowReaders(name, b)
           s == RowPieces(name, v)
<1>1. n \in Nat /\ Matched(Put[name], Get[name])
    BY DEF AgreeRow, Matched
<1>2. s \in [1 .. n -> Seq(Byte)]
    BY RowPiecesType
<1>3. Readers(n, G, Len(b))
    <2> HIDE DEF n, G
    <2> QED BY <1>1, RowSpells, SpellsReaders DEF n, G
<1>4. Measures(b, n, G, s)
    <2> SUFFICES ASSUME NEW i \in 1 .. n, NEW p \in 0 .. Len(b), G[i][p].ok
                 PROVE  G[i][p].offset = p + Len(s[i])
        BY DEF Measures
    <2> DEFINE y == Put[name][i][2]
               g == Get[name][i][2]
    <2>0. Len(s[i]) = g.width
        BY RowPieceType, Zenon
    <2>1. G[i][p] = GetPlain(g, b, p) /\ Alike(y, g) /\ Len(s[i]) = g.width
        BY <2>0, RowAt, RowTypes
    <2> HIDE DEF G, s, y, g
    <2>2. GetPlain(g, b, p).offset = p + g.width
        BY <2>1, PlainCanonical DEF From
    <2> QED BY <2>1, <2>2
<1>5. Concat(s) = PutRow(name, v) /\ GetRow(name, b, o) = Checked(name, Chain(n, G, o))
    BY RowAre
<1> HIDE DEF G, s
<1>7. Checked(name, Chain(n, G, o)).offset = o + Len(Concat(s))
    BY <1>1, <1>2, <1>3, <1>4, <1>5, FieldsAsFar
<1> QED BY <1>5, <1>7
-----------------------------------------------------------------------------
(* Strings and lists: a count and what is counted. *)

LEMMA JoinTwo ==
    ASSUME NEW x \in Seq(Byte), NEW y \in Seq(Byte)
    PROVE  x \o y \in Seq(Byte) /\ Len(x \o y) = Len(x) + Len(y)
OBVIOUS

LEMMA JoinTwoAt ==
    ASSUME NEW x \in Seq(Byte), NEW y \in Seq(Byte)
    PROVE  /\ \A i \in 1 .. Len(x) : i \in 1 .. Len(x \o y) /\ (x \o y)[i] = x[i]
           /\ \A i \in 1 .. Len(y) : /\ Len(x) + i \in 1 .. Len(x \o y)
                                     /\ (x \o y)[Len(x) + i] = y[i]
           /\ \A j \in 1 .. Len(x \o y) :
                j \in 1 .. Len(x) \/ \E i \in 1 .. Len(y) : j = Len(x) + i
<1> DEFINE z == x \o y
           k == Len(x)
           l == Len(y)
<1>1. k \in Nat /\ l \in Nat /\ z \in Seq(Byte) /\ Len(z) = k + l
    OBVIOUS
<1>2. \A i \in 1 .. k + l : z[i] = IF i <= k THEN x[i] ELSE y[i - k]
    OBVIOUS
<1> HIDE DEF z, k, l
<1>3. \A i \in 1 .. k : i \in 1 .. k + l /\ z[i] = x[i]
    BY <1>1, <1>2
<1>4. ASSUME NEW i \in 1 .. l
      PROVE  k + i \in 1 .. k + l /\ z[k + i] = y[i]
    <2>1. k + i \in 1 .. k + l /\ ~(k + i <= k) /\ (k + i) - k = i
        BY <1>1
    <2> QED BY <1>1, <1>2, <2>1
<1>5. ASSUME NEW j \in 1 .. k + l, j \notin 1 .. k
      PROVE  \E i \in 1 .. l : j = k + i
    <2>1. j - k \in 1 .. l /\ j = k + (j - k)
        BY <1>1, <1>5
    <2> QED BY <2>1
<1> QED BY <1>1, <1>3, <1>4, <1>5 DEF z, k, l

LEMMA HoldsTwo ==
    ASSUME NEW b, NEW o \in Nat, Len(b) \in Nat, NEW x \in Seq(Byte), NEW y \in Seq(Byte),
           Holds(b, o, x), Holds(b, o + Len(x), y)
    PROVE  Holds(b, o, x \o y)
<1> DEFINE z == x \o y
           k == Len(x)
           l == Len(y)
<1>1. k \in Nat /\ l \in Nat /\ Len(z) = k + l
    BY JoinTwo
<1>2. /\ \A i \in 1 .. k : z[i] = x[i]
      /\ \A i \in 1 .. l : z[k + i] = y[i]
      /\ \A j \in 1 .. Len(z) : j \in 1 .. k \/ \E i \in 1 .. l : j = k + i
    BY JoinTwoAt
<1>3. /\ (o + k) + l <= Len(b)
      /\ \A i \in 1 .. k : b[o + i] = x[i]
      /\ \A i \in 1 .. l : b[(o + k) + i] = y[i]
    BY DEF Holds
<1> HIDE DEF z, k, l
<1>4. o + Len(z) <= Len(b)
    BY <1>1, <1>3
<1>5. ASSUME NEW j \in 1 .. Len(z)
      PROVE  b[o + j] = z[j]
    <2>1. CASE j \in 1 .. k
        BY <1>2, <1>3, <2>1
    <2>2. CASE \E i \in 1 .. l : j = k + i
        <3>1. PICK i \in 1 .. l : j = k + i
            BY <2>2
        <3>2. (o + k) + i = o + (k + i)
            BY <1>1
        <3> QED BY <1>2, <1>3, <3>1, <3>2
    <2> QED BY <1>2, <2>1, <2>2
<1>6. Holds(b, o, z)
    BY <1>4, <1>5 DEF Holds
<1> QED BY <1>6 DEF z

LEMMA HoldsFirst ==
    ASSUME NEW b, NEW o \in Nat, Len(b) \in Nat, NEW x \in Seq(Byte), NEW y \in Seq(Byte),
           Holds(b, o, x \o y)
    PROVE  Holds(b, o, x) /\ Holds(b, o + Len(x), y)
<1> DEFINE z == x \o y
           k == Len(x)
           l == Len(y)
<1>1. k \in Nat /\ l \in Nat /\ Len(z) = k + l
    BY JoinTwo
<1>2. /\ \A i \in 1 .. k : i \in 1 .. Len(z) /\ z[i] = x[i]
      /\ \A i \in 1 .. l : k + i \in 1 .. Len(z) /\ z[k + i] = y[i]
    BY JoinTwoAt
<1>3. o + Len(z) <= Len(b) /\ \A i \in 1 .. Len(z) : b[o + i] = z[i]
    BY DEF Holds
<1> HIDE DEF z, k, l
<1>4. o + k <= Len(b) /\ (o + k) + l <= Len(b)
    BY <1>1, <1>3
<1>5. \A i \in 1 .. k : b[o + i] = x[i]
    BY <1>2, <1>3
<1>6. ASSUME NEW i \in 1 .. l
      PROVE  b[(o + k) + i] = y[i]
    <2>1. (o + k) + i = o + (k + i)
        BY <1>1
    <2> QED BY <1>2, <1>3, <2>1
<1> QED BY <1>4, <1>5, <1>6 DEF Holds, k, l

LEMMA MatchesFirst ==
    ASSUME NEW b, NEW o \in Nat, Len(b) \in Nat, NEW x \in Seq(Byte), NEW y \in Seq(Byte),
           Matches(b, o, x \o y)
    PROVE  Matches(b, o, x) /\ Matches(b, o + Len(x), y)
<1> DEFINE z == x \o y
           k == Len(x)
           l == Len(y)
<1>1. k \in Nat /\ l \in Nat
    OBVIOUS
<1>2. /\ \A i \in 1 .. k : i \in 1 .. Len(z) /\ z[i] = x[i]
      /\ \A i \in 1 .. l : k + i \in 1 .. Len(z) /\ z[k + i] = y[i]
    BY JoinTwoAt
<1>3. \A i \in 1 .. Len(z) : o + i <= Len(b) => b[o + i] = z[i]
    BY DEF Matches
<1> HIDE DEF z, k, l
<1>5. \A i \in 1 .. k : o + i <= Len(b) => b[o + i] = x[i]
    BY <1>2, <1>3
<1>6. ASSUME NEW i \in 1 .. l, (o + k) + i <= Len(b)
      PROVE  b[(o + k) + i] = y[i]
    <2>1. (o + k) + i = o + (k + i)
        BY <1>1
    <2> QED BY <1>2, <1>3, <1>6, <2>1
<1> QED BY <1>5, <1>6 DEF Matches, k, l

\* A count is a number without more limits than its width.
LEMMA TwoDigits ==
    ASSUME NEW n \in Nat
    PROVE  Digits(n, 2) \in Seq(Byte) /\ Len(Digits(n, 2)) = 2
<1> DEFINE w == 2
<1>1. w \in 0 .. 8
    OBVIOUS
<1> HIDE DEF w
<1>2. Digits(n, w) \in Seq(Byte) /\ Len(Digits(n, w)) = w
    BY <1>1, DigitsType
<1> QED BY <1>2 DEF w

LEMMA CountType ==
    ASSUME NEW w \in {2, 4}
    PROVE  /\ Alike(U(w), U(w)) /\ U(w).width = w /\ U(w).most = Top(w) /\ Top(w) \in Nat
           /\ \A n \in 0 .. Top(w) : /\ FitsPlain(U(w), n) /\ LegalPlain(U(w), n)
                                     /\ PutPlain(U(w), n) = Digits(n, w)
           /\ \A n : PutPlain(U(w), n) = Digits(n, w)
<1>1. U(w).as = "number" /\ U(w).width = w /\ U(w).most = Top(w)
    BY DEF U
<1>2. Top(w) \in Nat
    BY TopFacts
<1>3. Alike(U(w), U(w))
    <2>1. w \in 1 .. 8 /\ Top(w) \in 0 .. Top(w)
        BY <1>2
    <2> QED BY <1>1, <2>1 DEF Alike, PlainType, Plain
<1>4. ASSUME NEW n
      PROVE  PutPlain(U(w), n) = Digits(n, w)
    BY <1>1 DEF PutPlain, Carried
<1>5. ASSUME NEW n \in 0 .. Top(w)
      PROVE  FitsPlain(U(w), n) /\ LegalPlain(U(w), n)
    BY <1>1, <1>5 DEF FitsPlain, LegalPlain
<1> QED BY <1>1, <1>2, <1>3, <1>4, <1>5

\* What is counted is read after its count, which is not past the limit.
LEMMA CountCanonical ==
    ASSUME NEW w \in {2, 4}, NEW b \in Seq(Byte), NEW o \in 0 .. Len(b), GetPlain(U(w), b, o).ok
    PROVE  LET c == GetPlain(U(w), b, o)
           IN  /\ c.value \in Nat /\ c.offset = o + w /\ o + w \in 0 .. Len(b)
               /\ Digits(c.value, w) \in Seq(Byte) /\ Len(Digits(c.value, w)) = w
               /\ Holds(b, o, Digits(c.value, w))
<1> DEFINE g == U(w)
           c == GetPlain(g, b, o)
           n == Number(b, o, w)
<1>1. Alike(g, g) /\ g.width = w /\ g.as = "number" /\ PlainType(g)
    <2>1. Alike(g, g) /\ g.width = w
        BY CountType
    <2>2. g.as = "number"
        BY DEF U
    <2> QED BY <2>1, <2>2 DEF Alike
<1>2. PutPlain(g, c.value) = Digits(c.value, w)
    BY CountType
<1>4. c = Done(o + w, Understood(g, n)) /\ n \in 0 .. g.most /\ o + w <= Len(b)
    <2> HIDE DEF g
    <2> QED BY <1>1, GetPlainOk DEF g
<1>5. Understood(g, n) = n
    BY <1>1 DEF Understood
<1> HIDE DEF g, c, n
<1>6. c.value = n /\ c.offset = o + w
    BY <1>4, <1>5, RecordFacts
<1>7. From(b, o, c, PutPlain(g, c.value)) /\ Len(PutPlain(g, c.value)) = w
    <2>1. c.ok
        BY DEF c, g
    <2> QED BY <1>1, <2>1, PlainCanonical DEF c
<1>8. o + w \in 0 .. Len(b) /\ n \in Nat
    <2>1. Len(b) \in Nat /\ g.most \in Nat
        BY CountType DEF g
    <2> QED BY <1>4, <2>1
<1> QED BY <1>2, <1>6, <1>7, <1>8 DEF From, c, g

\* A count that stands there is read.
LEMMA CountBack ==
    ASSUME NEW w \in {2, 4}, NEW b \in Seq(Byte), NEW o \in 0 .. Len(b), NEW m \in 0 .. Top(w),
           Holds(b, o, Digits(m, w))
    PROVE  GetPlain(U(w), b, o) = Done(o + w, m)
<1> DEFINE g == U(w)
<1>1. /\ Alike(g, g) /\ FitsPlain(g, m) /\ LegalPlain(g, m)
      /\ PutPlain(g, m) = Digits(m, w) /\ g.width = w
    BY CountType
<1> HIDE DEF g
<1>2. Len(PutPlain(g, m)) = w
    BY <1>1, PutPlainType
<1> QED BY <1>1, <1>2, PlainBack DEF g

\* And a count that is read is the one that stands there.
LEMMA CountAsFar ==
    ASSUME NEW w \in {2, 4}, NEW b \in Seq(Byte), NEW o \in 0 .. Len(b), NEW m \in 0 .. Top(w),
           Matches(b, o, Digits(m, w)), GetPlain(U(w), b, o).ok
    PROVE  GetPlain(U(w), b, o) = Done(o + w, m)
<1> DEFINE d == Digits(m, w)
<1>1. o + w \in 0 .. Len(b)
    BY CountCanonical
<1>2. Len(d) = w
    <2>1. m \in Nat /\ w \in 0 .. 8
        <3>1. Top(w) \in Nat
            BY CountType
        <3> QED BY <3>1
    <2> QED BY <2>1, DigitsType
<1> HIDE DEF d
<1>3. Holds(b, o, d)
    <2>1. o + w <= Len(b) /\ o \in Int /\ Len(b) \in Nat
        BY <1>1
    <2>2. ASSUME NEW i \in 1 .. w
          PROVE  b[o + i] = d[i]
        <3>1. o + i <= Len(b)
            BY <2>1
        <3> QED BY <1>2, <3>1 DEF Matches, d
    <2> QED BY <1>2, <2>1, <2>2 DEF Holds
<1> QED BY <1>3, CountBack DEF d

LEMMA LimitFacts ==
    /\ \A name \in StringLimits : limits[name] \in Nat /\ limits[name] <= Top(2)
    /\ \A name \in ListLimits : limits[name] \in Nat /\ limits[name] <= Top(4)
<1>1. /\ \A name \in StringLimits : limits[name] \in Nat /\ limits[name] < Base * Base
      /\ \A name \in ListLimits : limits[name] \in Nat /\ limits[name] < Base * Base * Base * Base
    BY WireAssumption
<1>2. Values[0] = 1 /\ Values[1] = Values[0] * Base /\ Values[2] = Values[1] * Base
    BY ValuesFacts
<1>3. Values[3] = Values[2] * Base /\ Values[4] = Values[3] * Base
    BY ValuesFacts
<1>4. Values[1] = Base
    BY <1>2, BaseFacts
<1>5. Values[2] = Base * Base /\ Values[4] = Base * Base * Base * Base
    BY <1>2, <1>3, <1>4
<1>6. \A n \in Nat : (n < Values[2] => n <= Top(2)) /\ (n < Values[4] => n <= Top(4))
    BY TopFacts
<1> QED BY <1>1, <1>5, <1>6

StringTypes(p, g) ==
    /\ p.as = "string" /\ g.as = "string" /\ p.most = g.most
    /\ g.most \in StringLimits

\* What is written of a string: its first bytes, as many as the limit admits.
LEMMA ClippedFacts ==
    ASSUME NEW most \in StringLimits, NEW v \in Seq(Byte)
    PROVE  /\ Clipped(v, most) \in Seq(Byte)
           /\ Len(Clipped(v, most)) <= limits[most] /\ Len(Clipped(v, most)) \in 0 .. Top(2)
           /\ Len(v) <= limits[most] => Clipped(v, most) = v
<1> DEFINE m == limits[most]
           l == Len(v)
           k == Least(l, m)
           c == SubSeq(v, 1, k)
<1>1. m \in Nat /\ m <= Top(2) /\ l \in Nat /\ Top(2) \in Nat
    BY LimitFacts, TopFacts
<1>2. k \in Nat /\ k <= l /\ k <= m /\ (l <= m => k = l)
    <2> HIDE DEF m, l
    <2> QED BY <1>1 DEF Least
<1> HIDE DEF k, m
<1>3. c \in Seq(Byte) /\ Len(c) = k /\ \A i \in 1 .. k : c[i] = v[i]
    BY <1>2
<1>4. l <= m => c = v
    <2>1. SUFFICES ASSUME l <= m PROVE c = v
        OBVIOUS
    <2>2. k = Len(v)
        BY <1>2, <2>1
    <2> QED BY <1>3, <2>2, SeqEqual
<1>5. k \in 0 .. Top(2)
    BY <1>1, <1>2
<1>6. Clipped(v, most) = c
    BY DEF Clipped, k, m
<1> HIDE DEF c, l
<1> QED BY <1>2, <1>3, <1>4, <1>5, <1>6 DEF m, l

LEMMA StringPut ==
    ASSUME NEW p, NEW g, StringTypes(p, g), NEW v
    PROVE  /\ PutField(p, v) = Digits(Len(Clipped(v, g.most)), 2) \o Clipped(v, g.most)
           /\ FitsField(p, v) <=> v \in Seq(Byte)
           /\ LegalField(g, v) <=> Len(v) <= limits[g.most]
BY DEF StringTypes, PutField, FitsField, LegalField, Byte

LEMMA StringSize ==
    ASSUME NEW p, NEW g, StringTypes(p, g)
    PROVE  MaxSize(g, limits) = 2 + limits[g.most]
BY DEF StringTypes, MaxSize

LEMMA StringGet ==
    ASSUME NEW g, g.as = "string", NEW b, NEW o
    PROVE  LET c == GetPlain(U(2), b, o)
               e == c.offset + c.value
           IN  GetField(g, b, o) =
                 IF ~c.ok THEN c
                 ELSE IF c.value > limits[g.most] \/ e > Len(b) THEN Refused(o)
                 ELSE Done(e, SubSeq(b, c.offset + 1, e))
BY DEF GetField, GetString, U16

LEMMA PutStringType ==
    ASSUME NEW p, NEW g, StringTypes(p, g), NEW v, FitsField(p, v)
    PROVE  PutField(p, v) \in Seq(Byte) /\ Len(PutField(p, v)) <= MaxSize(g, limits)
<1> DEFINE c == Clipped(v, g.most)
           l == Len(c)
           m == limits[g.most]
           d == Digits(l, 2)
<1>1. v \in Seq(Byte) /\ g.most \in StringLimits
    <2>1. v \in Seq(Byte)
        BY StringPut
    <2>2. g.most \in StringLimits
        BY DEF StringTypes
    <2> QED BY <2>1, <2>2
<1>2. c \in Seq(Byte) /\ l <= m /\ l \in Nat /\ m \in Nat
    <2>1. c \in Seq(Byte) /\ l <= m
        BY <1>1, ClippedFacts
    <2>2. m \in Nat
        BY <1>1, LimitFacts
    <2> HIDE DEF c, m
    <2> QED BY <2>1, <2>2
<1> HIDE DEF l
<1>3. d \in Seq(Byte) /\ Len(d) = 2
    BY <1>2, TwoDigits
<1> HIDE DEF c, d
<1>4. d \o c \in Seq(Byte) /\ Len(d \o c) = 2 + l
    BY <1>2, <1>3, JoinTwo DEF l
<1>5. PutField(p, v) = d \o c /\ MaxSize(g, limits) = 2 + m
    BY StringPut, StringSize DEF c, d, l
<1> HIDE DEF m
<1> QED BY <1>2, <1>4, <1>5

LEMMA StringCanonical ==
    ASSUME NEW p, NEW g, StringTypes(p, g), NEW b \in Seq(Byte), NEW o \in 0 .. Len(b),
           GetField(g, b, o).ok
    PROVE  /\ From(b, o, GetField(g, b, o), PutField(p, GetField(g, b, o).value))
           /\ Len(PutField(p, GetField(g, b, o).value)) <= MaxSize(g, limits)
<1> DEFINE c == GetPlain(U(2), b, o)
           e == c.offset + c.value
           r == GetField(g, b, o)
           m == limits[g.most]
           L == Len(b)
<1>0. L \in Nat /\ o \in Nat /\ g.most \in StringLimits /\ m \in Nat
    BY LimitFacts DEF StringTypes
<1>1. r = IF ~c.ok THEN c ELSE IF c.value > m \/ e > L THEN Refused(o)
          ELSE Done(e, SubSeq(b, c.offset + 1, e))
    BY StringGet DEF StringTypes
<1>2. r.ok
    OBVIOUS
<1> HIDE DEF r, c, e, m, L
<1>3. c.ok /\ ~(c.value > m) /\ ~(e > L) /\ r = Done(e, SubSeq(b, c.offset + 1, e))
    BY <1>1, <1>2, RecordFacts
<1> DEFINE n == c.value
           d == Digits(n, 2)
           s == SubSeq(b, o + 3, e)
<1>4. /\ n \in Nat /\ c.offset = o + 2 /\ o + 2 \in 0 .. L /\ Holds(b, o, d)
      /\ d \in Seq(Byte) /\ Len(d) = 2
    BY <1>3, CountCanonical DEF c, L
<1>5. e = o + 2 + n /\ n <= m /\ o + 2 + n <= L /\ c.offset + 1 = o + 3
    BY <1>0, <1>3, <1>4 DEF e
<1> HIDE DEF n
<1>6. s \in Seq(Byte) /\ Len(s) = n /\ \A i \in 1 .. n : s[i] = b[(o + 2) + i]
    <2>1. \A i \in o + 3 .. e : b[i] \in Byte
        BY <1>0, <1>4, <1>5 DEF L
    <2>2. e - (o + 3) + 1 = n /\ e \in Nat /\ o + 3 \in Nat /\ o + 3 <= e + 1
        BY <1>0, <1>4, <1>5
    <2>3. s \in Seq(Byte) /\ Len(s) = IF o + 3 <= e THEN e - (o + 3) + 1 ELSE 0
        BY <1>0, <1>4, <1>5, <2>1, <2>2 DEF L
    <2>4. \A i \in 1 .. e - (o + 3) + 1 : s[i] = b[(o + 3) + i - 1]
        BY <1>0, <2>2
    <2>5. Len(s) = n
        BY <1>0, <1>4, <2>2, <2>3
    <2>6. \A i \in 1 .. n : (o + 3) + i - 1 = (o + 2) + i
        BY <1>0, <1>4
    <2> HIDE DEF s
    <2> QED BY <2>2, <2>3, <2>4, <2>5, <2>6
<1> HIDE DEF d, s
<1>7. Holds(b, o + 2, s)
    BY <1>5, <1>6 DEF Holds, L
<1>8. d \o s \in Seq(Byte) /\ Len(d \o s) = 2 + n /\ Holds(b, o, d \o s)
    <2>1. Len(b) \in Nat
        BY <1>0 DEF L
    <2>2. Holds(b, o + Len(d), s)
        BY <1>4, <1>7
    <2>3. Holds(b, o, d \o s)
        BY <1>0, <1>4, <1>6, <2>1, <2>2, HoldsTwo
    <2>4. d \o s \in Seq(Byte) /\ Len(d \o s) = Len(d) + Len(s)
        BY <1>4, <1>6, JoinTwo
    <2> QED BY <1>4, <1>6, <2>3, <2>4
<1>9. r = Done(e, s)
    BY <1>3, <1>5 DEF s
<1>10. r.offset = e /\ r.value = s
    BY <1>9, RecordFacts
<1>11. Clipped(s, g.most) = s
    BY <1>0, <1>5, <1>6, ClippedFacts DEF m
<1>12. PutField(p, s) = d \o s /\ MaxSize(g, limits) = 2 + m
    <2>1. PutField(p, s) = Digits(Len(Clipped(s, g.most)), 2) \o Clipped(s, g.most)
        BY StringPut
    <2>2. PutField(p, s) = d \o s
        BY <1>6, <1>11, <2>1 DEF d
    <2> QED BY <2>2, StringSize DEF m
<1>13. e = o + (2 + n) /\ 2 + n <= 2 + m
    BY <1>0, <1>4, <1>5
<1> QED BY <1>8, <1>10, <1>12, <1>13 DEF From, r

LEMMA StringBack ==
    ASSUME NEW p, NEW g, StringTypes(p, g), NEW b \in Seq(Byte), NEW o \in 0 .. Len(b),
           NEW v, FitsField(p, v), LegalField(g, v), Holds(b, o, PutField(p, v))
    PROVE  GetField(g, b, o) = Done(o + Len(PutField(p, v)), v)
<1> DEFINE c == GetPlain(U(2), b, o)
           e == c.offset + c.value
           r == GetField(g, b, o)
           m == limits[g.most]
           n == Len(v)
           d == Digits(n, 2)
           L == Len(b)
<1>0. L \in Nat /\ o \in Nat /\ g.most \in StringLimits /\ m \in Nat
    BY LimitFacts DEF StringTypes
<1>1. v \in Seq(Byte) /\ n <= m /\ n \in Nat
    <2>1. v \in Seq(Byte)
        BY StringPut
    <2>2. n <= m
        BY StringPut, Zenon
    <2> QED BY <2>1, <2>2
<1>2. Clipped(v, g.most) = v /\ n \in 0 .. Top(2)
    BY <1>0, <1>1, ClippedFacts
<1>3. PutField(p, v) = d \o v
    BY <1>2, StringPut
<1>4. d \in Seq(Byte) /\ Len(d) = 2
    <2> HIDE DEF n
    <2> QED BY <1>1, TwoDigits
<1>5. r = IF ~c.ok THEN c ELSE IF c.value > m \/ e > L THEN Refused(o)
          ELSE Done(e, SubSeq(b, c.offset + 1, e))
    BY StringGet DEF StringTypes
<1> HIDE DEF d, m, r
<1>6. Holds(b, o, d) /\ Holds(b, o + 2, v) /\ Len(d \o v) = 2 + n
    <2>1. Len(b) \in Nat
        OBVIOUS
    <2> QED BY <1>0, <1>1, <1>3, <1>4, <2>1, HoldsFirst, JoinTwo
<1>7. c = Done(o + 2, n)
    BY <1>2, <1>6, CountBack DEF d
<1> HIDE DEF c, n
<1>8. c.ok = TRUE /\ c.offset = o + 2 /\ c.value = n
    BY <1>7, RecordFacts
<1>9. /\ e = (o + 2) + n /\ e <= L /\ ~(n > m) /\ ~(e > L) /\ c.offset + 1 = o + 3
      /\ \A i \in 1 .. n : b[(o + 2) + i] = v[i]
    <2>1. (o + 2) + n <= L /\ \A i \in 1 .. n : b[(o + 2) + i] = v[i]
        BY <1>6 DEF Holds, n, L
    <2> HIDE DEF L
    <2> QED BY <1>0, <1>1, <1>8, <2>1
<1> DEFINE s == SubSeq(b, o + 3, e)
<1>10. s = v
    <2> HIDE DEF e
    <2>1. \A i \in o + 3 .. e : b[i] \in Byte
        BY <1>0, <1>1, <1>9 DEF L
    <2>2. e - (o + 3) + 1 = n /\ e \in Nat /\ o + 3 \in Nat /\ o + 3 <= e + 1
        BY <1>0, <1>1, <1>9
    <2>3. s \in Seq(Byte) /\ Len(s) = IF o + 3 <= e THEN e - (o + 3) + 1 ELSE 0
        BY <1>0, <1>1, <1>9, <2>1, <2>2 DEF L
    <2>4. \A i \in 1 .. e - (o + 3) + 1 : s[i] = b[(o + 3) + i - 1]
        BY <1>0, <2>2
    <2>5. Len(s) = n
        BY <1>0, <1>1, <2>2, <2>3
    <2>6. \A i \in 1 .. n : (o + 3) + i - 1 = (o + 2) + i
        BY <1>0, <1>1
    <2> HIDE DEF s
    <2>7. \A i \in 1 .. n : s[i] = v[i]
        BY <1>9, <2>2, <2>4, <2>6
    <2> QED BY <1>1, <2>3, <2>5, <2>7, SeqEqual DEF n
<1> HIDE DEF e, L, s
<1>11. r = Done(e, s)
    BY <1>5, <1>8, <1>9 DEF s
<1>12. e = o + (2 + n)
    BY <1>0, <1>1, <1>9
<1> QED BY <1>3, <1>6, <1>10, <1>11, <1>12 DEF r

LEMMA StringAsFar ==
    ASSUME NEW p, NEW g, StringTypes(p, g), NEW b \in Seq(Byte), NEW o \in 0 .. Len(b),
           NEW v, FitsField(p, v), Matches(b, o, PutField(p, v)), GetField(g, b, o).ok
    PROVE  GetField(g, b, o).offset = o + Len(PutField(p, v))
<1> DEFINE c == GetPlain(U(2), b, o)
           e == c.offset + c.value
           r == GetField(g, b, o)
           x == Clipped(v, g.most)
           n == Len(x)
           d == Digits(n, 2)
           L == Len(b)
<1>0. L \in Nat /\ o \in Nat /\ g.most \in StringLimits
    BY LimitFacts DEF StringTypes
<1>1. v \in Seq(Byte)
    BY StringPut
<1>2. x \in Seq(Byte) /\ n \in 0 .. Top(2)
    BY <1>0, <1>1, ClippedFacts
<1>3. PutField(p, v) = d \o x
    BY StringPut
<1> HIDE DEF x
<1>4. d \in Seq(Byte) /\ Len(d) = 2 /\ n \in Nat
    <2>1. n \in Nat
        BY <1>2
    <2> HIDE DEF n
    <2> QED BY <2>1, TwoDigits
<1>5. r = IF ~c.ok THEN c ELSE IF c.value > limits[g.most] \/ e > L THEN Refused(o)
          ELSE Done(e, SubSeq(b, c.offset + 1, e))
    BY StringGet DEF StringTypes
<1>6. r.ok
    OBVIOUS
<1> HIDE DEF d, r
<1>7. Matches(b, o, d) /\ Len(d \o x) = 2 + n
    <2>1. Len(b) \in Nat
        OBVIOUS
    <2>2. Matches(b, o, d)
        BY <1>0, <1>2, <1>3, <1>4, <2>1, MatchesFirst
    <2>3. Len(d \o x) = Len(d) + Len(x)
        BY <1>2, <1>4, JoinTwo
    <2> QED BY <1>4, <2>2, <2>3
<1> HIDE DEF c, e, L
<1>8. c.ok /\ r.offset = e
    BY <1>5, <1>6, RecordFacts
<1>9. c = Done(o + 2, n)
    <2> HIDE DEF n
    <2> QED BY <1>2, <1>7, <1>8, CountAsFar DEF c, d
<1> HIDE DEF n
<1>10. e = (o + 2) + n
    BY <1>9, RecordFacts DEF e
<1>11. e = o + (2 + n)
    BY <1>0, <1>4, <1>10
<1> QED BY <1>3, <1>7, <1>8, <1>11 DEF r

ListTypes(p, g) ==
    /\ p.as = "list" /\ g.as = "list" /\ p.of = g.of
    /\ g.most \in ListLimits /\ AgreeRow(g.of)

\* The readers of the elements, the bytes they accept, and the bytes of a list's elements.
ListReaders(name, b, m) == [i \in 1 .. m |-> [p \in 0 .. Len(b) |-> GetRow(name, b, p)]]
ListBytes(name, b, m) ==
    [i \in 1 .. m |-> [p \in 0 .. Len(b) |-> PutRow(name, GetRow(name, b, p).value)]]
ListPieces(name, v) == [i \in DOMAIN v |-> PutRow(name, v[i])]

\* A list that the program may hold.
FitsList(name, v) ==
    /\ Len(v) \in 0 .. Top(4) /\ DOMAIN v = 1 .. Len(v)
    /\ v = [i \in 1 .. Len(v) |-> v[i]]
    /\ \A i \in DOMAIN v : FitsRow(name, v[i])

LEMMA ListPut ==
    ASSUME NEW p, NEW g, ListTypes(p, g), NEW v
    PROVE  PutField(p, v) = Digits(Len(v), 4) \o Concat(ListPieces(g.of, v))
BY DEF ListTypes, PutField, ListPieces

LEMMA ListFits ==
    ASSUME NEW p, NEW g, ListTypes(p, g), NEW v, FitsField(p, v)
    PROVE  FitsList(g.of, v)
BY DEF ListTypes, FitsField, FitsList

LEMMA ListLegal ==
    ASSUME NEW p, NEW g, ListTypes(p, g), NEW v, LegalField(g, v)
    PROVE  Len(v) <= limits[g.most] /\ \A i \in DOMAIN v : LegalRow(g.of, v[i])
BY DEF ListTypes, LegalField

LEMMA ListSize ==
    ASSUME NEW p, NEW g, ListTypes(p, g)
    PROVE  MaxSize(g, limits) = 4 + limits[g.most] * RowSize(g.of)
BY DEF ListTypes, MaxSize

LEMMA ListGet ==
    ASSUME NEW g, g.as = "list", NEW b, NEW o
    PROVE  LET c == GetPlain(U(4), b, o)
           IN  GetField(g, b, o) =
                 IF ~c.ok THEN c
                 ELSE IF c.value > limits[g.most] THEN Refused(o)
                 ELSE Chain(c.value, ListReaders(g.of, b, c.value), c.offset)
BY DEF GetField, GetList, ListReaders, U32

LEMMA ListAt ==
    ASSUME NEW name, NEW b, NEW m, NEW i \in 1 .. m, NEW p \in 0 .. Len(b)
    PROVE  /\ ListReaders(name, b, m)[i][p] = GetRow(name, b, p)
           /\ ListBytes(name, b, m)[i][p] = PutRow(name, GetRow(name, b, p).value)
BY DEF ListReaders, ListBytes

LEMMA ListSpells ==
    ASSUME NEW name, AgreeRow(name), NEW b \in Seq(Byte), NEW m \in Nat
    PROVE  /\ Spells(b, m, ListReaders(name, b, m), ListBytes(name, b, m))
           /\ Readers(m, ListReaders(name, b, m), Len(b))
<1> DEFINE G == ListReaders(name, b, m)
           S == ListBytes(name, b, m)
<1>1. Spells(b, m, G, S)
    <2> SUFFICES ASSUME NEW i \in 1 .. m, NEW p \in 0 .. Len(b), G[i][p].ok
                 PROVE  From(b, p, G[i][p], S[i][p])
        BY DEF Spells
    <2>1. G[i][p] = GetRow(name, b, p) /\ S[i][p] = PutRow(name, GetRow(name, b, p).value)
        BY ListAt
    <2> HIDE DEF G, S
    <2>2. From(b, p, GetRow(name, b, p), PutRow(name, GetRow(name, b, p).value))
        BY <2>1, RowCanonical
    <2> QED BY <2>1, <2>2
<1> HIDE DEF G, S
<1>2. Readers(m, G, Len(b))
    BY <1>1, SpellsReaders
<1> QED BY <1>1, <1>2 DEF G, S

LEMMA ListPiecesType ==
    ASSUME NEW name, AgreeRow(name), NEW v, FitsList(name, v)
    PROVE  /\ ListPieces(name, v) \in [1 .. Len(v) -> Seq(Byte)]
           /\ Len(v) \in Nat
           /\ Digits(Len(v), 4) \in Seq(Byte) /\ Len(Digits(Len(v), 4)) = 4
           /\ Concat(ListPieces(name, v)) \in Seq(Byte)
           /\ RowSize(name) \in Nat /\ Len(Concat(ListPieces(name, v))) <= Len(v) * RowSize(name)
<1> DEFINE n == Len(v)
           s == ListPieces(name, v)
           w == RowSize(name)
           d == Digits(n, 4)
<1>1. n \in Nat /\ DOMAIN v = 1 .. n
    BY TopFacts DEF FitsList
<1>2. ASSUME NEW i \in 1 .. n
      PROVE  s[i] = PutRow(name, v[i]) /\ s[i] \in Seq(Byte) /\ Len(s[i]) <= w
    <2>1. FitsRow(name, v[i]) /\ s[i] = PutRow(name, v[i])
        BY <1>1 DEF FitsList, ListPieces
    <2> HIDE DEF s
    <2> QED BY <2>1, PutRowType
<1>3. s = [i \in 1 .. n |-> s[i]]
    BY <1>1 DEF ListPieces
<1>4. w \in Nat
    BY RowSizeType
<1> HIDE DEF n, s, w
<1>5. s \in [1 .. n -> Seq(Byte)]
    BY <1>2, <1>3
<1>6. Concat(s) \in Seq(Byte)
    <2>1. \E t : Ends(n, s, t) /\ Joined(Byte, s, t, n, Concat(s))
        BY <1>1, <1>5, ConcatJoins
    <2> QED BY <2>1 DEF Joined
<1>7. Len(Concat(s)) <= n * w
    BY <1>1, <1>2, <1>4, <1>5, ConcatSizeEqual
<1>8. d \in Seq(Byte) /\ Len(d) = 4
    BY <1>1, DigitsType
<1> QED BY <1>1, <1>4, <1>5, <1>6, <1>7, <1>8 DEF n, s, w

LEMMA PutListType ==
    ASSUME NEW p, NEW g, ListTypes(p, g), NEW v, FitsField(p, v)
    PROVE  /\ PutField(p, v) \in Seq(Byte)
           /\ LegalField(g, v) => Len(PutField(p, v)) <= MaxSize(g, limits)
<1> DEFINE n == Len(v)
           d == Digits(n, 4)
           c == Concat(ListPieces(g.of, v))
           m == limits[g.most]
           w == RowSize(g.of)
<1>1. /\ FitsList(g.of, v) /\ AgreeRow(g.of) /\ g.most \in ListLimits
      /\ PutField(p, v) = d \o c /\ MaxSize(g, limits) = 4 + m * w
    BY ListFits, ListPut, ListSize DEF ListTypes
<1>2. /\ n \in Nat /\ d \in Seq(Byte) /\ Len(d) = 4 /\ c \in Seq(Byte)
      /\ w \in Nat /\ Len(c) <= n * w /\ m \in Nat
    BY <1>1, ListPiecesType, LimitFacts
<1>3. LegalField(g, v) => n <= m
    BY ListLegal
<1> HIDE DEF n, d, c, m, w
<1>4. d \o c \in Seq(Byte) /\ Len(d \o c) = 4 + Len(c) /\ Len(c) \in Nat
    <2>1. d \o c \in Seq(Byte) /\ Len(d \o c) = Len(d) + Len(c)
        BY <1>2, JoinTwo
    <2> QED BY <1>2, <2>1
<1>5. n <= m => Len(c) <= m * w
    <2> DEFINE k == Len(c)
    <2>1. k \in Nat /\ k <= n * w
        BY <1>2, <1>4
    <2>2. n <= m => n * w <= m * w
        BY <1>2
    <2>3. n * w \in Int /\ m * w \in Int
        BY <1>2
    <2> HIDE DEF k
    <2>4. n <= m => k <= m * w
        BY <2>1, <2>2, <2>3
    <2> QED BY <2>4 DEF k
<1>6. n <= m => 4 + Len(c) <= 4 + m * w
    <2> DEFINE x == m * w
               k == Len(c)
    <2>1. x \in Int /\ k \in Nat /\ (n <= m => k <= x)
        BY <1>2, <1>4, <1>5
    <2> HIDE DEF x, k
    <2>2. n <= m => 4 + k <= 4 + x
        BY <2>1
    <2> QED BY <2>2 DEF x, k
<1> QED BY <1>1, <1>3, <1>4, <1>6

LEMMA ValuesOf ==
    ASSUME NEW m \in Nat, NEW e
    PROVE  Len([i \in 1 .. m |-> e[i]]) = m
<1> DEFINE S == {e[i] : i \in 1 .. m}
           u == [i \in 1 .. m |-> e[i]]
<1>1. u \in [1 .. m -> S]
    OBVIOUS
<1> HIDE DEF u, S
<1>2. Len(u) = m
    BY <1>1
<1> QED BY <1>2 DEF u

LEMMA ListCanonical ==
    ASSUME NEW p, NEW g, ListTypes(p, g), NEW b \in Seq(Byte), NEW o \in 0 .. Len(b),
           GetField(g, b, o).ok
    PROVE  /\ From(b, o, GetField(g, b, o), PutField(p, GetField(g, b, o).value))
           /\ Len(PutField(p, GetField(g, b, o).value)) <= MaxSize(g, limits)
<1> DEFINE c == GetPlain(U(4), b, o)
           m == c.value
           name == g.of
           G == ListReaders(name, b, m)
           S == ListBytes(name, b, m)
           r == GetField(g, b, o)
           k == limits[g.most]
           w == RowSize(name)
           L == Len(b)
<1>0. L \in Nat /\ o \in Nat /\ g.most \in ListLimits /\ k \in Nat /\ AgreeRow(name)
    BY LimitFacts DEF ListTypes
<1>1. r = IF ~c.ok THEN c ELSE IF m > k THEN Refused(o) ELSE Chain(m, G, c.offset)
    BY ListGet DEF ListTypes
<1>2. r.ok
    OBVIOUS
<1>3. c.ok /\ ~(m > k) /\ r = Chain(m, G, c.offset)
    <2> HIDE DEF r, c, m, k, G
    <2> QED BY <1>1, <1>2, RecordFacts
<1> DEFINE d == Digits(m, 4)
<1>4. /\ m \in Nat /\ c.offset = o + 4 /\ o + 4 \in 0 .. L /\ Holds(b, o, d)
      /\ d \in Seq(Byte) /\ Len(d) = 4
    BY <1>3, CountCanonical
<1>5. Spells(b, m, G, S)
    <2> HIDE DEF m
    <2> QED BY <1>0, <1>4, ListSpells
<1> HIDE DEF m, c, G, S, r, k, w
<1>6. PICK u : Spelled(b, m, G, S, o + 4, u)
    <2>1. Chain(m, G, o + 4).ok
        BY <1>2, <1>3, <1>4
    <2> QED BY <1>4, <1>5, <2>1, ReadsCanonically
<1> DEFINE s == [i \in 1 .. m |-> S[i][u[i - 1]]]
           e == [i \in 1 .. m |-> G[i][u[i - 1]].value]
<1>7. /\ u \in [0 .. m -> 0 .. Len(b)]
      /\ \A i \in 1 .. m : G[i][u[i - 1]].ok
      /\ Chain(m, G, o + 4) = Done(u[m], e)
      /\ s \in [1 .. m -> Seq(Byte)] /\ Holds(b, o + 4, Concat(s))
      /\ u[m] = (o + 4) + Len(Concat(s))
    BY <1>6 DEF Spelled, Went, Way
<1>8. r.offset = u[m] /\ r.value = e
    <2> HIDE DEF e
    <2> QED BY <1>3, <1>4, <1>7, RecordFacts
<1>9. ASSUME NEW i \in 1 .. m
      PROVE  s[i] = PutRow(name, e[i]) /\ Len(s[i]) <= w /\ w \in Nat
    <2> DEFINE q == u[i - 1]
    <2>0. i - 1 \in 0 .. m
        BY <1>4
    <2>1. q \in 0 .. Len(b) /\ G[i][q].ok
        BY <1>7, <2>0
    <2>2. s[i] = S[i][q] /\ e[i] = G[i][q].value
        OBVIOUS
    <2> HIDE DEF q, s, e
    <2>3. G[i][q] = GetRow(name, b, q) /\ S[i][q] = PutRow(name, GetRow(name, b, q).value)
        BY <2>1, ListAt DEF G, S
    <2>4. Len(PutRow(name, GetRow(name, b, q).value)) <= w
        BY <1>0, <2>1, <2>3, RowCanonical DEF w
    <2>5. w \in Nat
        BY <1>0, RowSizeType DEF w
    <2> QED BY <2>2, <2>3, <2>4, <2>5
<1>10. s = ListPieces(name, e) /\ Len(e) = m
    <2>1. s = [i \in 1 .. m |-> PutRow(name, e[i])]
        BY <1>9
    <2>2. DOMAIN e = 1 .. m
        OBVIOUS
    <2>3. Len(e) = m
        <3> DEFINE f == [i \in 1 .. m |-> G[i][u[i - 1]].value]
        <3>1. e = [i \in 1 .. m |-> f[i]]
            OBVIOUS
        <3> HIDE DEF e, f
        <3> QED BY <1>4, <3>1, ValuesOf
    <2> HIDE DEF s, e
    <2> QED BY <2>1, <2>2, <2>3 DEF ListPieces
<1> DEFINE x == Concat(s)
<1>11. PutField(p, e) = d \o x
    <2>1. PutField(p, e) = Digits(Len(e), 4) \o Concat(ListPieces(name, e))
        <3> HIDE DEF e
        <3> QED BY ListPut
    <2> HIDE DEF e, s
    <2> QED BY <1>10, <2>1
<1>12. w \in Nat
    BY <1>0, RowSizeType DEF w
<1> HIDE DEF s, e, d
<1>13. x \in Seq(Byte) /\ Len(x) <= m * w
    <2>1. \E t : Ends(m, s, t) /\ Joined(Byte, s, t, m, Concat(s))
        BY <1>4, <1>7, ConcatJoins
    <2>2. x \in Seq(Byte)
        BY <2>1 DEF Joined
    <2>3. Len(x) <= m * w
        BY <1>4, <1>7, <1>9, <1>12, ConcatSizeEqual
    <2> QED BY <2>2, <2>3
<1>14. Holds(b, o, d \o x)
    <2>1. Holds(b, o + Len(d), x)
        BY <1>4, <1>7
    <2>2. Len(b) \in Nat
        BY <1>0
    <2> HIDE DEF x
    <2> QED BY <1>0, <1>4, <1>13, <2>1, <2>2, HoldsTwo
<1> HIDE DEF x
<1>15. d \o x \in Seq(Byte) /\ Len(d \o x) = 4 + Len(x) /\ Len(x) \in Nat
    <2>1. d \o x \in Seq(Byte) /\ Len(d \o x) = Len(d) + Len(x)
        BY <1>4, <1>13, JoinTwo
    <2> QED BY <1>4, <1>13, <2>1
<1>16. r.offset = o + (4 + Len(x))
    <2> DEFINE l == Len(x)
    <2>1. l \in Nat /\ r.offset = (o + 4) + l
        BY <1>7, <1>8, <1>15 DEF x
    <2> HIDE DEF l
    <2>2. r.offset = o + (4 + l)
        BY <1>0, <2>1
    <2> QED BY <2>2 DEF l
<1>17. 4 + Len(x) <= 4 + k * w
    <2> DEFINE l == Len(x)
    <2>1. m <= k
        BY <1>0, <1>3, <1>4
    <2>2. m * w <= k * w /\ m * w \in Int /\ k * w \in Int
        BY <1>0, <1>4, <1>12, <2>1
    <2>3. l \in Nat /\ l <= m * w
        BY <1>13, <1>15
    <2> HIDE DEF l
    <2>4. 4 + l <= 4 + k * w
        BY <2>2, <2>3
    <2> QED BY <2>4 DEF l
<1>18. MaxSize(g, limits) = 4 + k * w
    BY ListSize DEF k, w
<1> QED BY <1>8, <1>11, <1>14, <1>15, <1>16, <1>17, <1>18 DEF From, r

LEMMA ListBack ==
    ASSUME NEW p, NEW g, ListTypes(p, g), NEW b \in Seq(Byte), NEW o \in 0 .. Len(b),
           NEW v, FitsField(p, v), LegalField(g, v), Holds(b, o, PutField(p, v))
    PROVE  GetField(g, b, o) = Done(o + Len(PutField(p, v)), v)
<1> DEFINE c == GetPlain(U(4), b, o)
           m == Len(v)
           name == g.of
           G == ListReaders(name, b, m)
           s == ListPieces(name, v)
           x == Concat(s)
           d == Digits(m, 4)
           r == GetField(g, b, o)
           k == limits[g.most]
           L == Len(b)
<1>0. L \in Nat /\ o \in Nat /\ g.most \in ListLimits /\ k \in Nat /\ AgreeRow(name)
    BY LimitFacts DEF ListTypes
<1>1. FitsList(name, v) /\ m <= k /\ \A i \in DOMAIN v : LegalRow(name, v[i])
    BY ListFits, ListLegal
<1>2. PutField(p, v) = d \o x
    BY ListPut
<1>3. s \in [1 .. m -> Seq(Byte)] /\ m \in Nat /\ d \in Seq(Byte) /\ Len(d) = 4 /\ x \in Seq(Byte)
    BY <1>0, <1>1, ListPiecesType
<1>4. r = IF ~c.ok THEN c ELSE IF c.value > k THEN Refused(o)
          ELSE Chain(c.value, ListReaders(name, b, c.value), c.offset)
    BY ListGet DEF ListTypes
<1>5. Readers(m, G, Len(b))
    BY <1>0, <1>3, ListSpells
<1>6. /\ m \in 0 .. Top(4) /\ DOMAIN v = 1 .. m /\ v = [i \in 1 .. m |-> v[i]]
      /\ \A i \in 1 .. m : FitsRow(name, v[i]) /\ LegalRow(name, v[i])
    BY <1>1 DEF FitsList
<1> HIDE DEF c, m, G, r, k, name
<1>7. Returns(b, m, G, s, v)
    <2> SUFFICES ASSUME NEW i \in 1 .. m, NEW q \in 0 .. Len(b), Holds(b, q, s[i])
                 PROVE  G[i][q] = Done(q + Len(s[i]), v[i])
        BY DEF Returns
    <2>1. G[i][q] = GetRow(name, b, q)
        BY ListAt DEF G
    <2>2. s[i] = PutRow(name, v[i])
        BY <1>6 DEF ListPieces
    <2> HIDE DEF s
    <2>3. GetRow(name, b, q) = Done(q + Len(PutRow(name, v[i])), v[i])
        BY <1>0, <1>6, <2>2, RowBack
    <2> QED BY <2>1, <2>2, <2>3
<1> HIDE DEF s, x, d
<1>8. Holds(b, o, d) /\ Holds(b, o + 4, x)
    <2>1. Holds(b, o, d \o x)
        BY <1>2
    <2>2. Len(b) \in Nat
        BY <1>0
    <2>3. Holds(b, o, d) /\ Holds(b, o + Len(d), x)
        BY <1>0, <1>3, <2>1, <2>2, HoldsFirst
    <2> QED BY <1>3, <2>3
<1>9. c = Done(o + 4, m)
    BY <1>6, <1>8, CountBack DEF c, d
<1>10. c.ok = TRUE /\ c.value = m /\ c.offset = o + 4
    BY <1>9, RecordFacts
<1>11. o + 4 \in 0 .. Len(b)
    <2> DEFINE l == Len(x)
    <2>1. (o + 4) + l <= L /\ l \in Nat
        BY <1>3, <1>8 DEF Holds
    <2> HIDE DEF l
    <2> QED BY <1>0, <2>1
<1>12. r = Chain(m, G, o + 4)
    <2>1. ~(m > k)
        BY <1>0, <1>1, <1>3
    <2> QED BY <1>4, <1>10, <2>1 DEF G
<1>13. Chain(m, G, o + 4) = Done((o + 4) + Len(Concat(s)), [i \in 1 .. m |-> v[i]])
    <2> DEFINE q == o + 4
    <2>1. Holds(b, q, Concat(s)) /\ q \in 0 .. Len(b)
        BY <1>8, <1>11 DEF x
    <2> HIDE DEF q
    <2>2. Chain(m, G, q) = Done(q + Len(Concat(s)), [i \in 1 .. m |-> v[i]])
        <3>1. Ready(b, m, s, G, v, q)
            BY <1>3, <1>5, <1>7, <2>1 DEF Ready
        <3> QED BY <3>1, ReadyReads
    <2> QED BY <2>2 DEF q
<1>14. (o + 4) + Len(x) = o + Len(d \o x)
    <2> DEFINE l == Len(x)
    <2>0. l \in Nat
        BY <1>3
    <2>1. Len(d \o x) = Len(d) + Len(x)
        BY <1>3, JoinTwo, Zenon
    <2>2. Len(d \o x) = 4 + l
        BY <1>3, <2>1
    <2> HIDE DEF l
    <2>3. (o + 4) + l = o + (4 + l)
        BY <1>0, <2>0
    <2> QED BY <2>2, <2>3 DEF l
<1> QED BY <1>2, <1>6, <1>12, <1>13, <1>14 DEF r, x

LEMMA ListAsFar ==
    ASSUME NEW p, NEW g, ListTypes(p, g), NEW b \in Seq(Byte), NEW o \in 0 .. Len(b),
           NEW v, FitsField(p, v), Matches(b, o, PutField(p, v)), GetField(g, b, o).ok
    PROVE  GetField(g, b, o).offset = o + Len(PutField(p, v))
<1> DEFINE c == GetPlain(U(4), b, o)
           m == Len(v)
           name == g.of
           G == ListReaders(name, b, m)
           s == ListPieces(name, v)
           x == Concat(s)
           d == Digits(m, 4)
           r == GetField(g, b, o)
           k == limits[g.most]
           L == Len(b)
<1>0. L \in Nat /\ o \in Nat /\ AgreeRow(name)
    BY DEF ListTypes
<1>1. FitsList(name, v)
    BY ListFits
<1>2. PutField(p, v) = d \o x
    BY ListPut
<1>3. s \in [1 .. m -> Seq(Byte)] /\ m \in Nat /\ d \in Seq(Byte) /\ Len(d) = 4 /\ x \in Seq(Byte)
    BY <1>0, <1>1, ListPiecesType
<1>4. r = IF ~c.ok THEN c ELSE IF c.value > k THEN Refused(o)
          ELSE Chain(c.value, ListReaders(name, b, c.value), c.offset)
    BY ListGet DEF ListTypes
<1>5. Readers(m, G, Len(b))
    BY <1>0, <1>3, ListSpells
<1>6. m \in 0 .. Top(4) /\ DOMAIN v = 1 .. m /\ \A i \in 1 .. m : FitsRow(name, v[i])
    BY <1>1 DEF FitsList
<1>15. r.ok
    OBVIOUS
<1> HIDE DEF c, m, G, r, k, name
<1>7. Measures(b, m, G, s)
    <2> SUFFICES ASSUME NEW i \in 1 .. m, NEW q \in 0 .. Len(b), Matches(b, q, s[i]), G[i][q].ok
                 PROVE  G[i][q].offset = q + Len(s[i])
        BY DEF Measures
    <2>1. G[i][q] = GetRow(name, b, q)
        BY ListAt DEF G
    <2>2. s[i] = PutRow(name, v[i])
        BY <1>6 DEF ListPieces
    <2> HIDE DEF s
    <2>3. GetRow(name, b, q).offset = q + Len(PutRow(name, v[i]))
        BY <1>0, <1>6, <2>1, <2>2, RowAsFar
    <2> QED BY <2>1, <2>2, <2>3
<1> HIDE DEF s, x, d
<1>8. Matches(b, o, d) /\ Matches(b, o + 4, x)
    <2>1. Matches(b, o, d \o x)
        BY <1>2
    <2>2. Len(b) \in Nat
        BY <1>0
    <2>3. Matches(b, o, d) /\ Matches(b, o + Len(d), x)
        BY <1>0, <1>3, <2>1, <2>2, MatchesFirst
    <2> QED BY <1>3, <2>3
<1>16. c.ok /\ ~(c.value > k)
    BY <1>4, <1>15, RecordFacts
<1>9. c = Done(o + 4, m)
    BY <1>6, <1>8, <1>16, CountAsFar DEF c, d
<1>10. c.ok = TRUE /\ c.value = m /\ c.offset = o + 4
    BY <1>9, RecordFacts
<1>11. o + 4 \in 0 .. Len(b)
    BY <1>16, CountCanonical DEF c
<1>12. r = Chain(m, G, o + 4)
    BY <1>4, <1>10, <1>16 DEF G
<1>13. Chain(m, G, o + 4).offset = (o + 4) + Len(Concat(s))
    <2>1. Matches(b, o + 4, Concat(s)) /\ Chain(m, G, o + 4).ok
        BY <1>8, <1>12, <1>15 DEF x
    <2> QED BY <1>3, <1>5, <1>7, <1>11, <2>1, ReadsAsFar
<1>14. (o + 4) + Len(x) = o + Len(d \o x)
    <2> DEFINE l == Len(x)
    <2>0. l \in Nat
        BY <1>3
    <2>1. Len(d \o x) = Len(d) + Len(x)
        BY <1>3, JoinTwo, Zenon
    <2>2. Len(d \o x) = 4 + l
        BY <1>3, <2>1
    <2> HIDE DEF l
    <2>3. (o + 4) + l = o + (4 + l)
        BY <1>0, <2>0
    <2> QED BY <2>2, <2>3 DEF l
<1> QED BY <1>2, <1>12, <1>13, <1>14 DEF r, x
-----------------------------------------------------------------------------
(* Fields of any type. *)

AlikeField(p, g) == Alike(p, g) \/ StringTypes(p, g) \/ ListTypes(p, g)

LEMMA PlainPut ==
    ASSUME NEW p, NEW g, Alike(p, g), NEW v
    PROVE  /\ PutField(p, v) = PutPlain(p, v)
           /\ FitsField(p, v) <=> FitsPlain(p, v)
           /\ LegalField(g, v) <=> LegalPlain(g, v)
<1>1. /\ p.as # "string" /\ p.as # "list" /\ g.as # "string" /\ g.as # "list"
    BY DEF Alike, PlainType, Plain
<1> QED BY <1>1 DEF PutField, FitsField, LegalField

LEMMA PlainGet ==
    ASSUME NEW p, NEW g, Alike(p, g), NEW b, NEW o
    PROVE  GetField(g, b, o) = GetPlain(g, b, o) /\ MaxSize(g, limits) = g.width
<1>1. g.as # "string" /\ g.as # "list"
    BY DEF Alike, PlainType, Plain
<1> QED BY <1>1 DEF GetField, MaxSize

LEMMA MaxSizeType ==
    ASSUME NEW p, NEW g, AlikeField(p, g)
    PROVE  MaxSize(g, limits) \in Nat
<1>1. CASE Alike(p, g)
    BY <1>1, PlainGet DEF Alike, PlainType
<1>2. CASE StringTypes(p, g)
    <2>1. limits[g.most] \in Nat /\ MaxSize(g, limits) = 2 + limits[g.most]
        BY <1>2, LimitFacts, StringSize DEF StringTypes
    <2> QED BY <2>1
<1>3. CASE ListTypes(p, g)
    <2> DEFINE k == limits[g.most]
               w == RowSize(g.of)
    <2>1. k \in Nat /\ w \in Nat /\ MaxSize(g, limits) = 4 + k * w
        BY <1>3, LimitFacts, ListSize, RowSizeType DEF ListTypes
    <2> HIDE DEF k, w
    <2>2. k * w \in Nat
        BY <2>1
    <2> DEFINE x == k * w
    <2> HIDE DEF x
    <2>3. x \in Nat /\ MaxSize(g, limits) = 4 + x
        BY <2>1, <2>2 DEF x
    <2> QED BY <2>3
<1> QED BY <1>1, <1>2, <1>3 DEF AlikeField

LEMMA PutFieldType ==
    ASSUME NEW p, NEW g, AlikeField(p, g), NEW v, FitsField(p, v)
    PROVE  /\ PutField(p, v) \in Seq(Byte)
           /\ LegalField(g, v) => Len(PutField(p, v)) <= MaxSize(g, limits)
<1>1. CASE Alike(p, g)
    <2>1. FitsPlain(p, v) /\ PutField(p, v) = PutPlain(p, v)
        BY <1>1, PlainPut
    <2>2. PutPlain(p, v) \in Seq(Byte) /\ Len(PutPlain(p, v)) = g.width
        BY <1>1, <2>1, PutPlainType
    <2>3. MaxSize(g, limits) = g.width /\ g.width \in Nat
        BY <1>1, PlainGet DEF Alike, PlainType
    <2> QED BY <2>1, <2>2, <2>3
<1>2. CASE StringTypes(p, g)
    BY <1>2, PutStringType
<1>3. CASE ListTypes(p, g)
    BY <1>3, PutListType
<1> QED BY <1>1, <1>2, <1>3 DEF AlikeField

LEMMA FieldCanonical ==
    ASSUME NEW p, NEW g, AlikeField(p, g), NEW b \in Seq(Byte), NEW o \in 0 .. Len(b),
           GetField(g, b, o).ok
    PROVE  /\ From(b, o, GetField(g, b, o), PutField(p, GetField(g, b, o).value))
           /\ Len(PutField(p, GetField(g, b, o).value)) <= MaxSize(g, limits)
<1>1. CASE Alike(p, g)
    <2> DEFINE r == GetPlain(g, b, o)
    <2>1. GetField(g, b, o) = r /\ MaxSize(g, limits) = g.width
        BY <1>1, PlainGet
    <2>2. From(b, o, r, PutPlain(p, r.value)) /\ Len(PutPlain(p, r.value)) = g.width
        BY <1>1, <2>1, PlainCanonical
    <2> HIDE DEF r
    <2>3. PutField(p, r.value) = PutPlain(p, r.value) /\ g.width \in Nat
        BY <1>1, PlainPut DEF Alike, PlainType
    <2> QED BY <2>1, <2>2, <2>3
<1>2. CASE StringTypes(p, g)
    BY <1>2, StringCanonical
<1>3. CASE ListTypes(p, g)
    BY <1>3, ListCanonical
<1> QED BY <1>1, <1>2, <1>3 DEF AlikeField

LEMMA FieldBack ==
    ASSUME NEW p, NEW g, AlikeField(p, g), NEW b \in Seq(Byte), NEW o \in 0 .. Len(b),
           NEW v, FitsField(p, v), LegalField(g, v), Holds(b, o, PutField(p, v))
    PROVE  GetField(g, b, o) = Done(o + Len(PutField(p, v)), v)
<1>1. CASE Alike(p, g)
    <2>1. FitsPlain(p, v) /\ LegalPlain(g, v) /\ PutField(p, v) = PutPlain(p, v)
        BY <1>1, PlainPut
    <2>2. GetField(g, b, o) = GetPlain(g, b, o)
        BY <1>1, PlainGet
    <2> QED BY <1>1, <2>1, <2>2, PlainBack
<1>2. CASE StringTypes(p, g)
    BY <1>2, StringBack
<1>3. CASE ListTypes(p, g)
    BY <1>3, ListBack
<1> QED BY <1>1, <1>2, <1>3 DEF AlikeField

LEMMA FieldAsFar ==
    ASSUME NEW p, NEW g, AlikeField(p, g), NEW b \in Seq(Byte), NEW o \in 0 .. Len(b),
           NEW v, FitsField(p, v), Matches(b, o, PutField(p, v)), GetField(g, b, o).ok
    PROVE  GetField(g, b, o).offset = o + Len(PutField(p, v))
<1>1. CASE Alike(p, g)
    <2>1. FitsPlain(p, v) /\ PutField(p, v) = PutPlain(p, v)
        BY <1>1, PlainPut
    <2>2. GetField(g, b, o) = GetPlain(g, b, o)
        BY <1>1, PlainGet
    <2>3. Len(PutPlain(p, v)) = g.width
        BY <1>1, <2>1, PutPlainType
    <2>4. GetPlain(g, b, o).offset = o + g.width
        BY <1>1, <2>2, PlainCanonical DEF From
    <2> QED BY <2>1, <2>2, <2>3, <2>4
<1>2. CASE StringTypes(p, g)
    BY <1>2, StringAsFar
<1>3. CASE ListTypes(p, g)
    BY <1>3, ListAsFar
<1> QED BY <1>1, <1>2, <1>3 DEF AlikeField

-----------------------------------------------------------------------------
(* Documents. *)

AgreeDoc(name) ==
    /\ Matched(Put[name], Get[name])
    /\ \A i \in 1 .. Len(Get[name]) : AlikeField(Put[name][i][2], Get[name][i][2])

\* The readers of the fields, the bytes they accept, and the bytes of a value's fields.
DocReaders(name, b) ==
    [i \in DOMAIN Get[name] |-> [p \in 0 .. Len(b) |-> GetField(Get[name][i][2], b, p)]]
DocBytes(name, b) ==
    [i \in DOMAIN Get[name] |->
       [p \in 0 .. Len(b) |-> PutField(Put[name][i][2], GetField(Get[name][i][2], b, p).value)]]
DocPieces(name, v) ==
    [i \in DOMAIN Put[name] |-> PutField(Put[name][i][2], v[Put[name][i][1]])]
DocSizes(name) == [i \in DOMAIN Get[name] |-> MaxSize(Get[name][i][2], limits)]

LEMMA DocAt ==
    ASSUME NEW name, AgreeDoc(name), NEW i \in 1 .. Len(Get[name]), NEW b, NEW p \in 0 .. Len(b)
    PROVE  /\ DocReaders(name, b)[i][p] = GetField(Get[name][i][2], b, p)
           /\ DocBytes(name, b)[i][p] =
                PutField(Put[name][i][2], GetField(Get[name][i][2], b, p).value)
<1>1. i \in DOMAIN Get[name] /\ i \in DOMAIN Put[name]
    BY DEF AgreeDoc, Matched
<1> QED BY <1>1 DEF DocReaders, DocBytes

LEMMA DocPieceAt ==
    ASSUME NEW name, AgreeDoc(name), NEW i \in 1 .. Len(Get[name]), NEW v
    PROVE  DocPieces(name, v)[i] = PutField(Put[name][i][2], v[Put[name][i][1]])
<1>1. i \in DOMAIN Put[name]
    BY DEF AgreeDoc, Matched
<1> QED BY <1>1 DEF DocPieces

LEMMA DocTypes ==
    ASSUME NEW name, AgreeDoc(name), NEW i \in 1 .. Len(Get[name])
    PROVE  /\ DocSizes(name)[i] = MaxSize(Get[name][i][2], limits)
           /\ AlikeField(Put[name][i][2], Get[name][i][2])
<1>1. i \in DOMAIN Get[name]
    BY DEF AgreeDoc, Matched
<1> QED BY <1>1 DEF DocSizes, AgreeDoc

LEMMA DocAre ==
    ASSUME NEW name, NEW b, NEW v, NEW o
    PROVE  /\ GetDoc(name, b, o) = Checked(name, Chain(Len(Get[name]), DocReaders(name, b), o))
           /\ PutDoc(name, v) = Concat(DocPieces(name, v))
           /\ DocSize(name, limits) = Total(DocSizes(name))
BY DEF GetDoc, PutDoc, DocSize, DocReaders, DocPieces, DocSizes

LEMMA DocSizesType ==
    ASSUME NEW name, AgreeDoc(name)
    PROVE  DocSizes(name) \in [1 .. Len(Get[name]) -> Nat]
<1>1. DOMAIN Get[name] = 1 .. Len(Get[name])
    BY DEF AgreeDoc, Matched
<1>2. ASSUME NEW i \in 1 .. Len(Get[name])
      PROVE  MaxSize(Get[name][i][2], limits) \in Nat
    <2> DEFINE y == Put[name][i][2]
               g == Get[name][i][2]
    <2>1. AlikeField(y, g)
        BY DEF AgreeDoc
    <2> HIDE DEF y, g
    <2>2. MaxSize(g, limits) \in Nat
        BY <2>1, MaxSizeType
    <2> QED BY <2>2 DEF g
<1> QED BY <1>1, <1>2 DEF DocSizes

LEMMA DocSpells ==
    ASSUME NEW name, AgreeDoc(name), NEW b \in Seq(Byte)
    PROVE  Spells(b, Len(Get[name]), DocReaders(name, b), DocBytes(name, b))
<1> SUFFICES ASSUME NEW i \in 1 .. Len(Get[name]), NEW p \in 0 .. Len(b),
                    DocReaders(name, b)[i][p].ok
             PROVE  From(b, p, DocReaders(name, b)[i][p], DocBytes(name, b)[i][p])
    BY DEF Spells
<1> DEFINE y == Put[name][i][2]
           g == Get[name][i][2]
<1>1. /\ DocReaders(name, b)[i][p] = GetField(g, b, p) /\ AlikeField(y, g)
      /\ DocBytes(name, b)[i][p] = PutField(y, GetField(g, b, p).value)
    BY DocAt, DocTypes
<1> HIDE DEF y, g
<1>2. From(b, p, GetField(g, b, p), PutField(y, GetField(g, b, p).value))
    BY <1>1, FieldCanonical
<1> QED BY <1>1, <1>2

\* Whatever the reader of a document accepts is written as it was read.
LEMMA DocCanonical ==
    ASSUME NEW name, AgreeDoc(name), NEW b \in Seq(Byte), NEW o \in 0 .. Len(b),
           GetDoc(name, b, o).ok
    PROVE  /\ From(b, o, GetDoc(name, b, o), PutDoc(name, GetDoc(name, b, o).value))
           /\ Len(PutDoc(name, GetDoc(name, b, o).value)) <= DocSize(name, limits)
<1> DEFINE n == Len(Get[name])
           G == DocReaders(name, b)
           S == DocBytes(name, b)
           r == GetDoc(name, b, o)
<1>1. n \in Nat /\ DOMAIN Put[name] = 1 .. n
    BY DEF AgreeDoc, Matched
<1>2. Spells(b, n, G, S) /\ r = Checked(name, Chain(n, G, o))
    BY DocSpells, DocAre
<1>3. PICK u : FieldsRead(name, b, G, S, o, u)
    <2> HIDE DEF G, S
    <2> QED BY <1>2, FieldsCanonical DEF AgreeDoc
<1> DEFINE s == [i \in 1 .. n |-> S[i][u[i - 1]]]
<1>4. /\ u \in [0 .. n -> 0 .. Len(b)]
      /\ \A i \in 1 .. n : G[i][u[i - 1]].ok /\ r.value[Put[name][i][1]] = G[i][u[i - 1]].value
      /\ s \in [1 .. n -> Seq(Byte)]
      /\ From(b, o, r, Concat(s))
    <2> HIDE DEF G, S
    <2> QED BY <1>2, <1>3 DEF FieldsRead
<1> HIDE DEF r
<1>5. ASSUME NEW i \in 1 .. n
      PROVE  /\ s[i] = PutField(Put[name][i][2], r.value[Put[name][i][1]])
             /\ Len(s[i]) <= DocSizes(name)[i]
    <2> DEFINE y == Put[name][i][2]
               g == Get[name][i][2]
               p == u[i - 1]
    <2>0. i - 1 \in 0 .. n
        BY <1>1
    <2>1. p \in 0 .. Len(b)
        BY <1>4, <2>0
    <2>2. /\ G[i][p] = GetField(g, b, p) /\ AlikeField(y, g)
          /\ S[i][p] = PutField(y, GetField(g, b, p).value)
          /\ DocSizes(name)[i] = MaxSize(g, limits)
        BY <2>1, DocAt, DocTypes
    <2>3. s[i] = S[i][p] /\ G[i][p].ok /\ r.value[Put[name][i][1]] = G[i][p].value
        BY <1>4
    <2> HIDE DEF y, g, p, s, G, S
    <2>4. Len(PutField(y, GetField(g, b, p).value)) <= MaxSize(g, limits)
        BY <2>1, <2>2, <2>3, FieldCanonical
    <2> QED BY <2>2, <2>3, <2>4 DEF y
<1>6. s = DocPieces(name, r.value)
    <2>1. s = [i \in 1 .. n |-> PutField(Put[name][i][2], r.value[Put[name][i][1]])]
        BY <1>5
    <2> QED BY <1>1, <2>1 DEF DocPieces
<1>7. PutDoc(name, r.value) = Concat(s)
    <2> HIDE DEF s
    <2> QED BY <1>6, DocAre
<1>8. Len(Concat(s)) <= DocSize(name, limits)
    <2> DEFINE z == DocSizes(name)
    <2>1. z \in [1 .. n -> Nat] /\ DocSize(name, limits) = Total(z)
        BY DocSizesType, DocAre
    <2> HIDE DEF s, z, n
    <2>2. ASSUME NEW i \in 1 .. n
          PROVE  Len(s[i]) <= z[i]
        BY <1>5 DEF z
    <2> QED BY <1>1, <1>4, <2>1, <2>2, ConcatSize
<1> QED BY <1>4, <1>7, <1>8 DEF r

\* The bytes of a value that the program may hold.
LEMMA DocPieceType ==
    ASSUME NEW name, AgreeDoc(name), NEW v, FitsDoc(name, v), NEW i \in 1 .. Len(Get[name])
    PROVE  /\ FitsField(Put[name][i][2], v[Put[name][i][1]])
           /\ DocPieces(name, v)[i] \in Seq(Byte)
<1> DEFINE y == Put[name][i][2]
           g == Get[name][i][2]
           x == v[Put[name][i][1]]
<1>1. FitsField(y, x)
    <2>1. i \in DOMAIN Put[name]
        BY DEF AgreeDoc, Matched
    <2> QED BY <2>1 DEF FitsDoc
<1>2. DocPieces(name, v)[i] = PutField(y, x) /\ AlikeField(y, g)
    BY DocPieceAt, DocTypes
<1> HIDE DEF y, g, x
<1>3. PutField(y, x) \in Seq(Byte)
    BY <1>1, <1>2, PutFieldType
<1> QED BY <1>1, <1>2, <1>3 DEF y, g, x

LEMMA DocPiecesType ==
    ASSUME NEW name, AgreeDoc(name), NEW v, FitsDoc(name, v)
    PROVE  DocPieces(name, v) \in [1 .. Len(Get[name]) -> Seq(Byte)]
<1> DEFINE n == Len(Get[name])
           s == DocPieces(name, v)
<1>1. DOMAIN Put[name] = 1 .. n
    BY DEF AgreeDoc, Matched
<1>2. \A i \in 1 .. n : s[i] \in Seq(Byte)
    BY DocPieceType
<1>3. s = [i \in 1 .. n |-> s[i]]
    BY <1>1 DEF DocPieces
<1> HIDE DEF s, n
<1>4. s \in [1 .. n -> Seq(Byte)]
    BY <1>2, <1>3
<1> QED BY <1>4 DEF s, n

LEMMA LegalAt ==
    ASSUME NEW name, AgreeDoc(name), NEW v, LegalDoc(name, v), NEW i \in 1 .. Len(Get[name])
    PROVE  LegalField(Get[name][i][2], v[Put[name][i][1]])
<1>1. i \in DOMAIN Get[name] /\ Get[name][i][1] = Put[name][i][1]
    BY DEF AgreeDoc, Matched
<1>2. LegalField(Get[name][i][2], v[Get[name][i][1]])
    BY <1>1 DEF LegalDoc
<1> QED BY <1>1, <1>2

LEMMA PutDocType ==
    ASSUME NEW name, AgreeDoc(name), NEW v, FitsDoc(name, v)
    PROVE  /\ PutDoc(name, v) \in Seq(Byte)
           /\ LegalDoc(name, v) => Len(PutDoc(name, v)) <= DocSize(name, limits)
<1> DEFINE n == Len(Get[name])
           s == DocPieces(name, v)
           z == DocSizes(name)
<1>1. n \in Nat
    BY DEF AgreeDoc, Matched
<1>2. s \in [1 .. n -> Seq(Byte)] /\ z \in [1 .. n -> Nat]
    BY DocPiecesType, DocSizesType
<1>3. ASSUME LegalDoc(name, v), NEW i \in 1 .. n
      PROVE  Len(s[i]) <= z[i]
    <2> DEFINE y == Put[name][i][2]
               g == Get[name][i][2]
               x == v[Put[name][i][1]]
    <2>1. FitsField(y, x) /\ LegalField(g, x)
        BY <1>3, DocPieceType, LegalAt
    <2>2. s[i] = PutField(y, x) /\ AlikeField(y, g) /\ z[i] = MaxSize(g, limits)
        BY DocPieceAt, DocTypes
    <2> HIDE DEF s, z, y, g, x
    <2>3. Len(PutField(y, x)) <= MaxSize(g, limits)
        BY <2>1, <2>2, PutFieldType
    <2> QED BY <2>2, <2>3
<1>4. PutDoc(name, v) = Concat(s) /\ DocSize(name, limits) = Total(z)
    BY DocAre
<1> HIDE DEF s, z, n
<1>5. Concat(s) \in Seq(Byte)
    <2>1. \E t : Ends(n, s, t) /\ Joined(Byte, s, t, n, Concat(s))
        BY <1>1, <1>2, ConcatJoins
    <2> QED BY <2>1 DEF Joined
<1>6. LegalDoc(name, v) => Len(Concat(s)) <= Total(z)
    BY <1>1, <1>2, <1>3, ConcatSize
<1> QED BY <1>4, <1>5, <1>6

\* A document that its reader lets pass is read back.
LEMMA DocBack ==
    ASSUME NEW name, AgreeDoc(name), NEW b \in Seq(Byte), NEW o \in 0 .. Len(b),
           NEW v, FitsDoc(name, v), LegalDoc(name, v), Holds(b, o, PutDoc(name, v))
    PROVE  GetDoc(name, b, o) = Done(o + Len(PutDoc(name, v)), v)
<1> DEFINE n == Len(Get[name])
           G == DocReaders(name, b)
           s == DocPieces(name, v)
           e == [i \in 1 .. n |-> v[Put[name][i][1]]]
<1>1. n \in Nat /\ Matched(Put[name], Get[name]) /\ DOMAIN Get[name] = 1 .. n
    BY DEF AgreeDoc, Matched
<1>2. s \in [1 .. n -> Seq(Byte)]
    BY DocPiecesType
<1>3. Readers(n, G, Len(b))
    <2> HIDE DEF n, G
    <2> QED BY <1>1, DocSpells, SpellsReaders DEF n, G
<1>4. Returns(b, n, G, s, e)
    <2> SUFFICES ASSUME NEW i \in 1 .. n, NEW p \in 0 .. Len(b), Holds(b, p, s[i])
                 PROVE  G[i][p] = Done(p + Len(s[i]), e[i])
        BY DEF Returns
    <2> DEFINE y == Put[name][i][2]
               g == Get[name][i][2]
               x == v[Put[name][i][1]]
    <2>1. /\ G[i][p] = GetField(g, b, p) /\ AlikeField(y, g) /\ s[i] = PutField(y, x)
          /\ e[i] = x
        BY DocAt, DocTypes, DocPieceAt
    <2>2. FitsField(y, x) /\ LegalField(g, x)
        BY DocPieceType, LegalAt
    <2> HIDE DEF G, s, e, y, g, x
    <2>4. GetField(g, b, p) = Done(p + Len(PutField(y, x)), x)
        BY <2>1, <2>2, FieldBack
    <2> QED BY <2>1, <2>4
<1>5. Concat(s) = PutDoc(name, v) /\ GetDoc(name, b, o) = Checked(name, Chain(n, G, o))
    BY DocAre
<1>6. Lists(Put[name], e, v) /\ Valid(name, v)
    <2>1. HasFields(name, v) /\ Valid(name, v)
        BY DEF FitsDoc, LegalDoc
    <2>2. \A i \in DOMAIN Put[name] : e[i] = v[Put[name][i][1]]
        BY <1>1 DEF Matched
    <2> HIDE DEF e
    <2> QED BY <2>1, <2>2 DEF HasFields, Lists
<1> HIDE DEF G, s, e
<1>7. Checked(name, Chain(n, G, o)) = Done(o + Len(Concat(s)), v)
    BY <1>1, <1>2, <1>3, <1>4, <1>5, <1>6, FieldsBack
<1> QED BY <1>5, <1>7

\* Where a document stands, its reader goes as far as the document, even if its end
\* is missing.
LEMMA DocAsFar ==
    ASSUME NEW name, AgreeDoc(name), NEW b \in Seq(Byte), NEW o \in 0 .. Len(b),
           NEW v, FitsDoc(name, v), Matches(b, o, PutDoc(name, v)), GetDoc(name, b, o).ok
    PROVE  GetDoc(name, b, o).offset = o + Len(PutDoc(name, v))
<1> DEFINE n == Len(Get[name])
           G == DocReaders(name, b)
           s == DocPieces(name, v)
<1>1. n \in Nat /\ Matched(Put[name], Get[name])
    BY DEF AgreeDoc, Matched
<1>2. s \in [1 .. n -> Seq(Byte)]
    BY DocPiecesType
<1>3. Readers(n, G, Len(b))
    <2> HIDE DEF n, G
    <2> QED BY <1>1, DocSpells, SpellsReaders DEF n, G
<1>4. Measures(b, n, G, s)
    <2> SUFFICES ASSUME NEW i \in 1 .. n, NEW p \in 0 .. Len(b), Matches(b, p, s[i]), G[i][p].ok
                 PROVE  G[i][p].offset = p + Len(s[i])
        BY DEF Measures
    <2> DEFINE y == Put[name][i][2]
               g == Get[name][i][2]
               x == v[Put[name][i][1]]
    <2>1. G[i][p] = GetField(g, b, p) /\ AlikeField(y, g) /\ s[i] = PutField(y, x)
        <3>1. G[i][p] = GetField(g, b, p)
            BY DocAt
        <3>2. AlikeField(y, g)
            BY DocTypes
        <3>3. s[i] = PutField(y, x)
            BY DocPieceAt
        <3> QED BY <3>1, <3>2, <3>3
    <2>2. FitsField(y, x)
        BY DocPieceType
    <2> HIDE DEF G, s, y, g, x
    <2>3. GetField(g, b, p).offset = p + Len(PutField(y, x))
        BY <2>1, <2>2, FieldAsFar
    <2> QED BY <2>1, <2>3
<1>5. Concat(s) = PutDoc(name, v) /\ GetDoc(name, b, o) = Checked(name, Chain(n, G, o))
    BY DocAre
<1> HIDE DEF G, s
<1>7. Checked(name, Chain(n, G, o)).offset = o + Len(Concat(s))
    BY <1>1, <1>2, <1>3, <1>4, <1>5, FieldsAsFar
<1> QED BY <1>5, <1>7
-----------------------------------------------------------------------------
(* Payloads: the parts of a kind one after the other. *)

AgreeKind(k) ==
    /\ Len(k) \in Nat /\ DOMAIN k = 1 .. Len(k)
    /\ \A i \in 1 .. Len(k) : AgreeDoc(k[i])

FitsKind(k, v) ==
    /\ v = [i \in 1 .. Len(k) |-> v[i]]
    /\ \A i \in 1 .. Len(k) : FitsDoc(k[i], v[i])

LegalKind(k, v) == \A i \in 1 .. Len(k) : LegalDoc(k[i], v[i])

PartReaders(k, b) == [i \in DOMAIN k |-> [p \in 0 .. Len(b) |-> GetDoc(k[i], b, p)]]
PartBytes(k, b) ==
    [i \in DOMAIN k |-> [p \in 0 .. Len(b) |-> PutDoc(k[i], GetDoc(k[i], b, p).value)]]
PartPieces(k, v) == [i \in DOMAIN k |-> PutDoc(k[i], v[i])]
PartSizes(k) == [i \in DOMAIN k |-> DocSize(k[i], limits)]

LEMMA PartAt ==
    ASSUME NEW k, AgreeKind(k), NEW i \in 1 .. Len(k), NEW b, NEW p \in 0 .. Len(b)
    PROVE  /\ PartReaders(k, b)[i][p] = GetDoc(k[i], b, p)
           /\ PartBytes(k, b)[i][p] = PutDoc(k[i], GetDoc(k[i], b, p).value)
<1>1. i \in DOMAIN k
    BY DEF AgreeKind
<1> QED BY <1>1 DEF PartReaders, PartBytes

LEMMA PartTypes ==
    ASSUME NEW k, AgreeKind(k), NEW i \in 1 .. Len(k)
    PROVE  PartSizes(k)[i] = DocSize(k[i], limits) /\ AgreeDoc(k[i])
<1>1. i \in DOMAIN k
    BY DEF AgreeKind
<1> QED BY <1>1 DEF PartSizes, AgreeKind

LEMMA PartPieceAt ==
    ASSUME NEW k, AgreeKind(k), NEW i \in 1 .. Len(k), NEW v
    PROVE  PartPieces(k, v)[i] = PutDoc(k[i], v[i])
<1>1. i \in DOMAIN k
    BY DEF AgreeKind
<1> QED BY <1>1 DEF PartPieces

LEMMA KindAre ==
    ASSUME NEW k, NEW v
    PROVE  Written(k, v) = Concat(PartPieces(k, v)) /\ KindSize(k, limits) = Total(PartSizes(k))
BY DEF Written, KindSize, PartPieces, PartSizes

LEMMA DecodeIs ==
    ASSUME NEW k, NEW b
    PROVE  LET c == Chain(Len(k), PartReaders(k, b), 0)
           IN  decode(k, b) = IF c.ok /\ (k # HeaderOnly => c.offset = Len(b))
                              THEN c ELSE Refused(c.offset)
BY DEF decode, PartReaders

LEMMA DecodeOk ==
    ASSUME NEW k, NEW b, decode(k, b).ok
    PROVE  /\ decode(k, b) = Chain(Len(k), PartReaders(k, b), 0)
           /\ k # HeaderOnly => decode(k, b).offset = Len(b)
<1> DEFINE c == Chain(Len(k), PartReaders(k, b), 0)
           r == decode(k, b)
<1>1. r = IF c.ok /\ (k # HeaderOnly => c.offset = Len(b)) THEN c ELSE Refused(c.offset)
    BY DecodeIs
<1>2. r.ok
    OBVIOUS
<1> HIDE DEF c, r
<1>3. r = c /\ (k # HeaderOnly => c.offset = Len(b))
    BY <1>1, <1>2, RecordFacts
<1> QED BY <1>3 DEF c, r

LEMMA DocSizeType ==
    ASSUME NEW name, AgreeDoc(name)
    PROVE  DocSize(name, limits) \in Nat
<1> DEFINE k == Len(Get[name])
           z == DocSizes(name)
           w == DocSize(name, limits)
<1>1. k \in Nat /\ z \in [1 .. k -> Nat]
    BY DocSizesType DEF AgreeDoc, Matched
<1>2. w = Total(z)
    BY DocAre
<1> HIDE DEF k, z, w
<1>3. PICK h : /\ h \in [0 .. k -> Nat] /\ h[0] = 0
               /\ \A i \in 1 .. k : h[i] = h[i - 1] + z[i]
               /\ Total(z) = h[k]
    BY <1>1, TotalSums
<1>4. h[k] \in Nat
    BY <1>1, <1>3
<1> QED BY <1>2, <1>3, <1>4 DEF w

LEMMA PartSizesType ==
    ASSUME NEW k, AgreeKind(k)
    PROVE  PartSizes(k) \in [1 .. Len(k) -> Nat]
<1>1. DOMAIN k = 1 .. Len(k)
    BY DEF AgreeKind
<1>2. ASSUME NEW i \in 1 .. Len(k)
      PROVE  DocSize(k[i], limits) \in Nat
    <2>1. AgreeDoc(k[i])
        BY DEF AgreeKind
    <2> QED BY <2>1, DocSizeType
<1> QED BY <1>1, <1>2 DEF PartSizes

LEMMA PartSpells ==
    ASSUME NEW k, AgreeKind(k), NEW b \in Seq(Byte)
    PROVE  Spells(b, Len(k), PartReaders(k, b), PartBytes(k, b))
<1> SUFFICES ASSUME NEW i \in 1 .. Len(k), NEW p \in 0 .. Len(b), PartReaders(k, b)[i][p].ok
             PROVE  From(b, p, PartReaders(k, b)[i][p], PartBytes(k, b)[i][p])
    BY DEF Spells
<1> DEFINE y == k[i]
<1>1. /\ PartReaders(k, b)[i][p] = GetDoc(y, b, p) /\ AgreeDoc(y)
      /\ PartBytes(k, b)[i][p] = PutDoc(y, GetDoc(y, b, p).value)
    BY PartAt, PartTypes
<1> HIDE DEF y
<1>2. From(b, p, GetDoc(y, b, p), PutDoc(y, GetDoc(y, b, p).value))
    BY <1>1, DocCanonical
<1> QED BY <1>1, <1>2

LEMMA PartReadersType ==
    ASSUME NEW k, AgreeKind(k), NEW b \in Seq(Byte)
    PROVE  Readers(Len(k), PartReaders(k, b), Len(b)) /\ 0 \in 0 .. Len(b)
<1> DEFINE n == Len(k)
<1>1. n \in Nat /\ Len(b) \in Nat
    BY DEF AgreeKind
<1>2. Spells(b, n, PartReaders(k, b), PartBytes(k, b))
    BY PartSpells
<1> HIDE DEF n
<1>3. Readers(n, PartReaders(k, b), Len(b))
    BY <1>1, <1>2, SpellsReaders
<1> QED BY <1>1, <1>3 DEF n

\* What is taken for a value are the bytes of the value, and not too many.
LEMMA DecodeCanonical ==
    ASSUME NEW k, AgreeKind(k), NEW b \in Seq(Byte), decode(k, b).ok
    PROVE  LET r == decode(k, b)
           IN  /\ Written(k, r.value) = SubSeq(b, 1, r.offset)
               /\ Len(Written(k, r.value)) <= KindSize(k, limits)
               /\ Written(k, r.value) \in Seq(Byte)
               /\ k # HeaderOnly => r.offset = Len(b)
<1> DEFINE n == Len(k)
           G == PartReaders(k, b)
           S == PartBytes(k, b)
           r == decode(k, b)
           z == PartSizes(k)
<1>1. n \in Nat /\ DOMAIN k = 1 .. n /\ 0 \in 0 .. Len(b)
    BY DEF AgreeKind
<1>2. Spells(b, n, G, S) /\ z \in [1 .. n -> Nat]
    BY PartSpells, PartSizesType
<1>3. r = Chain(n, G, 0) /\ (k # HeaderOnly => r.offset = Len(b))
    BY DecodeOk
<1>4. r.ok
    OBVIOUS
<1> HIDE DEF n, G, S, r, z
<1>5. PICK u : Spelled(b, n, G, S, 0, u)
    BY <1>1, <1>2, <1>3, <1>4, ReadsCanonically
<1> DEFINE s == [i \in 1 .. n |-> S[i][u[i - 1]]]
           e == [i \in 1 .. n |-> G[i][u[i - 1]].value]
<1>6. /\ u \in [0 .. n -> 0 .. Len(b)]
      /\ \A i \in 1 .. n : G[i][u[i - 1]].ok
      /\ Chain(n, G, 0) = Done(u[n], e)
      /\ s \in [1 .. n -> Seq(Byte)] /\ Holds(b, 0, Concat(s))
      /\ u[n] = 0 + Len(Concat(s))
    BY <1>5 DEF Spelled, Went, Way
<1>7. r.value = e /\ r.offset = u[n]
    <2> HIDE DEF e
    <2> QED BY <1>3, <1>6, RecordFacts
<1>8. ASSUME NEW i \in 1 .. n
      PROVE  s[i] = PutDoc(k[i], e[i]) /\ Len(s[i]) <= z[i]
    <2> DEFINE q == u[i - 1]
               y == k[i]
    <2>0. i - 1 \in 0 .. n
        BY <1>1
    <2>1. q \in 0 .. Len(b) /\ G[i][q].ok
        BY <1>6, <2>0
    <2>2. s[i] = S[i][q] /\ e[i] = G[i][q].value
        OBVIOUS
    <2> HIDE DEF q, s, e
    <2>3. /\ G[i][q] = GetDoc(y, b, q) /\ S[i][q] = PutDoc(y, GetDoc(y, b, q).value)
          /\ AgreeDoc(y) /\ z[i] = DocSize(y, limits)
        BY <2>1, PartAt, PartTypes DEF G, S, z, n
    <2> HIDE DEF y
    <2>4. Len(PutDoc(y, GetDoc(y, b, q).value)) <= DocSize(y, limits)
        BY <2>1, <2>3, DocCanonical
    <2> QED BY <2>2, <2>3, <2>4 DEF y
<1>9. s = PartPieces(k, e)
    <2>1. s = [i \in 1 .. n |-> PutDoc(k[i], e[i])]
        BY <1>8
    <2> HIDE DEF s, e
    <2> QED BY <1>1, <2>1 DEF PartPieces
<1> DEFINE x == Concat(s)
<1>10. Written(k, r.value) = x
    <2> HIDE DEF s, e
    <2> QED BY <1>7, <1>9, KindAre
<1> HIDE DEF s, e
<1>11. x \in Seq(Byte)
    <2>1. \E t : Ends(n, s, t) /\ Joined(Byte, s, t, n, Concat(s))
        BY <1>1, <1>6, ConcatJoins
    <2> QED BY <2>1 DEF Joined
<1>12. Len(x) <= Total(z)
    BY <1>1, <1>2, <1>6, <1>8, ConcatSize
<1>13. x = SubSeq(b, 1, r.offset)
    <2>1. Len(x) \in Nat /\ r.offset = 0 + Len(x) /\ Holds(b, 0, x) /\ Len(b) \in Nat
        BY <1>6, <1>7, <1>11
    <2> HIDE DEF x
    <2>2. r.offset = Len(x) /\ Len(x) <= Len(b)
        BY <2>1 DEF Holds
    <2> DEFINE y == SubSeq(b, 1, Len(x))
    <2>3. y \in Seq(Byte) /\ Len(y) = Len(x) /\ \A i \in 1 .. Len(x) : y[i] = b[i]
        BY <2>1, <2>2
    <2> HIDE DEF y
    <2>4. ASSUME NEW i \in 1 .. Len(x)
          PROVE  y[i] = x[i]
        <3>1. b[0 + i] = x[i] /\ 0 + i = i
            BY <2>1 DEF Holds
        <3> QED BY <2>3, <3>1
    <2>5. x = y
        BY <1>11, <2>3, <2>4, SeqEqual
    <2> QED BY <2>2, <2>5 DEF y
<1>14. KindSize(k, limits) = Total(z)
    BY KindAre DEF z
<1> QED BY <1>3, <1>10, <1>11, <1>12, <1>13, <1>14 DEF r

LEMMA PartPieceType ==
    ASSUME NEW k, AgreeKind(k), NEW v, FitsKind(k, v), NEW i \in 1 .. Len(k)
    PROVE  PartPieces(k, v)[i] \in Seq(Byte) /\ FitsDoc(k[i], v[i])
<1>1. FitsDoc(k[i], v[i]) /\ AgreeDoc(k[i]) /\ PartPieces(k, v)[i] = PutDoc(k[i], v[i])
    BY PartTypes, PartPieceAt DEF FitsKind
<1> DEFINE y == k[i]
           x == v[i]
<1>2. FitsDoc(y, x) /\ AgreeDoc(y)
    BY <1>1
<1> HIDE DEF y, x
<1>3. PutDoc(y, x) \in Seq(Byte)
    BY <1>2, PutDocType
<1> QED BY <1>1, <1>3 DEF y, x

LEMMA PartPiecesType ==
    ASSUME NEW k, AgreeKind(k), NEW v, FitsKind(k, v)
    PROVE  PartPieces(k, v) \in [1 .. Len(k) -> Seq(Byte)]
<1> DEFINE n == Len(k)
           s == PartPieces(k, v)
<1>1. DOMAIN k = 1 .. n
    BY DEF AgreeKind
<1>2. \A i \in 1 .. n : s[i] \in Seq(Byte)
    BY PartPieceType
<1>3. s = [i \in 1 .. n |-> s[i]]
    BY <1>1 DEF PartPieces
<1> HIDE DEF s, n
<1>4. s \in [1 .. n -> Seq(Byte)]
    BY <1>2, <1>3
<1> QED BY <1>4 DEF s, n

LEMMA WrittenType ==
    ASSUME NEW k, AgreeKind(k), NEW v, FitsKind(k, v)
    PROVE  /\ Written(k, v) \in Seq(Byte)
           /\ LegalKind(k, v) => Len(Written(k, v)) <= KindSize(k, limits)
<1> DEFINE n == Len(k)
           s == PartPieces(k, v)
           z == PartSizes(k)
<1>1. n \in Nat
    BY DEF AgreeKind
<1>2. s \in [1 .. n -> Seq(Byte)] /\ z \in [1 .. n -> Nat]
    BY PartPiecesType, PartSizesType
<1>3. ASSUME LegalKind(k, v), NEW i \in 1 .. n
      PROVE  Len(s[i]) <= z[i]
    <2> DEFINE y == k[i]
               x == v[i]
    <2>1. FitsDoc(y, x) /\ LegalDoc(y, x)
        BY <1>3 DEF FitsKind, LegalKind
    <2>2. s[i] = PutDoc(y, x) /\ AgreeDoc(y) /\ z[i] = DocSize(y, limits)
        BY PartPieceAt, PartTypes
    <2> HIDE DEF s, z, y, x
    <2>3. Len(PutDoc(y, x)) <= DocSize(y, limits)
        BY <2>1, <2>2, PutDocType
    <2> QED BY <2>2, <2>3
<1>4. Written(k, v) = Concat(s) /\ KindSize(k, limits) = Total(z)
    BY KindAre
<1> HIDE DEF s, z, n
<1>5. Concat(s) \in Seq(Byte)
    <2>1. \E t : Ends(n, s, t) /\ Joined(Byte, s, t, n, Concat(s))
        BY <1>1, <1>2, ConcatJoins
    <2> QED BY <2>1 DEF Joined
<1>6. LegalKind(k, v) => Len(Concat(s)) <= Total(z)
    BY <1>1, <1>2, <1>3, ConcatSize
<1> QED BY <1>4, <1>5, <1>6

\* A payload that its readers let pass is read back.
LEMMA DecodeBack ==
    ASSUME NEW k, AgreeKind(k), NEW v, FitsKind(k, v), LegalKind(k, v)
    PROVE  decode(k, Written(k, v)) = Done(Len(Written(k, v)), v)
<1> DEFINE n == Len(k)
           b == Written(k, v)
           G == PartReaders(k, b)
           s == PartPieces(k, v)
<1>1. n \in Nat /\ b \in Seq(Byte) /\ b = Concat(s) /\ Len(b) \in Nat
    BY WrittenType, KindAre DEF AgreeKind
<1> HIDE DEF b
<1>2. s \in [1 .. n -> Seq(Byte)] /\ Readers(n, G, Len(b)) /\ 0 \in 0 .. Len(b)
    BY <1>1, PartPiecesType, PartReadersType
<1>3. Returns(b, n, G, s, v)
    <2> SUFFICES ASSUME NEW i \in 1 .. n, NEW p \in 0 .. Len(b), Holds(b, p, s[i])
                 PROVE  G[i][p] = Done(p + Len(s[i]), v[i])
        BY DEF Returns
    <2> DEFINE y == k[i]
               x == v[i]
    <2>1. G[i][p] = GetDoc(y, b, p) /\ AgreeDoc(y) /\ s[i] = PutDoc(y, x)
        BY PartAt, PartTypes, PartPieceAt
    <2>2. FitsDoc(y, x) /\ LegalDoc(y, x)
        BY DEF FitsKind, LegalKind
    <2> HIDE DEF G, s, y, x
    <2>3. GetDoc(y, b, p) = Done(p + Len(PutDoc(y, x)), x)
        BY <1>1, <2>1, <2>2, DocBack
    <2> QED BY <2>1, <2>3 DEF x
<1>4. v = [i \in 1 .. n |-> v[i]]
    BY DEF FitsKind
<1>5. decode(k, b) = LET c == Chain(n, G, 0)
                     IN  IF c.ok /\ (k # HeaderOnly => c.offset = Len(b))
                         THEN c ELSE Refused(c.offset)
    BY DecodeIs
<1> HIDE DEF G, s, n
<1>6. Holds(b, 0, Concat(s))
    BY <1>1 DEF Holds
<1> DEFINE c == Chain(n, G, 0)
<1>7. c = Done(0 + Len(Concat(s)), [i \in 1 .. n |-> v[i]])
    <2>1. Ready(b, n, s, G, v, 0)
        BY <1>1, <1>2, <1>3, <1>6 DEF Ready
    <2> QED BY <2>1, ReadyReads
<1>8. c = Done(Len(b), v)
    <2> DEFINE l == Len(b)
    <2>1. l \in Nat /\ Len(Concat(s)) = l
        BY <1>1
    <2> HIDE DEF l
    <2>2. 0 + l = l
        BY <2>1
    <2>3. 0 + Len(Concat(s)) = l
        BY <2>1, <2>2
    <2>4. c = Done(l, v)
        BY <1>4, <1>7, <2>3
    <2> QED BY <2>4 DEF l
<1> HIDE DEF c
<1>9. c.ok = TRUE /\ c.offset = Len(b)
    BY <1>8, RecordFacts
<1>10. decode(k, b) = c
    BY <1>5, <1>9 DEF c
<1> QED BY <1>8, <1>10 DEF b

\* A payload that was cut is refused.
LEMMA DecodeCut ==
    ASSUME NEW k, AgreeKind(k), NEW v, FitsKind(k, v), NEW b \in Seq(Byte),
           Matches(b, 0, Written(k, v)), Len(b) < Len(Written(k, v))
    PROVE  ~decode(k, b).ok
<1> SUFFICES ASSUME decode(k, b).ok
             PROVE  FALSE
    OBVIOUS
<1> DEFINE n == Len(k)
           G == PartReaders(k, b)
           s == PartPieces(k, v)
           r == decode(k, b)
           l == Len(Written(k, v))
<1>1. n \in Nat /\ Written(k, v) = Concat(s) /\ l \in Nat /\ Len(b) \in Nat
    BY WrittenType, KindAre DEF AgreeKind
<1>2. s \in [1 .. n -> Seq(Byte)] /\ Readers(n, G, Len(b)) /\ 0 \in 0 .. Len(b)
    BY <1>1, PartPiecesType, PartReadersType
<1>3. r = Chain(n, G, 0) /\ r.ok
    BY DecodeOk
<1>4. Measures(b, n, G, s)
    <2> SUFFICES ASSUME NEW i \in 1 .. n, NEW p \in 0 .. Len(b), Matches(b, p, s[i]), G[i][p].ok
                 PROVE  G[i][p].offset = p + Len(s[i])
        BY DEF Measures
    <2> DEFINE y == k[i]
               x == v[i]
    <2>1. G[i][p] = GetDoc(y, b, p) /\ AgreeDoc(y) /\ s[i] = PutDoc(y, x)
        BY PartAt, PartTypes, PartPieceAt
    <2>2. FitsDoc(y, x)
        BY DEF FitsKind
    <2> HIDE DEF G, s, y, x
    <2>3. GetDoc(y, b, p).offset = p + Len(PutDoc(y, x))
        BY <2>1, <2>2, DocAsFar
    <2> QED BY <2>1, <2>3
<1> HIDE DEF G, s, n, r
<1>5. Chain(n, G, 0).offset = 0 + Len(Concat(s)) /\ Chain(n, G, 0).offset <= Len(b)
    <2>1. Matches(b, 0, Concat(s)) /\ Chain(n, G, 0).ok
        BY <1>1, <1>3
    <2> QED BY <1>1, <1>2, <1>4, <2>1, ReadsAsFar
<1>6. 0 + l <= Len(b)
    BY <1>1, <1>5
<1>7. Len(b) < l
    OBVIOUS
<1> HIDE DEF l
<1> QED BY <1>1, <1>6, <1>7
-----------------------------------------------------------------------------
(* The tables of the writers and of the readers. *)

\* Types of a field that agree, of a plain one if the tables are those of a row.
Agree(row, p, g) == IF row THEN Alike(p, g) ELSE AlikeField(p, g)

\* A sequence, of whatever it has.
IsSeq(p) == \E T : p \in Seq(T)

LEMMA SeqOf ==
    ASSUME NEW n \in Nat, NEW p, p = [i \in 1 .. n |-> p[i]]
    PROVE  IsSeq(p) /\ Len(p) = n /\ DOMAIN p = 1 .. n
<1> DEFINE A == {p[i] : i \in 1 .. n}
<1>1. p \in [1 .. n -> A]
    OBVIOUS
<1> HIDE DEF A
<1>2. p \in Seq(A) /\ Len(p) = n /\ DOMAIN p = 1 .. n
    BY <1>1
<1> QED BY <1>2 DEF IsSeq

LEMMA SeqJoin ==
    ASSUME NEW p, NEW q, IsSeq(p), IsSeq(q)
    PROVE  /\ IsSeq(p \o q) /\ Len(p) \in Nat /\ Len(q) \in Nat
           /\ Len(p \o q) = Len(p) + Len(q) /\ DOMAIN (p \o q) = 1 .. Len(p \o q)
           /\ \A i \in 1 .. Len(p) + Len(q) :
                (p \o q)[i] = IF i <= Len(p) THEN p[i] ELSE q[i - Len(p)]
<1>1. PICK A : p \in Seq(A)
    BY DEF IsSeq
<1>2. PICK B : q \in Seq(B)
    BY DEF IsSeq
<1> DEFINE C == A \cup B
<1>3. p \in Seq(C) /\ q \in Seq(C)
    BY <1>1, <1>2
<1> HIDE DEF C
<1>4. p \o q \in Seq(C)
    BY <1>3
<1> QED BY <1>3, <1>4 DEF IsSeq

\* The i-th fields of two tables.
SameField(row, p, g, H, i) ==
    /\ p[i][1] = g[i][1] /\ IsSeq(g[i][1]) /\ g[i][1] # <<>> /\ Head(g[i][1]) \in H
    /\ Agree(row, p[i][2], g[i][2])

\* Tables with the same fields in the same order, no field twice and types that
\* agree.  The first words of the fields' names are in H.
Table(row, p, g, H) ==
    /\ IsSeq(p) /\ IsSeq(g) /\ Len(g) \in Nat /\ Len(p) = Len(g)
    /\ DOMAIN g = 1 .. Len(g) /\ DOMAIN p = 1 .. Len(g)
    /\ \A i \in 1 .. Len(g) : SameField(row, p, g, H, i)
    /\ \A i, j \in 1 .. Len(g) : g[i][1] = g[j][1] => i = j

LEMMA TableDoc ==
    ASSUME NEW name, NEW H, Table(FALSE, Put[name], Get[name], H)
    PROVE  AgreeDoc(name)
BY DEF Table, AgreeDoc, Matched, Agree, SameField

LEMMA TableRow ==
    ASSUME NEW name, NEW H, Table(TRUE, Put[name], Get[name], H)
    PROVE  AgreeRow(name) /\ AgreeDoc(name)
<1>1. AgreeRow(name)
    BY DEF Table, AgreeRow, Matched, Agree, SameField
<1>2. AgreeDoc(name)
    BY <1>1 DEF AgreeRow, AgreeDoc, AlikeField
<1> QED BY <1>1, <1>2

LEMMA Single ==
    ASSUME NEW S, NEW e \in S
    PROVE  /\ <<e>> \in Seq(S) /\ Len(<<e>>) = 1 /\ <<e>>[1] = e
           /\ <<e>> # <<>> /\ Head(<<e>>) = e
<1>1. <<e>> \in Seq(S) /\ Len(<<e>>) = 1 /\ <<e>>[1] = e
    OBVIOUS
<1>2. <<e>> # <<>>
    OBVIOUS
<1>3. Head(<<e>>) = e
    BY <1>1
<1> QED BY <1>1, <1>2, <1>3

\* No name twice.
Distinct(names) == \A i, j \in 1 .. Len(names) : names[i] = names[j] => i = j

LEMMA EachTable ==
    ASSUME NEW row, NEW H, NEW names \in Seq(H), Distinct(names), NEW a, NEW c, Agree(row, a, c)
    PROVE  Table(row, Each(names, a), Each(names, c), H)
<1> DEFINE n == Len(names)
           p == Each(names, a)
           g == Each(names, c)
<1>1. n \in Nat /\ DOMAIN names = 1 .. n
    OBVIOUS
<1>2. /\ p = [i \in 1 .. n |-> << <<names[i]>>, a>>]
      /\ g = [i \in 1 .. n |-> << <<names[i]>>, c>>]
    BY <1>1 DEF Each
<1> HIDE DEF n, p, g
<1>3. /\ IsSeq(p) /\ Len(p) = n /\ DOMAIN p = 1 .. n
      /\ IsSeq(g) /\ Len(g) = n /\ DOMAIN g = 1 .. n
    <2>1. p = [i \in 1 .. n |-> p[i]] /\ g = [i \in 1 .. n |-> g[i]]
        BY <1>2
    <2> QED BY <1>1, <2>1, SeqOf
<1>4. ASSUME NEW i \in 1 .. n
      PROVE  p[i][1] = <<names[i]>> /\ g[i][1] = <<names[i]>> /\ p[i][2] = a /\ g[i][2] = c
    <2>1. p[i] = << <<names[i]>>, a>> /\ g[i] = << <<names[i]>>, c>>
        BY <1>2
    <2> QED BY <2>1
<1>5. ASSUME NEW i \in 1 .. n
      PROVE  SameField(row, p, g, H, i)
    <2> DEFINE x == names[i]
    <2>1. x \in H
        BY <1>1 DEF n
    <2> HIDE DEF x
    <2>2. <<x>> \in Seq(H) /\ <<x>> # <<>> /\ Head(<<x>>) = x
        BY <2>1, Single
    <2> DEFINE y == <<x>>
    <2>3. p[i][1] = y /\ g[i][1] = y /\ p[i][2] = a /\ g[i][2] = c
        BY <1>4 DEF x
    <2> HIDE DEF y
    <2>4. IsSeq(y) /\ y # <<>> /\ Head(y) \in H
        BY <2>1, <2>2 DEF y, IsSeq
    <2> QED BY <2>3, <2>4 DEF SameField
<1>6. ASSUME NEW i \in 1 .. n, NEW j \in 1 .. n, g[i][1] = g[j][1]
      PROVE  i = j
    <2>1. <<names[i]>> = <<names[j]>>
        BY <1>4, <1>6
    <2>2. names[i] = names[j]
        BY <2>1
    <2> QED BY <2>2 DEF Distinct, n
<1>7. Table(row, p, g, H)
    BY <1>1, <1>3, <1>5, <1>6 DEF Table
<1> QED BY <1>7 DEF p, g

LEMMA OneTable ==
    ASSUME NEW row, NEW name, NEW a, NEW c, Agree(row, a, c)
    PROVE  Table(row, One(name, a), One(name, c), {name})
<1> DEFINE names == <<name>>
<1>1. One(name, a) = Each(names, a) /\ One(name, c) = Each(names, c)
    BY DEF One
<1>2. names \in Seq({name}) /\ Len(names) = 1
    BY Single
<1> HIDE DEF names
<1>3. \A i \in 1 .. Len(names) : i = 1
    BY <1>2
<1>4. Distinct(names)
    BY <1>3 DEF Distinct
<1>5. Table(row, Each(names, a), Each(names, c), {name})
    BY <1>2, <1>4, EachTable
<1> QED BY <1>1, <1>5

LEMMA ConsTail ==
    ASSUME NEW e, NEW x, IsSeq(x)
    PROVE  /\ Tail(<<e>> \o x) = x
           /\ IsSeq(<<e>> \o x) /\ <<e>> \o x # <<>> /\ Head(<<e>> \o x) = e
<1>0. PICK T : x \in Seq(T)
    BY DEF IsSeq
<1> DEFINE S == T \cup {e}
<1> DEFINE y == <<e>> \o x
           n == Len(x)
<1>1. /\ n \in Nat /\ y \in Seq(S) /\ Len(y) = 1 + n
      /\ \A i \in 1 .. 1 + n : y[i] = IF i <= 1 THEN e ELSE x[i - 1]
    <2>1. x \in Seq(S) /\ e \in S
        BY <1>0
    <2> HIDE DEF S
    <2> QED BY <2>1
<1>8. x \in Seq(S)
    BY <1>0
<1> HIDE DEF y, n, S
<1>2. y # <<>>
    BY <1>1
<1>3. /\ Tail(y) \in Seq(S) /\ Len(Tail(y)) = Len(y) - 1
      /\ \A i \in 1 .. Len(Tail(y)) : Tail(y)[i] = y[i + 1]
    BY <1>1, <1>2, HeadTailProperties
<1>4. Len(Tail(y)) = n
    BY <1>1, <1>3
<1>5. ASSUME NEW i \in 1 .. n
      PROVE  Tail(y)[i] = x[i]
    <2>1. i + 1 \in 1 .. 1 + n /\ ~(i + 1 <= 1) /\ (i + 1) - 1 = i
        BY <1>1
    <2> QED BY <1>1, <1>3, <1>4, <2>1
<1> DEFINE z == Tail(y)
<1> HIDE DEF z
<1>6. z = x
    BY <1>3, <1>4, <1>5, <1>8, SeqEqual DEF n, z
<1>7. Head(y) = e
    BY <1>1, <1>2
<1> QED BY <1>1, <1>2, <1>6, <1>7 DEF z, y, IsSeq

LEMMA UnderTable ==
    ASSUME NEW row, NEW p, NEW g, NEW H, Table(row, p, g, H), NEW name
    PROVE  Table(row, Under(name, p), Under(name, g), {name})
<1> DEFINE n == Len(g)
           q == Under(name, p)
           h == Under(name, g)
<1>1. n \in Nat /\ DOMAIN g = 1 .. n /\ DOMAIN p = 1 .. n
    BY DEF Table
<1>2. /\ q = [i \in 1 .. n |-> << <<name>> \o p[i][1], p[i][2]>>]
      /\ h = [i \in 1 .. n |-> << <<name>> \o g[i][1], g[i][2]>>]
    BY <1>1 DEF Under
<1>3. /\ \A i \in 1 .. n : SameField(row, p, g, H, i)
      /\ \A i, j \in 1 .. n : g[i][1] = g[j][1] => i = j
    BY DEF Table
<1> HIDE DEF n, q, h
<1>4. /\ IsSeq(q) /\ Len(q) = n /\ DOMAIN q = 1 .. n
      /\ IsSeq(h) /\ Len(h) = n /\ DOMAIN h = 1 .. n
    <2>1. q = [i \in 1 .. n |-> q[i]] /\ h = [i \in 1 .. n |-> h[i]]
        BY <1>2
    <2> QED BY <1>1, <2>1, SeqOf
<1>5. ASSUME NEW i \in 1 .. n
      PROVE  /\ q[i][1] = <<name>> \o p[i][1] /\ h[i][1] = <<name>> \o g[i][1]
             /\ q[i][2] = p[i][2] /\ h[i][2] = g[i][2]
    <2> DEFINE x == <<name>> \o p[i][1]
               y == <<name>> \o g[i][1]
               a == p[i][2]
               c == g[i][2]
    <2>1. q[i] = <<x, a>> /\ h[i] = <<y, c>>
        BY <1>2
    <2> HIDE DEF x, y, a, c
    <2>2. q[i][1] = x /\ q[i][2] = a /\ h[i][1] = y /\ h[i][2] = c
        BY <2>1
    <2> QED BY <2>2 DEF x, y, a, c
<1>6. ASSUME NEW i \in 1 .. n
      PROVE  SameField(row, q, h, {name}, i)
    <2> DEFINE x == g[i][1]
               y == <<name>> \o x
    <2>1. p[i][1] = x /\ IsSeq(x) /\ Agree(row, p[i][2], g[i][2])
        BY <1>3 DEF SameField
    <2>2. q[i][1] = y /\ h[i][1] = y /\ q[i][2] = p[i][2] /\ h[i][2] = g[i][2]
        BY <1>5, <2>1
    <2> HIDE DEF x
    <2>3. IsSeq(y) /\ y # <<>> /\ Head(y) = name
        BY <2>1, ConsTail
    <2> HIDE DEF y
    <2> QED BY <2>1, <2>2, <2>3 DEF SameField
<1>7. ASSUME NEW i \in 1 .. n, NEW j \in 1 .. n, h[i][1] = h[j][1]
      PROVE  i = j
    <2> DEFINE x == g[i][1]
               y == g[j][1]
    <2>1. IsSeq(x) /\ IsSeq(y)
        BY <1>3 DEF SameField
    <2>2. <<name>> \o x = <<name>> \o y
        BY <1>5, <1>7
    <2> HIDE DEF x, y
    <2>3. x = Tail(<<name>> \o x) /\ y = Tail(<<name>> \o y)
        BY <2>1, ConsTail
    <2>4. x = y
        BY <2>2, <2>3
    <2> QED BY <1>3, <2>4 DEF x, y
<1>8. Table(row, q, h, {name})
    BY <1>1, <1>4, <1>6, <1>7 DEF Table
<1> QED BY <1>8 DEF q, h

LEMMA JoinTable ==
    ASSUME NEW row, NEW p, NEW g, NEW H, Table(row, p, g, H),
           NEW q, NEW h, NEW K, Table(row, q, h, K), H \cap K = {}
    PROVE  Table(row, p \o q, g \o h, H \cup K)
<1> DEFINE m == Len(g)
           n == Len(h)
           y == p \o q
           z == g \o h
<1>1. /\ m \in Nat /\ n \in Nat /\ Len(p) = m /\ Len(q) = n
      /\ IsSeq(p) /\ IsSeq(q) /\ IsSeq(g) /\ IsSeq(h)
    BY DEF Table
<1>2. /\ IsSeq(y) /\ Len(y) = m + n /\ DOMAIN y = 1 .. m + n
      /\ \A i \in 1 .. m + n : y[i] = IF i <= m THEN p[i] ELSE q[i - m]
    BY <1>1, SeqJoin
<1>3. /\ IsSeq(z) /\ Len(z) = m + n /\ DOMAIN z = 1 .. m + n
      /\ \A i \in 1 .. m + n : z[i] = IF i <= m THEN g[i] ELSE h[i - m]
    BY <1>1, SeqJoin
<1>4. /\ \A i \in 1 .. m : SameField(row, p, g, H, i)
      /\ \A i, j \in 1 .. m : g[i][1] = g[j][1] => i = j
      /\ \A i \in 1 .. n : SameField(row, q, h, K, i)
      /\ \A i, j \in 1 .. n : h[i][1] = h[j][1] => i = j
    BY DEF Table
<1> HIDE DEF m, n, y, z
<1>5. ASSUME NEW i \in 1 .. m + n
      PROVE  /\ i <= m => i \in 1 .. m /\ y[i] = p[i] /\ z[i] = g[i]
             /\ ~(i <= m) => i - m \in 1 .. n /\ y[i] = q[i - m] /\ z[i] = h[i - m]
    BY <1>1, <1>2, <1>3
<1>6. ASSUME NEW i \in 1 .. m + n
      PROVE  /\ SameField(row, y, z, H \cup K, i)
             /\ i <= m => Head(z[i][1]) \in H
             /\ ~(i <= m) => Head(z[i][1]) \in K
    <2>1. CASE i <= m
        BY <1>4, <1>5, <2>1 DEF SameField
    <2>2. CASE ~(i <= m)
        <3> DEFINE k == i - m
        <3>1. k \in 1 .. n /\ y[i] = q[k] /\ z[i] = h[k]
            BY <1>5, <2>2
        <3> HIDE DEF k
        <3> QED BY <1>4, <2>2, <3>1 DEF SameField
    <2> QED BY <2>1, <2>2
<1>7. ASSUME NEW i \in 1 .. m + n, NEW j \in 1 .. m + n, z[i][1] = z[j][1]
      PROVE  i = j
    <2>1. CASE i <= m /\ j <= m
        BY <1>4, <1>5, <1>7, <2>1
    <2>2. CASE ~(i <= m) /\ ~(j <= m)
        <3> DEFINE k == i - m
                   l == j - m
        <3>1. k \in 1 .. n /\ l \in 1 .. n /\ h[k][1] = h[l][1]
            BY <1>5, <1>7, <2>2
        <3>2. k = l
            <4> HIDE DEF k, l
            <4> QED BY <1>4, <3>1
        <3> QED BY <1>1, <3>2
    <2>3. CASE (i <= m) # (j <= m)
        <3>1. Head(z[i][1]) = Head(z[j][1])
            BY <1>7
        <3>2. Head(z[i][1]) \in H /\ Head(z[i][1]) \in K
            BY <1>6, <2>3, <3>1
        <3> QED BY <3>2
    <2> QED BY <2>1, <2>2, <2>3
<1>8. m + n \in Nat
    BY <1>1
<1>9. Table(row, y, z, H \cup K)
    BY <1>2, <1>3, <1>6, <1>7, <1>8 DEF Table
<1> QED BY <1>9 DEF y, z

\* The types that are written and read.
LEMMA NumbersAgree ==
    ASSUME NEW row \in BOOLEAN, NEW w \in {1, 2, 4, 8}, NEW most \in 0 .. Top(w)
    PROVE  Agree(row, U(w), [U(w) EXCEPT !.most = most])
<1> DEFINE p == U(w)
           g == [U(w) EXCEPT !.most = most]
<1>1. p.as = "number" /\ p.width = w /\ g.as = "number" /\ g.width = w /\ g.most = most
    BY DEF U
<1> HIDE DEF p, g
<1>2. Alike(p, g)
    BY <1>1 DEF Alike, PlainType, Plain
<1> QED BY <1>2 DEF Agree, AlikeField, p, g

LEMMA NumberAgrees ==
    ASSUME NEW row \in BOOLEAN, NEW w \in {1, 2, 4, 8}
    PROVE  Agree(row, U(w), U(w))
<1> DEFINE p == U(w)
<1>1. p.as = "number" /\ p.width = w /\ p.most = Top(w) /\ Top(w) \in Nat
    BY TopFacts DEF U
<1> HIDE DEF p
<1>2. Alike(p, p)
    BY <1>1 DEF Alike, PlainType, Plain
<1> QED BY <1>2 DEF Agree, AlikeField, p

\* An enumeration is written as the byte that it is, and read as one of its values.
LEMMA EnumAgrees ==
    ASSUME NEW row \in BOOLEAN, NEW most \in Nat
    PROVE  Agree(row, U8, Enum(most))
<1> DEFINE m == Least(most, Base - 2)
<1>1. Values[1] = Base
    <2>1. Values[1] = Values[0] * Base /\ Values[0] = 1
        BY ValuesFacts
    <2> QED BY <2>1, BaseFacts
<1>2. m \in 0 .. Base - 1
    BY BaseFacts DEF Least
<1>3. m \in 0 .. Top(1)
    BY <1>1, <1>2 DEF Top
<1> HIDE DEF m
<1>4. Agree(row, U(1), [U(1) EXCEPT !.most = m])
    BY <1>3, NumbersAgree
<1> QED BY <1>4 DEF U8, Enum, m

LEMMA ReasonAgrees ==
    ASSUME NEW row \in BOOLEAN
    PROVE  Agree(row, U16, Reason)
<1>1. Values[2] = Base * Base
    <2>1. Values[1] = Values[0] * Base /\ Values[0] = 1 /\ Values[2] = Values[1] * Base
        BY ValuesFacts
    <2>2. Values[1] = Base
        BY <2>1, BaseFacts
    <2> QED BY <2>1, <2>2
<1>2. Base * Base >= 14 * 14
    <2>1. Base * Base >= 14 * Base
        BY BaseFacts
    <2>2. 14 * Base >= 14 * 14
        BY BaseFacts
    <2>3. Base * Base \in Int
        BY BaseFacts
    <2> QED BY <2>1, <2>2, <2>3, BaseFacts
<1>3. 91 \in 0 .. Top(2)
    <2> DEFINE v == Values[2]
    <2>1. v \in Int /\ v >= 14 * 14 /\ Top(2) = v - 1
        BY <1>1, <1>2, BaseFacts DEF Top
    <2> HIDE DEF v
    <2>2. 91 \in 0 .. v - 1
        BY <2>1
    <2> QED BY <2>1, <2>2
<1>4. Agree(row, U(2), [U(2) EXCEPT !.most = 91])
    BY <1>3, NumbersAgree
<1> QED BY <1>4 DEF U16, Reason, max_reason_value

LEMMA TypesAgree ==
    ASSUME NEW row \in BOOLEAN
    PROVE  /\ Agree(row, U8, U8) /\ Agree(row, U16, U16) /\ Agree(row, U32, U32)
           /\ Agree(row, U64, U64) /\ Agree(row, I64, I64) /\ Agree(row, Bool, Bool)
           /\ Agree(row, U16, Reason) /\ Agree(row, U8, Code)
           /\ \A most \in Nat : Agree(row, U8, Enum(most))
<1>1. Agree(row, U8, U8) /\ Agree(row, U16, U16) /\ Agree(row, U32, U32) /\ Agree(row, U64, U64)
    BY NumberAgrees DEF U8, U16, U32, U64
<1>2. Alike(I64, I64)
    <2>1. I64.as = "signed" /\ I64.width = 8 /\ I64.most = Top(8) /\ Top(8) \in Nat
        BY TopFacts DEF I64
    <2> QED BY <2>1 DEF Alike, PlainType, Plain
<1>3. Alike(Bool, Bool)
    <2>1. Bool.as = "bool" /\ Bool.width = 1 /\ Bool.most = 1
        BY DEF Bool
    <2>2. Top(1) \in Nat /\ 1 <= Top(1)
        <3>1. Values[1] = Values[0] * Base /\ Values[0] = 1
            BY ValuesFacts
        <3>2. Values[1] = Base
            BY <3>1, BaseFacts
        <3> QED BY <3>2, BaseFacts DEF Top
    <2>3. 1 \in 0 .. Top(1)
        BY <2>2
    <2> QED BY <2>1, <2>3 DEF Alike, PlainType, Plain
<1>4. Agree(row, I64, I64) /\ Agree(row, Bool, Bool)
    BY <1>2, <1>3 DEF Agree, AlikeField
<1>5. \A most \in Nat : Agree(row, U8, Enum(most))
    BY EnumAgrees
<1>6. Agree(row, U8, Code)
    BY <1>5 DEF Code, max_code_value
<1> QED BY <1>1, <1>4, <1>5, <1>6, ReasonAgrees

LEMMA StringsAgree ==
    ASSUME NEW most \in StringLimits
    PROVE  Agree(FALSE, String(most), String(most))
<1>1. String(most).as = "string" /\ String(most).most = most
    BY DEF String
<1> QED BY <1>1 DEF Agree, AlikeField, StringTypes

LEMMA ListsAgree ==
    ASSUME NEW name, AgreeRow(name), NEW most \in ListLimits
    PROVE  Agree(FALSE, List(name, most), List(name, most))
<1>1. /\ List(name, most).as = "list" /\ List(name, most).of = name
      /\ List(name, most).most = most
    BY DEF List
<1> QED BY <1>1 DEF Agree, AlikeField, ListTypes

\* Tables as above, whatever the names of their fields begin with.
IsTable(row, p, g) == \E H : Table(row, p, g, H)

LEMMA PartTable ==
    ASSUME NEW row, NEW p, NEW g, IsTable(row, p, g), NEW name
    PROVE  Table(row, Under(name, p), Under(name, g), {name})
BY UnderTable DEF IsTable

\* One part more.
LEMMA ThenOne ==
    ASSUME NEW row, NEW p, NEW g, NEW H, Table(row, p, g, H),
           NEW name, name \notin H, NEW a, NEW c, Agree(row, a, c)
    PROVE  Table(row, p \o One(name, a), g \o One(name, c), H \cup {name})
<1>1. Table(row, One(name, a), One(name, c), {name})
    BY OneTable
<1>2. H \cap {name} = {}
    OBVIOUS
<1> QED BY <1>1, <1>2, JoinTable

LEMMA ThenEach ==
    ASSUME NEW row, NEW p, NEW g, NEW H, Table(row, p, g, H),
           NEW K, H \cap K = {}, NEW names \in Seq(K), Distinct(names),
           NEW a, NEW c, Agree(row, a, c)
    PROVE  Table(row, p \o Each(names, a), g \o Each(names, c), H \cup K)
<1>1. Table(row, Each(names, a), Each(names, c), K)
    BY EachTable
<1> QED BY <1>1, JoinTable

LEMMA ThenPart ==
    ASSUME NEW row, NEW p, NEW g, NEW H, Table(row, p, g, H),
           NEW name, name \notin H, NEW q, NEW h, IsTable(row, q, h)
    PROVE  Table(row, p \o Under(name, q), g \o Under(name, h), H \cup {name})
<1>1. Table(row, Under(name, q), Under(name, h), {name})
    BY PartTable
<1>2. H \cap {name} = {}
    OBVIOUS
<1> QED BY <1>1, <1>2, JoinTable

-----------------------------------------------------------------------------
(* Every table of the writers agrees with that of the readers. *)

LEMMA AuthorityTable ==
    ASSUME NEW row \in BOOLEAN
    PROVE  IsTable(row, put_authority, get_authority)
<1> DEFINE n1 == <<"topology", "path_authority", "policy", "obligations", "epoch", "boot">>
           K1 == {"topology", "path_authority", "policy", "obligations", "epoch", "boot"}
           p1 == Each(n1, U64)
           g1 == Each(n1, U64)
           H1 == K1
<1>1. Table(row, p1, g1, H1)
    <2>1. n1 \in Seq(K1) /\ Distinct(n1)
        BY DEF Distinct
    <2> HIDE DEF n1, K1
    <2> QED BY <2>1, TypesAgree, EachTable
<1> HIDE DEF p1, g1
<1> QED BY <1>1 DEF IsTable, put_authority, get_authority, p1, g1

LEMMA EvidenceTable ==
    ASSUME NEW row \in BOOLEAN
    PROVE  IsTable(row, put_evidence, get_evidence)
<1> DEFINE n1 == <<"id", "path">>
           K1 == {"id", "path"}
           n2 == <<"freshness", "eligibility", "reachability", "capacity">>
           K2 == {"freshness", "eligibility", "reachability", "capacity"}
           n4 == <<"health_ppm", "cost_units">>
           K4 == {"health_ppm", "cost_units"}
           p1 == Each(n1, U64)
           g1 == Each(n1, U64)
           H1 == K1
           p2 == p1 \o Each(n2, U8)
           g2 == g1 \o Each(n2, Enum(2))
           H2 == H1 \cup K2
           p3 == p2 \o One("capabilities", U32)
           g3 == g2 \o One("capabilities", U32)
           H3 == H2 \cup {"capabilities"}
           p4 == p3 \o Each(n4, I64)
           g4 == g3 \o Each(n4, I64)
           H4 == H3 \cup K4
           p5 == p4 \o One("observation_seq", U64)
           g5 == g4 \o One("observation_seq", U64)
           H5 == H4 \cup {"observation_seq"}
           p6 == p5 \o Under("observed_under", put_authority)
           g6 == g5 \o Under("observed_under", get_authority)
           H6 == H5 \cup {"observed_under"}
           p7 == p6 \o One("provenance", U8)
           g7 == g6 \o One("provenance", Enum(2))
           H7 == H6 \cup {"provenance"}
<1>1. Table(row, p1, g1, H1)
    <2>1. n1 \in Seq(K1) /\ Distinct(n1)
        BY DEF Distinct
    <2> HIDE DEF n1, K1
    <2> QED BY <2>1, TypesAgree, EachTable
<1> HIDE DEF p1, g1
<1>2. Table(row, p2, g2, H2)
    <2>1. n2 \in Seq(K2) /\ Distinct(n2) /\ H1 \cap K2 = {}
        BY DEF Distinct
    <2> HIDE DEF n2, K2, H1
    <2> QED BY <1>1, <2>1, TypesAgree, ThenEach
<1> HIDE DEF p2, g2
<1>3. Table(row, p3, g3, H3)
    BY <1>2, TypesAgree, ThenOne
<1> HIDE DEF p3, g3
<1>4. Table(row, p4, g4, H4)
    <2>1. n4 \in Seq(K4) /\ Distinct(n4) /\ H3 \cap K4 = {}
        BY DEF Distinct
    <2> HIDE DEF n4, K4, H3
    <2> QED BY <1>3, <2>1, TypesAgree, ThenEach
<1> HIDE DEF p4, g4
<1>5. Table(row, p5, g5, H5)
    BY <1>4, TypesAgree, ThenOne
<1> HIDE DEF p5, g5
<1>6. Table(row, p6, g6, H6)
    BY <1>5, AuthorityTable, ThenPart
<1> HIDE DEF p6, g6
<1>7. Table(row, p7, g7, H7)
    BY <1>6, TypesAgree, ThenOne
<1> HIDE DEF p7, g7
<1> QED BY <1>7 DEF IsTable, put_evidence, get_evidence, p1, g1, p2, g2, p3, g3, p4, g4, p5,
          g5, p6, g6, p7, g7

LEMMA EffectTable ==
    ASSUME NEW row \in BOOLEAN
    PROVE  IsTable(row, put_effect, get_effect)
<1> DEFINE n1 == <<"id", "path", "observation_seq">>
           K1 == {"id", "path", "observation_seq"}
           p1 == Each(n1, U64)
           g1 == Each(n1, U64)
           H1 == K1
           p2 == p1 \o One("effect_verified", Bool)
           g2 == g1 \o One("effect_verified", Bool)
           H2 == H1 \cup {"effect_verified"}
           p3 == p2 \o Under("observed_under", put_authority)
           g3 == g2 \o Under("observed_under", get_authority)
           H3 == H2 \cup {"observed_under"}
           p4 == p3 \o One("provenance", U8)
           g4 == g3 \o One("provenance", Enum(2))
           H4 == H3 \cup {"provenance"}
<1>1. Table(row, p1, g1, H1)
    <2>1. n1 \in Seq(K1) /\ Distinct(n1)
        BY DEF Distinct
    <2> HIDE DEF n1, K1
    <2> QED BY <2>1, TypesAgree, EachTable
<1> HIDE DEF p1, g1
<1>2. Table(row, p2, g2, H2)
    BY <1>1, TypesAgree, ThenOne
<1> HIDE DEF p2, g2
<1>3. Table(row, p3, g3, H3)
    BY <1>2, AuthorityTable, ThenPart
<1> HIDE DEF p3, g3
<1>4. Table(row, p4, g4, H4)
    BY <1>3, TypesAgree, ThenOne
<1> HIDE DEF p4, g4
<1> QED BY <1>4 DEF IsTable, put_effect, get_effect, p1, g1, p2, g2, p3, g3, p4, g4

LEMMA ObligationsTable ==
    ASSUME NEW row \in BOOLEAN
    PROVE  IsTable(row, put_obligations, get_obligations)
<1> DEFINE n3 == <<"min_health_ppm", "max_cost_units">>
           K3 == {"min_health_ppm", "max_cost_units"}
           n4 == <<"require_reachable", "require_capacity", "require_fresh_evidence">>
           K4 == {"require_reachable", "require_capacity", "require_fresh_evidence"}
           p1 == One("generation", U64)
           g1 == One("generation", U64)
           H1 == {"generation"}
           p2 == p1 \o One("required_capabilities", U32)
           g2 == g1 \o One("required_capabilities", U32)
           H2 == H1 \cup {"required_capabilities"}
           p3 == p2 \o Each(n3, I64)
           g3 == g2 \o Each(n3, I64)
           H3 == H2 \cup K3
           p4 == p3 \o Each(n4, Bool)
           g4 == g3 \o Each(n4, Bool)
           H4 == H3 \cup K4
<1>1. Table(row, p1, g1, H1)
    BY TypesAgree, OneTable
<1> HIDE DEF p1, g1
<1>2. Table(row, p2, g2, H2)
    BY <1>1, TypesAgree, ThenOne
<1> HIDE DEF p2, g2
<1>3. Table(row, p3, g3, H3)
    <2>1. n3 \in Seq(K3) /\ Distinct(n3) /\ H2 \cap K3 = {}
        BY DEF Distinct
    <2> HIDE DEF n3, K3, H2
    <2> QED BY <1>2, <2>1, TypesAgree, ThenEach
<1> HIDE DEF p3, g3
<1>4. Table(row, p4, g4, H4)
    <2>1. n4 \in Seq(K4) /\ Distinct(n4) /\ H3 \cap K4 = {}
        BY DEF Distinct
    <2> HIDE DEF n4, K4, H3
    <2> QED BY <1>3, <2>1, TypesAgree, ThenEach
<1> HIDE DEF p4, g4
<1> QED BY <1>4 DEF IsTable, put_obligations, get_obligations, p1, g1, p2, g2, p3, g3, p4, g4

LEMMA PolicyTable ==
    ASSUME NEW row \in BOOLEAN
    PROVE  IsTable(row, put_policy, get_policy)
<1> DEFINE n2 == <<"w_health", "w_cost", "w_rank", "w_capability", "min_score">>
           K2 == {"w_health", "w_cost", "w_rank", "w_capability", "min_score"}
           n3 == <<"search_limit", "max_retained_attempts", "max_revalidations">>
           K3 == {"search_limit", "max_retained_attempts", "max_revalidations"}
           n4 == <<"allow_unknown_skip", "require_verified_effect">>
           K4 == {"allow_unknown_skip", "require_verified_effect"}
           p1 == One("generation", U64)
           g1 == One("generation", U64)
           H1 == {"generation"}
           p2 == p1 \o Each(n2, I64)
           g2 == g1 \o Each(n2, I64)
           H2 == H1 \cup K2
           p3 == p2 \o Each(n3, U32)
           g3 == g2 \o Each(n3, U32)
           H3 == H2 \cup K3
           p4 == p3 \o Each(n4, Bool)
           g4 == g3 \o Each(n4, Bool)
           H4 == H3 \cup K4
<1>1. Table(row, p1, g1, H1)
    BY TypesAgree, OneTable
<1> HIDE DEF p1, g1
<1>2. Table(row, p2, g2, H2)
    <2>1. n2 \in Seq(K2) /\ Distinct(n2) /\ H1 \cap K2 = {}
        BY DEF Distinct
    <2> HIDE DEF n2, K2, H1
    <2> QED BY <1>1, <2>1, TypesAgree, ThenEach
<1> HIDE DEF p2, g2
<1>3. Table(row, p3, g3, H3)
    <2>1. n3 \in Seq(K3) /\ Distinct(n3) /\ H2 \cap K3 = {}
        BY DEF Distinct
    <2> HIDE DEF n3, K3, H2
    <2> QED BY <1>2, <2>1, TypesAgree, ThenEach
<1> HIDE DEF p3, g3
<1>4. Table(row, p4, g4, H4)
    <2>1. n4 \in Seq(K4) /\ Distinct(n4) /\ H3 \cap K4 = {}
        BY DEF Distinct
    <2> HIDE DEF n4, K4, H3
    <2> QED BY <1>3, <2>1, TypesAgree, ThenEach
<1> HIDE DEF p4, g4
<1> QED BY <1>4 DEF IsTable, put_policy, get_policy, p1, g1, p2, g2, p3, g3, p4, g4

LEMMA CandidateTable ==
    ASSUME NEW row \in BOOLEAN
    PROVE  IsTable(row, put_candidate, get_candidate)
<1> DEFINE p1 == One("path", U64)
           g1 == One("path", U64)
           H1 == {"path"}
           p2 == p1 \o One("upstream_rank", U32)
           g2 == g1 \o One("upstream_rank", U32)
           H2 == H1 \cup {"upstream_rank"}
           p3 == p2 \o One("withdrawn", Bool)
           g3 == g2 \o One("withdrawn", Bool)
           H3 == H2 \cup {"withdrawn"}
           p4 == p3 \o Under("evidence", put_evidence)
           g4 == g3 \o Under("evidence", get_evidence)
           H4 == H3 \cup {"evidence"}
           p5 == p4 \o Under("authority", put_authority)
           g5 == g4 \o Under("authority", get_authority)
           H5 == H4 \cup {"authority"}
<1>1. Table(row, p1, g1, H1)
    BY TypesAgree, OneTable
<1> HIDE DEF p1, g1
<1>2. Table(row, p2, g2, H2)
    BY <1>1, TypesAgree, ThenOne
<1> HIDE DEF p2, g2
<1>3. Table(row, p3, g3, H3)
    BY <1>2, TypesAgree, ThenOne
<1> HIDE DEF p3, g3
<1>4. Table(row, p4, g4, H4)
    BY <1>3, EvidenceTable, ThenPart
<1> HIDE DEF p4, g4
<1>5. Table(row, p5, g5, H5)
    BY <1>4, AuthorityTable, ThenPart
<1> HIDE DEF p5, g5
<1> QED BY <1>5 DEF IsTable, put_candidate, get_candidate, p1, g1, p2, g2, p3, g3, p4, g4, p5,
          g5

LEMMA CandidateList ==
    ASSUME NEW most \in ListLimits
    PROVE  Agree(FALSE, List("candidate", most), List("candidate", most))
<1>1. Put["candidate"] = put_candidate /\ Get["candidate"] = get_candidate
    BY DEF Put, Get
<1>2. AgreeRow("candidate")
    BY <1>1, CandidateTable, TableRow DEF IsTable
<1> QED BY <1>2, ListsAgree

LEMMA SetTable ==
    IsTable(FALSE, put_set, get_set)
<1> DEFINE n1 == <<"id", "generation">>
           K1 == {"id", "generation"}
           p1 == Each(n1, U64)
           g1 == Each(n1, U64)
           H1 == K1
           p2 == p1 \o One("completeness", U8)
           g2 == g1 \o One("completeness", Enum(2))
           H2 == H1 \cup {"completeness"}
           p3 == p2 \o One("candidates", List("candidate", "max_candidates_per_set"))
           g3 == g2 \o One("candidates", List("candidate", "max_candidates_per_set"))
           H3 == H2 \cup {"candidates"}
<1>1. Table(FALSE, p1, g1, H1)
    <2>1. n1 \in Seq(K1) /\ Distinct(n1)
        BY DEF Distinct
    <2> HIDE DEF n1, K1
    <2> QED BY <2>1, TypesAgree, EachTable
<1> HIDE DEF p1, g1
<1>2. Table(FALSE, p2, g2, H2)
    BY <1>1, TypesAgree, ThenOne
<1> HIDE DEF p2, g2
<1>3. Table(FALSE, p3, g3, H3)
    BY <1>2, CandidateList, ThenOne DEF ListLimits
<1> HIDE DEF p3, g3
<1> QED BY <1>3 DEF IsTable, put_set, get_set, p1, g1, p2, g2, p3, g3

LEMMA TermsTable ==
    ASSUME NEW row \in BOOLEAN
    PROVE  IsTable(row, put_terms, get_terms)
<1> DEFINE n1 == <<"health", "cost", "rank", "capability", "total">>
           K1 == {"health", "cost", "rank", "capability", "total"}
           p1 == Each(n1, I64)
           g1 == Each(n1, I64)
           H1 == K1
<1>1. Table(row, p1, g1, H1)
    <2>1. n1 \in Seq(K1) /\ Distinct(n1)
        BY DEF Distinct
    <2> HIDE DEF n1, K1
    <2> QED BY <2>1, TypesAgree, EachTable
<1> HIDE DEF p1, g1
<1> QED BY <1>1 DEF IsTable, put_terms, get_terms, p1, g1

LEMMA AssessmentTable ==
    ASSUME NEW row \in BOOLEAN
    PROVE  IsTable(row, put_assessment, get_assessment)
<1> DEFINE p1 == One("path", U64)
           g1 == One("path", U64)
           H1 == {"path"}
           p2 == p1 \o One("upstream_rank", U32)
           g2 == g1 \o One("upstream_rank", U32)
           H2 == H1 \cup {"upstream_rank"}
           p3 == p2 \o Under("terms", put_terms)
           g3 == g2 \o Under("terms", get_terms)
           H3 == H2 \cup {"terms"}
           p4 == p3 \o One("verdict", U8)
           g4 == g3 \o One("verdict", Enum(3))
           H4 == H3 \cup {"verdict"}
           p5 == p4 \o One("reason", U16)
           g5 == g4 \o One("reason", Reason)
           H5 == H4 \cup {"reason"}
           p6 == p5 \o One("authority", U8)
           g6 == g5 \o One("authority", Enum(3))
           H6 == H5 \cup {"authority"}
<1>1. Table(row, p1, g1, H1)
    BY TypesAgree, OneTable
<1> HIDE DEF p1, g1
<1>2. Table(row, p2, g2, H2)
    BY <1>1, TypesAgree, ThenOne
<1> HIDE DEF p2, g2
<1>3. Table(row, p3, g3, H3)
    BY <1>2, TermsTable, ThenPart
<1> HIDE DEF p3, g3
<1>4. Table(row, p4, g4, H4)
    BY <1>3, TypesAgree, ThenOne
<1> HIDE DEF p4, g4
<1>5. Table(row, p5, g5, H5)
    BY <1>4, TypesAgree, ThenOne
<1> HIDE DEF p5, g5
<1>6. Table(row, p6, g6, H6)
    BY <1>5, TypesAgree, ThenOne
<1> HIDE DEF p6, g6
<1> QED BY <1>6 DEF IsTable, put_assessment, get_assessment, p1, g1, p2, g2, p3, g3, p4, g4,
          p5, g5, p6, g6

LEMMA AssessmentList ==
    ASSUME NEW most \in ListLimits
    PROVE  Agree(FALSE, List("assessment", most), List("assessment", most))
<1>1. Put["assessment"] = put_assessment /\ Get["assessment"] = get_assessment
    BY DEF Put, Get
<1>2. AgreeRow("assessment")
    BY <1>1, AssessmentTable, TableRow DEF IsTable
<1> QED BY <1>2, ListsAgree

LEMMA StepTable ==
    ASSUME NEW row \in BOOLEAN
    PROVE  IsTable(row, put_step, get_step)
<1> DEFINE p1 == One("reason", U16)
           g1 == One("reason", Reason)
           H1 == {"reason"}
           p2 == p1 \o One("value", I64)
           g2 == g1 \o One("value", I64)
           H2 == H1 \cup {"value"}
<1>1. Table(row, p1, g1, H1)
    BY TypesAgree, OneTable
<1> HIDE DEF p1, g1
<1>2. Table(row, p2, g2, H2)
    BY <1>1, TypesAgree, ThenOne
<1> HIDE DEF p2, g2
<1> QED BY <1>2 DEF IsTable, put_step, get_step, p1, g1, p2, g2

LEMMA StepList ==
    ASSUME NEW most \in ListLimits
    PROVE  Agree(FALSE, List("step", most), List("step", most))
<1>1. Put["step"] = put_step /\ Get["step"] = get_step
    BY DEF Put, Get
<1>2. AgreeRow("step")
    BY <1>1, StepTable, TableRow DEF IsTable
<1> QED BY <1>2, ListsAgree

LEMMA PathIdTable ==
    ASSUME NEW row \in BOOLEAN
    PROVE  IsTable(row, put_path_id, get_path_id)
<1> DEFINE p1 == One("value", U64)
           g1 == One("value", U64)
           H1 == {"value"}
<1>1. Table(row, p1, g1, H1)
    BY TypesAgree, OneTable
<1> HIDE DEF p1, g1
<1> QED BY <1>1 DEF IsTable, put_path_id, get_path_id, p1, g1

LEMMA PathIdList ==
    ASSUME NEW most \in ListLimits
    PROVE  Agree(FALSE, List("path_id", most), List("path_id", most))
<1>1. Put["path_id"] = put_path_id /\ Get["path_id"] = get_path_id
    BY DEF Put, Get
<1>2. AgreeRow("path_id")
    BY <1>1, PathIdTable, TableRow DEF IsTable
<1> QED BY <1>2, ListsAgree

LEMMA DecisionTable ==
    IsTable(FALSE, put_decision, get_decision)
<1> DEFINE n4 == <<"incumbent", "set", "set_generation", "policy_generation",
                   "obligations_generation">>
           K4 == {"incumbent", "set", "set_generation", "policy_generation",
                  "obligations_generation"}
           n6 == <<"attempt", "selected">>
           K6 == {"attempt", "selected"}
           n10 == <<"examined", "supplied">>
           K10 == {"examined", "supplied"}
           n11 == <<"search_limited", "set_complete">>
           K11 == {"search_limited", "set_complete"}
           p1 == One("id", U64)
           g1 == One("id", U64)
           H1 == {"id"}
           p2 == p1 \o One("outcome", U8)
           g2 == g1 \o One("outcome", Enum(18))
           H2 == H1 \cup {"outcome"}
           p3 == p2 \o One("authority_kind", U8)
           g3 == g2 \o One("authority_kind", Enum(5))
           H3 == H2 \cup {"authority_kind"}
           p4 == p3 \o Each(n4, U64)
           g4 == g3 \o Each(n4, U64)
           H4 == H3 \cup K4
           p5 == p4 \o Under("basis", put_authority)
           g5 == g4 \o Under("basis", get_authority)
           H5 == H4 \cup {"basis"}
           p6 == p5 \o Each(n6, U64)
           g6 == g5 \o Each(n6, U64)
           H6 == H5 \cup K6
           p7 == p6 \o One("ranked", List("assessment", "max_assessments_reported"))
           g7 == g6 \o One("ranked", List("assessment", "max_assessments_reported"))
           H7 == H6 \cup {"ranked"}
           p8 == p7 \o One("indeterminate_above", List("path_id", "max_indeterminate_reported"))
           g8 == g7 \o One("indeterminate_above", List("path_id", "max_indeterminate_reported"))
           H8 == H7 \cup {"indeterminate_above"}
           p9 == p8 \o One("explanation", List("step", "max_explanation_steps"))
           g9 == g8 \o One("explanation", List("step", "max_explanation_steps"))
           H9 == H8 \cup {"explanation"}
           p10 == p9 \o Each(n10, U64)
           g10 == g9 \o Each(n10, U64)
           H10 == H9 \cup K10
           p11 == p10 \o Each(n11, Bool)
           g11 == g10 \o Each(n11, Bool)
           H11 == H10 \cup K11
           p12 == p11 \o One("reason", U16)
           g12 == g11 \o One("reason", Reason)
           H12 == H11 \cup {"reason"}
           p13 == p12 \o One("provenance", U8)
           g13 == g12 \o One("provenance", Enum(2))
           H13 == H12 \cup {"provenance"}
<1>1. Table(FALSE, p1, g1, H1)
    BY TypesAgree, OneTable
<1> HIDE DEF p1, g1
<1>2. Table(FALSE, p2, g2, H2)
    BY <1>1, TypesAgree, ThenOne
<1> HIDE DEF p2, g2
<1>3. Table(FALSE, p3, g3, H3)
    BY <1>2, TypesAgree, ThenOne
<1> HIDE DEF p3, g3
<1>4. Table(FALSE, p4, g4, H4)
    <2>1. n4 \in Seq(K4) /\ Distinct(n4) /\ H3 \cap K4 = {}
        BY DEF Distinct
    <2> HIDE DEF n4, K4, H3
    <2> QED BY <1>3, <2>1, TypesAgree, ThenEach
<1> HIDE DEF p4, g4
<1>5. Table(FALSE, p5, g5, H5)
    BY <1>4, AuthorityTable, ThenPart
<1> HIDE DEF p5, g5
<1>6. Table(FALSE, p6, g6, H6)
    <2>1. n6 \in Seq(K6) /\ Distinct(n6) /\ H5 \cap K6 = {}
        BY DEF Distinct
    <2> HIDE DEF n6, K6, H5
    <2> QED BY <1>5, <2>1, TypesAgree, ThenEach
<1> HIDE DEF p6, g6
<1>7. Table(FALSE, p7, g7, H7)
    BY <1>6, AssessmentList, ThenOne DEF ListLimits
<1> HIDE DEF p7, g7
<1>8. Table(FALSE, p8, g8, H8)
    BY <1>7, PathIdList, ThenOne DEF ListLimits
<1> HIDE DEF p8, g8
<1>9. Table(FALSE, p9, g9, H9)
    BY <1>8, StepList, ThenOne DEF ListLimits
<1> HIDE DEF p9, g9
<1>10. Table(FALSE, p10, g10, H10)
    <2>1. n10 \in Seq(K10) /\ Distinct(n10) /\ H9 \cap K10 = {}
        BY DEF Distinct
    <2> HIDE DEF n10, K10, H9
    <2> QED BY <1>9, <2>1, TypesAgree, ThenEach
<1> HIDE DEF p10, g10
<1>11. Table(FALSE, p11, g11, H11)
    <2>1. n11 \in Seq(K11) /\ Distinct(n11) /\ H10 \cap K11 = {}
        BY DEF Distinct
    <2> HIDE DEF n11, K11, H10
    <2> QED BY <1>10, <2>1, TypesAgree, ThenEach
<1> HIDE DEF p11, g11
<1>12. Table(FALSE, p12, g12, H12)
    BY <1>11, TypesAgree, ThenOne
<1> HIDE DEF p12, g12
<1>13. Table(FALSE, p13, g13, H13)
    BY <1>12, TypesAgree, ThenOne
<1> HIDE DEF p13, g13
<1> QED BY <1>13 DEF IsTable, put_decision, get_decision, p1, g1, p2, g2, p3, g3, p4, g4, p5,
          g5, p6, g6, p7, g7, p8, g8, p9, g9, p10, g10, p11, g11, p12, g12, p13, g13

LEMMA RequestTable ==
    ASSUME NEW row \in BOOLEAN
    PROVE  IsTable(row, put_request, get_request)
<1> DEFINE n3 == <<"set", "set_generation", "policy_generation", "obligations_generation",
                   "topology_generation", "path_authority_generation", "epoch", "boot",
                   "attempt">>
           K3 == {"set", "set_generation", "policy_generation", "obligations_generation",
                  "topology_generation", "path_authority_generation", "epoch", "boot",
                  "attempt"}
           p1 == One("incumbent", U64)
           g1 == One("incumbent", U64)
           H1 == {"incumbent"}
           p2 == p1 \o One("condition", U8)
           g2 == g1 \o One("condition", Enum(2))
           H2 == H1 \cup {"condition"}
           p3 == p2 \o Each(n3, U64)
           g3 == g2 \o Each(n3, U64)
           H3 == H2 \cup K3
<1>1. Table(row, p1, g1, H1)
    BY TypesAgree, OneTable
<1> HIDE DEF p1, g1
<1>2. Table(row, p2, g2, H2)
    BY <1>1, TypesAgree, ThenOne
<1> HIDE DEF p2, g2
<1>3. Table(row, p3, g3, H3)
    <2>1. n3 \in Seq(K3) /\ Distinct(n3) /\ H2 \cap K3 = {}
        BY DEF Distinct
    <2> HIDE DEF n3, K3, H2
    <2> QED BY <1>2, <2>1, TypesAgree, ThenEach
<1> HIDE DEF p3, g3
<1> QED BY <1>3 DEF IsTable, put_request, get_request, p1, g1, p2, g2, p3, g3

LEMMA AttemptTable ==
    ASSUME NEW row \in BOOLEAN
    PROVE  IsTable(row, put_attempt, get_attempt)
<1> DEFINE n1 == <<"id", "epoch", "boot", "incumbent", "selected", "set", "set_generation">>
           K1 == {"id", "epoch", "boot", "incumbent", "selected", "set", "set_generation"}
           n5 == <<"begin_sequence", "terminal_sequence">>
           K5 == {"begin_sequence", "terminal_sequence"}
           p1 == Each(n1, U64)
           g1 == Each(n1, U64)
           H1 == K1
           p2 == p1 \o Under("basis", put_authority)
           g2 == g1 \o Under("basis", get_authority)
           H2 == H1 \cup {"basis"}
           p3 == p2 \o One("state", U8)
           g3 == g2 \o One("state", Enum(9))
           H3 == H2 \cup {"state"}
           p4 == p3 \o One("terminal_reason", U16)
           g4 == g3 \o One("terminal_reason", Reason)
           H4 == H3 \cup {"terminal_reason"}
           p5 == p4 \o Each(n5, U64)
           g5 == g4 \o Each(n5, U64)
           H5 == H4 \cup K5
           p6 == p5 \o One("revalidations", U32)
           g6 == g5 \o One("revalidations", U32)
           H6 == H5 \cup {"revalidations"}
<1>1. Table(row, p1, g1, H1)
    <2>1. n1 \in Seq(K1) /\ Distinct(n1)
        BY DEF Distinct
    <2> HIDE DEF n1, K1
    <2> QED BY <2>1, TypesAgree, EachTable
<1> HIDE DEF p1, g1
<1>2. Table(row, p2, g2, H2)
    BY <1>1, AuthorityTable, ThenPart
<1> HIDE DEF p2, g2
<1>3. Table(row, p3, g3, H3)
    BY <1>2, TypesAgree, ThenOne
<1> HIDE DEF p3, g3
<1>4. Table(row, p4, g4, H4)
    BY <1>3, TypesAgree, ThenOne
<1> HIDE DEF p4, g4
<1>5. Table(row, p5, g5, H5)
    <2>1. n5 \in Seq(K5) /\ Distinct(n5) /\ H4 \cap K5 = {}
        BY DEF Distinct
    <2> HIDE DEF n5, K5, H4
    <2> QED BY <1>4, <2>1, TypesAgree, ThenEach
<1> HIDE DEF p5, g5
<1>6. Table(row, p6, g6, H6)
    BY <1>5, TypesAgree, ThenOne
<1> HIDE DEF p6, g6
<1> QED BY <1>6 DEF IsTable, put_attempt, get_attempt, p1, g1, p2, g2, p3, g3, p4, g4, p5, g5,
          p6, g6

LEMMA FenceTable ==
    ASSUME NEW row \in BOOLEAN
    PROVE  IsTable(row, put_fence, get_fence)
<1> DEFINE n1 == <<"id", "epoch", "boot", "attempt", "path">>
           K1 == {"id", "epoch", "boot", "attempt", "path"}
           p1 == Each(n1, U64)
           g1 == Each(n1, U64)
           H1 == K1
           p2 == p1 \o One("reason", U16)
           g2 == g1 \o One("reason", Reason)
           H2 == H1 \cup {"reason"}
           p3 == p2 \o Under("at", put_authority)
           g3 == g2 \o Under("at", get_authority)
           H3 == H2 \cup {"at"}
           p4 == p3 \o One("sequence", U64)
           g4 == g3 \o One("sequence", U64)
           H4 == H3 \cup {"sequence"}
<1>1. Table(row, p1, g1, H1)
    <2>1. n1 \in Seq(K1) /\ Distinct(n1)
        BY DEF Distinct
    <2> HIDE DEF n1, K1
    <2> QED BY <2>1, TypesAgree, EachTable
<1> HIDE DEF p1, g1
<1>2. Table(row, p2, g2, H2)
    BY <1>1, TypesAgree, ThenOne
<1> HIDE DEF p2, g2
<1>3. Table(row, p3, g3, H3)
    BY <1>2, AuthorityTable, ThenPart
<1> HIDE DEF p3, g3
<1>4. Table(row, p4, g4, H4)
    BY <1>3, TypesAgree, ThenOne
<1> HIDE DEF p4, g4
<1> QED BY <1>4 DEF IsTable, put_fence, get_fence, p1, g1, p2, g2, p3, g3, p4, g4

LEMMA LineageTable ==
    ASSUME NEW row \in BOOLEAN
    PROVE  IsTable(row, put_lineage, get_lineage)
<1> DEFINE n1 == <<"decision", "attempt", "epoch", "boot">>
           K1 == {"decision", "attempt", "epoch", "boot"}
           n3 == <<"incumbent", "selected", "set">>
           K3 == {"incumbent", "selected", "set"}
           p1 == Each(n1, U64)
           g1 == Each(n1, U64)
           H1 == K1
           p2 == p1 \o One("outcome", U8)
           g2 == g1 \o One("outcome", Enum(18))
           H2 == H1 \cup {"outcome"}
           p3 == p2 \o Each(n3, U64)
           g3 == g2 \o Each(n3, U64)
           H3 == H2 \cup K3
           p4 == p3 \o Under("basis", put_authority)
           g4 == g3 \o Under("basis", get_authority)
           H4 == H3 \cup {"basis"}
           p5 == p4 \o One("reason", U16)
           g5 == g4 \o One("reason", Reason)
           H5 == H4 \cup {"reason"}
           p6 == p5 \o One("sequence", U64)
           g6 == g5 \o One("sequence", U64)
           H6 == H5 \cup {"sequence"}
<1>1. Table(row, p1, g1, H1)
    <2>1. n1 \in Seq(K1) /\ Distinct(n1)
        BY DEF Distinct
    <2> HIDE DEF n1, K1
    <2> QED BY <2>1, TypesAgree, EachTable
<1> HIDE DEF p1, g1
<1>2. Table(row, p2, g2, H2)
    BY <1>1, TypesAgree, ThenOne
<1> HIDE DEF p2, g2
<1>3. Table(row, p3, g3, H3)
    <2>1. n3 \in Seq(K3) /\ Distinct(n3) /\ H2 \cap K3 = {}
        BY DEF Distinct
    <2> HIDE DEF n3, K3, H2
    <2> QED BY <1>2, <2>1, TypesAgree, ThenEach
<1> HIDE DEF p3, g3
<1>4. Table(row, p4, g4, H4)
    BY <1>3, AuthorityTable, ThenPart
<1> HIDE DEF p4, g4
<1>5. Table(row, p5, g5, H5)
    BY <1>4, TypesAgree, ThenOne
<1> HIDE DEF p5, g5
<1>6. Table(row, p6, g6, H6)
    BY <1>5, TypesAgree, ThenOne
<1> HIDE DEF p6, g6
<1> QED BY <1>6 DEF IsTable, put_lineage, get_lineage, p1, g1, p2, g2, p3, g3, p4, g4, p5, g5,
          p6, g6

LEMMA LineageList ==
    ASSUME NEW most \in ListLimits
    PROVE  Agree(FALSE, List("lineage", most), List("lineage", most))
<1>1. Put["lineage"] = put_lineage /\ Get["lineage"] = get_lineage
    BY DEF Put, Get
<1>2. AgreeRow("lineage")
    BY <1>1, LineageTable, TableRow DEF IsTable
<1> QED BY <1>2, ListsAgree

LEMMA HeaderTable ==
    ASSUME NEW row \in BOOLEAN
    PROVE  IsTable(row, put_header, get_header)
<1> DEFINE n1 == <<"session", "epoch", "boot", "request_sequence">>
           K1 == {"session", "epoch", "boot", "request_sequence"}
           p1 == Each(n1, U64)
           g1 == Each(n1, U64)
           H1 == K1
<1>1. Table(row, p1, g1, H1)
    <2>1. n1 \in Seq(K1) /\ Distinct(n1)
        BY DEF Distinct
    <2> HIDE DEF n1, K1
    <2> QED BY <2>1, TypesAgree, EachTable
<1> HIDE DEF p1, g1
<1> QED BY <1>1 DEF IsTable, put_header, get_header, p1, g1

LEMMA HelloTable ==
    IsTable(FALSE, put_hello, get_hello)
<1> DEFINE p1 == One("protocol", U16)
           g1 == One("protocol", U16)
           H1 == {"protocol"}
           p2 == p1 \o One("client", String("max_name_bytes"))
           g2 == g1 \o One("client", String("max_name_bytes"))
           H2 == H1 \cup {"client"}
           p3 == p2 \o One("nonce", U64)
           g3 == g2 \o One("nonce", U64)
           H3 == H2 \cup {"nonce"}
<1>1. Table(FALSE, p1, g1, H1)
    BY TypesAgree, OneTable
<1> HIDE DEF p1, g1
<1>2. Table(FALSE, p2, g2, H2)
    BY <1>1, StringsAgree, ThenOne DEF StringLimits
<1> HIDE DEF p2, g2
<1>3. Table(FALSE, p3, g3, H3)
    BY <1>2, TypesAgree, ThenOne
<1> HIDE DEF p3, g3
<1> QED BY <1>3 DEF IsTable, put_hello, get_hello, p1, g1, p2, g2, p3, g3

LEMMA HelloAckTable ==
    ASSUME NEW row \in BOOLEAN
    PROVE  IsTable(row, put_hello_ack, get_hello_ack)
<1> DEFINE n2 == <<"session", "epoch", "boot", "incarnation">>
           K2 == {"session", "epoch", "boot", "incarnation"}
           p1 == One("protocol", U16)
           g1 == One("protocol", U16)
           H1 == {"protocol"}
           p2 == p1 \o Each(n2, U64)
           g2 == g1 \o Each(n2, U64)
           H2 == H1 \cup K2
           p3 == p2 \o Under("authority", put_authority)
           g3 == g2 \o Under("authority", get_authority)
           H3 == H2 \cup {"authority"}
           p4 == p3 \o One("max_requests_per_session", U64)
           g4 == g3 \o One("max_requests_per_session", U64)
           H4 == H3 \cup {"max_requests_per_session"}
<1>1. Table(row, p1, g1, H1)
    BY TypesAgree, OneTable
<1> HIDE DEF p1, g1
<1>2. Table(row, p2, g2, H2)
    <2>1. n2 \in Seq(K2) /\ Distinct(n2) /\ H1 \cap K2 = {}
        BY DEF Distinct
    <2> HIDE DEF n2, K2, H1
    <2> QED BY <1>1, <2>1, TypesAgree, ThenEach
<1> HIDE DEF p2, g2
<1>3. Table(row, p3, g3, H3)
    BY <1>2, AuthorityTable, ThenPart
<1> HIDE DEF p3, g3
<1>4. Table(row, p4, g4, H4)
    BY <1>3, TypesAgree, ThenOne
<1> HIDE DEF p4, g4
<1> QED BY <1>4 DEF IsTable, put_hello_ack, get_hello_ack, p1, g1, p2, g2, p3, g3, p4, g4

LEMMA ErrorTable ==
    IsTable(FALSE, put_error, get_error)
<1> DEFINE p1 == One("code", U8)
           g1 == One("code", Code)
           H1 == {"code"}
           p2 == p1 \o One("reason", U16)
           g2 == g1 \o One("reason", Reason)
           H2 == H1 \cup {"reason"}
           p3 == p2 \o One("detail", String("max_reason_bytes"))
           g3 == g2 \o One("detail", String("max_reason_bytes"))
           H3 == H2 \cup {"detail"}
<1>1. Table(FALSE, p1, g1, H1)
    BY TypesAgree, OneTable
<1> HIDE DEF p1, g1
<1>2. Table(FALSE, p2, g2, H2)
    BY <1>1, TypesAgree, ThenOne
<1> HIDE DEF p2, g2
<1>3. Table(FALSE, p3, g3, H3)
    BY <1>2, StringsAgree, ThenOne DEF StringLimits
<1> HIDE DEF p3, g3
<1> QED BY <1>3 DEF IsTable, put_error, get_error, p1, g1, p2, g2, p3, g3

LEMMA FabricStatsTable ==
    ASSUME NEW row \in BOOLEAN
    PROVE  IsTable(row, put_fabric_stats, get_fabric_stats)
<1> DEFINE n1 == <<"promotions_authorized", "promotions_committed", "promotions_refused",
                   "promotions_indeterminate", "fences_recorded",
                   "stale_completions_rejected", "rollbacks", "reversions", "revalidations",
                   "journal_records", "snapshots_written", "restarts", "evidence_accepted",
                   "evidence_rejected", "attempts_dropped">>
           K1 == {"promotions_authorized", "promotions_committed", "promotions_refused",
                  "promotions_indeterminate", "fences_recorded",
                  "stale_completions_rejected", "rollbacks", "reversions", "revalidations",
                  "journal_records", "snapshots_written", "restarts", "evidence_accepted",
                  "evidence_rejected", "attempts_dropped"}
           p1 == Each(n1, U64)
           g1 == Each(n1, U64)
           H1 == K1
<1>1. Table(row, p1, g1, H1)
    <2>1. n1 \in Seq(K1) /\ Distinct(n1)
        BY DEF Distinct
    <2> HIDE DEF n1, K1
    <2> QED BY <2>1, TypesAgree, EachTable
<1> HIDE DEF p1, g1
<1> QED BY <1>1 DEF IsTable, put_fabric_stats, get_fabric_stats, p1, g1

LEMMA RecoveryTable ==
    ASSUME NEW row \in BOOLEAN
    PROVE  IsTable(row, put_recovery, get_recovery)
<1> DEFINE n2 == <<"snapshot_sequence", "records_replayed", "records_skipped">>
           K2 == {"snapshot_sequence", "records_replayed", "records_skipped"}
           n3 == <<"torn_tail_present", "torn_tail_recovered">>
           K3 == {"torn_tail_present", "torn_tail_recovered"}
           n5 == <<"inspection_only", "journal_absent">>
           K5 == {"inspection_only", "journal_absent"}
           p1 == One("snapshot_loaded", Bool)
           g1 == One("snapshot_loaded", Bool)
           H1 == {"snapshot_loaded"}
           p2 == p1 \o Each(n2, U64)
           g2 == g1 \o Each(n2, U64)
           H2 == H1 \cup K2
           p3 == p2 \o Each(n3, Bool)
           g3 == g2 \o Each(n3, Bool)
           H3 == H2 \cup K3
           p4 == p3 \o One("truncated_bytes", U64)
           g4 == g3 \o One("truncated_bytes", U64)
           H4 == H3 \cup {"truncated_bytes"}
           p5 == p4 \o Each(n5, Bool)
           g5 == g4 \o Each(n5, Bool)
           H5 == H4 \cup K5
           p6 == p5 \o One("journal_bytes", U64)
           g6 == g5 \o One("journal_bytes", U64)
           H6 == H5 \cup {"journal_bytes"}
<1>1. Table(row, p1, g1, H1)
    BY TypesAgree, OneTable
<1> HIDE DEF p1, g1
<1>2. Table(row, p2, g2, H2)
    <2>1. n2 \in Seq(K2) /\ Distinct(n2) /\ H1 \cap K2 = {}
        BY DEF Distinct
    <2> HIDE DEF n2, K2, H1
    <2> QED BY <1>1, <2>1, TypesAgree, ThenEach
<1> HIDE DEF p2, g2
<1>3. Table(row, p3, g3, H3)
    <2>1. n3 \in Seq(K3) /\ Distinct(n3) /\ H2 \cap K3 = {}
        BY DEF Distinct
    <2> HIDE DEF n3, K3, H2
    <2> QED BY <1>2, <2>1, TypesAgree, ThenEach
<1> HIDE DEF p3, g3
<1>4. Table(row, p4, g4, H4)
    BY <1>3, TypesAgree, ThenOne
<1> HIDE DEF p4, g4
<1>5. Table(row, p5, g5, H5)
    <2>1. n5 \in Seq(K5) /\ Distinct(n5) /\ H4 \cap K5 = {}
        BY DEF Distinct
    <2> HIDE DEF n5, K5, H4
    <2> QED BY <1>4, <2>1, TypesAgree, ThenEach
<1> HIDE DEF p5, g5
<1>6. Table(row, p6, g6, H6)
    BY <1>5, TypesAgree, ThenOne
<1> HIDE DEF p6, g6
<1> QED BY <1>6 DEF IsTable, put_recovery, get_recovery, p1, g1, p2, g2, p3, g3, p4, g4, p5,
          g5, p6, g6

LEMMA StatusTable ==
    ASSUME NEW row \in BOOLEAN
    PROVE  IsTable(row, put_status, get_status)
<1> DEFINE n1 == <<"incarnation", "epoch", "boot">>
           K1 == {"incarnation", "epoch", "boot"}
           n5 == <<"active_sessions", "requests_handled">>
           K5 == {"active_sessions", "requests_handled"}
           n6 == <<"policy_installed", "obligations_installed">>
           K6 == {"policy_installed", "obligations_installed"}
           n7 == <<"alternate_sets", "active_attempts", "evidence_entries", "fencing_events">>
           K7 == {"alternate_sets", "active_attempts", "evidence_entries", "fencing_events"}
           p1 == Each(n1, U64)
           g1 == Each(n1, U64)
           H1 == K1
           p2 == p1 \o Under("authority", put_authority)
           g2 == g1 \o Under("authority", get_authority)
           H2 == H1 \cup {"authority"}
           p3 == p2 \o Under("stats", put_fabric_stats)
           g3 == g2 \o Under("stats", get_fabric_stats)
           H3 == H2 \cup {"stats"}
           p4 == p3 \o Under("recovery", put_recovery)
           g4 == g3 \o Under("recovery", get_recovery)
           H4 == H3 \cup {"recovery"}
           p5 == p4 \o Each(n5, U64)
           g5 == g4 \o Each(n5, U64)
           H5 == H4 \cup K5
           p6 == p5 \o Each(n6, Bool)
           g6 == g5 \o Each(n6, Bool)
           H6 == H5 \cup K6
           p7 == p6 \o Each(n7, U64)
           g7 == g6 \o Each(n7, U64)
           H7 == H6 \cup K7
<1>1. Table(row, p1, g1, H1)
    <2>1. n1 \in Seq(K1) /\ Distinct(n1)
        BY DEF Distinct
    <2> HIDE DEF n1, K1
    <2> QED BY <2>1, TypesAgree, EachTable
<1> HIDE DEF p1, g1
<1>2. Table(row, p2, g2, H2)
    BY <1>1, AuthorityTable, ThenPart
<1> HIDE DEF p2, g2
<1>3. Table(row, p3, g3, H3)
    BY <1>2, FabricStatsTable, ThenPart
<1> HIDE DEF p3, g3
<1>4. Table(row, p4, g4, H4)
    BY <1>3, RecoveryTable, ThenPart
<1> HIDE DEF p4, g4
<1>5. Table(row, p5, g5, H5)
    <2>1. n5 \in Seq(K5) /\ Distinct(n5) /\ H4 \cap K5 = {}
        BY DEF Distinct
    <2> HIDE DEF n5, K5, H4
    <2> QED BY <1>4, <2>1, TypesAgree, ThenEach
<1> HIDE DEF p5, g5
<1>6. Table(row, p6, g6, H6)
    <2>1. n6 \in Seq(K6) /\ Distinct(n6) /\ H5 \cap K6 = {}
        BY DEF Distinct
    <2> HIDE DEF n6, K6, H5
    <2> QED BY <1>5, <2>1, TypesAgree, ThenEach
<1> HIDE DEF p6, g6
<1>7. Table(row, p7, g7, H7)
    <2>1. n7 \in Seq(K7) /\ Distinct(n7) /\ H6 \cap K7 = {}
        BY DEF Distinct
    <2> HIDE DEF n7, K7, H6
    <2> QED BY <1>6, <2>1, TypesAgree, ThenEach
<1> HIDE DEF p7, g7
<1> QED BY <1>7 DEF IsTable, put_status, get_status, p1, g1, p2, g2, p3, g3, p4, g4, p5, g5,
          p6, g6, p7, g7

LEMMA PromoteResponseTable ==
    IsTable(FALSE, put_promote_response, get_promote_response)
<1> DEFINE n2 == <<"grant", "attempt">>
           K2 == {"grant", "attempt"}
           p1 == Under("decision", put_decision)
           g1 == Under("decision", get_decision)
           H1 == {"decision"}
           p2 == p1 \o Each(n2, U64)
           g2 == g1 \o Each(n2, U64)
           H2 == H1 \cup K2
<1>1. Table(FALSE, p1, g1, H1)
    BY DecisionTable, PartTable
<1> HIDE DEF p1, g1
<1>2. Table(FALSE, p2, g2, H2)
    <2>1. n2 \in Seq(K2) /\ Distinct(n2) /\ H1 \cap K2 = {}
        BY DEF Distinct
    <2> HIDE DEF n2, K2, H1
    <2> QED BY <1>1, <2>1, TypesAgree, ThenEach
<1> HIDE DEF p2, g2
<1> QED BY <1>2 DEF IsTable, put_promote_response, get_promote_response, p1, g1, p2, g2

LEMMA AttemptResponseTable ==
    ASSUME NEW row \in BOOLEAN
    PROVE  IsTable(row, put_attempt_response, get_attempt_response)
<1> DEFINE p1 == One("found", Bool)
           g1 == One("found", Bool)
           H1 == {"found"}
           p2 == p1 \o Under("record", put_attempt)
           g2 == g1 \o Under("record", get_attempt)
           H2 == H1 \cup {"record"}
<1>1. Table(row, p1, g1, H1)
    BY TypesAgree, OneTable
<1> HIDE DEF p1, g1
<1>2. Table(row, p2, g2, H2)
    BY <1>1, AttemptTable, ThenPart
<1> HIDE DEF p2, g2
<1> QED BY <1>2 DEF IsTable, put_attempt_response, get_attempt_response, p1, g1, p2, g2

LEMMA LineageResponseTable ==
    IsTable(FALSE, put_lineage_response, get_lineage_response)
<1> DEFINE p1 == One("truncated", Bool)
           g1 == One("truncated", Bool)
           H1 == {"truncated"}
           p2 == p1 \o One("entries", List("lineage", "max_lineage"))
           g2 == g1 \o One("entries", List("lineage", "max_lineage"))
           H2 == H1 \cup {"entries"}
<1>1. Table(FALSE, p1, g1, H1)
    BY TypesAgree, OneTable
<1> HIDE DEF p1, g1
<1>2. Table(FALSE, p2, g2, H2)
    BY <1>1, LineageList, ThenOne DEF ListLimits
<1> HIDE DEF p2, g2
<1> QED BY <1>2 DEF IsTable, put_lineage_response, get_lineage_response, p1, g1, p2, g2

LEMMA EffectBodyTable ==
    ASSUME NEW row \in BOOLEAN
    PROVE  IsTable(row, put_effect_body, get_effect_body)
<1> DEFINE p1 == One("attempt", U64)
           g1 == One("attempt", U64)
           H1 == {"attempt"}
           p2 == p1 \o Under("effect", put_effect)
           g2 == g1 \o Under("effect", get_effect)
           H2 == H1 \cup {"effect"}
<1>1. Table(row, p1, g1, H1)
    BY TypesAgree, OneTable
<1> HIDE DEF p1, g1
<1>2. Table(row, p2, g2, H2)
    BY <1>1, EffectTable, ThenPart
<1> HIDE DEF p2, g2
<1> QED BY <1>2 DEF IsTable, put_effect_body, get_effect_body, p1, g1, p2, g2

LEMMA AbandonBodyTable ==
    ASSUME NEW row \in BOOLEAN
    PROVE  IsTable(row, put_abandon_body, get_abandon_body)
<1> DEFINE p1 == One("attempt", U64)
           g1 == One("attempt", U64)
           H1 == {"attempt"}
           p2 == p1 \o One("reason", U16)
           g2 == g1 \o One("reason", Reason)
           H2 == H1 \cup {"reason"}
<1>1. Table(row, p1, g1, H1)
    BY TypesAgree, OneTable
<1> HIDE DEF p1, g1
<1>2. Table(row, p2, g2, H2)
    BY <1>1, TypesAgree, ThenOne
<1> HIDE DEF p2, g2
<1> QED BY <1>2 DEF IsTable, put_abandon_body, get_abandon_body, p1, g1, p2, g2

LEMMA RollbackBodyTable ==
    ASSUME NEW row \in BOOLEAN
    PROVE  IsTable(row, put_rollback_body, get_rollback_body)
<1> DEFINE p1 == One("attempt", U64)
           g1 == One("attempt", U64)
           H1 == {"attempt"}
           p2 == p1 \o Under("evidence", put_evidence)
           g2 == g1 \o Under("evidence", get_evidence)
           H2 == H1 \cup {"evidence"}
<1>1. Table(row, p1, g1, H1)
    BY TypesAgree, OneTable
<1> HIDE DEF p1, g1
<1>2. Table(row, p2, g2, H2)
    BY <1>1, EvidenceTable, ThenPart
<1> HIDE DEF p2, g2
<1> QED BY <1>2 DEF IsTable, put_rollback_body, get_rollback_body, p1, g1, p2, g2

LEMMA FenceBodyTable ==
    ASSUME NEW row \in BOOLEAN
    PROVE  IsTable(row, put_fence_body, get_fence_body)
<1> DEFINE p1 == One("path", U64)
           g1 == One("path", U64)
           H1 == {"path"}
           p2 == p1 \o One("reason", U16)
           g2 == g1 \o One("reason", Reason)
           H2 == H1 \cup {"reason"}
<1>1. Table(row, p1, g1, H1)
    BY TypesAgree, OneTable
<1> HIDE DEF p1, g1
<1>2. Table(row, p2, g2, H2)
    BY <1>1, TypesAgree, ThenOne
<1> HIDE DEF p2, g2
<1> QED BY <1>2 DEF IsTable, put_fence_body, get_fence_body, p1, g1, p2, g2

LEMMA AttemptBodyTable ==
    ASSUME NEW row \in BOOLEAN
    PROVE  IsTable(row, put_attempt_body, get_attempt_body)
<1> DEFINE p1 == One("attempt", U64)
           g1 == One("attempt", U64)
           H1 == {"attempt"}
<1>1. Table(row, p1, g1, H1)
    BY TypesAgree, OneTable
<1> HIDE DEF p1, g1
<1> QED BY <1>1 DEF IsTable, put_attempt_body, get_attempt_body, p1, g1

LEMMA LineageBodyTable ==
    ASSUME NEW row \in BOOLEAN
    PROVE  IsTable(row, put_lineage_body, get_lineage_body)
<1> DEFINE p1 == One("limit", U32)
           g1 == One("limit", U32)
           H1 == {"limit"}
<1>1. Table(row, p1, g1, H1)
    BY TypesAgree, OneTable
<1> HIDE DEF p1, g1
<1> QED BY <1>1 DEF IsTable, put_lineage_body, get_lineage_body, p1, g1

LEMMA EpochTable ==
    ASSUME NEW row \in BOOLEAN
    PROVE  IsTable(row, put_epoch, get_epoch)
<1> DEFINE n2 == <<"restart_count", "attempt_sequence", "fence_sequence",
                   "decision_sequence">>
           K2 == {"restart_count", "attempt_sequence", "fence_sequence",
                  "decision_sequence"}
           p1 == Under("authority", put_authority)
           g1 == Under("authority", get_authority)
           H1 == {"authority"}
           p2 == p1 \o Each(n2, U64)
           g2 == g1 \o Each(n2, U64)
           H2 == H1 \cup K2
<1>1. Table(row, p1, g1, H1)
    BY AuthorityTable, PartTable
<1> HIDE DEF p1, g1
<1>2. Table(row, p2, g2, H2)
    <2>1. n2 \in Seq(K2) /\ Distinct(n2) /\ H1 \cap K2 = {}
        BY DEF Distinct
    <2> HIDE DEF n2, K2, H1
    <2> QED BY <1>1, <2>1, TypesAgree, ThenEach
<1> HIDE DEF p2, g2
<1> QED BY <1>2 DEF IsTable, put_epoch, get_epoch, p1, g1, p2, g2

LEMMA CountersTable ==
    ASSUME NEW row \in BOOLEAN
    PROVE  IsTable(row, put_counters, get_counters)
<1> DEFINE n1 == <<"attempt_sequence", "fence_sequence", "decision_sequence",
                   "fence_overflow", "attempts_dropped">>
           K1 == {"attempt_sequence", "fence_sequence", "decision_sequence",
                  "fence_overflow", "attempts_dropped"}
           p1 == Each(n1, U64)
           g1 == Each(n1, U64)
           H1 == K1
           p2 == p1 \o One("lineage_truncated", Bool)
           g2 == g1 \o One("lineage_truncated", Bool)
           H2 == H1 \cup {"lineage_truncated"}
<1>1. Table(row, p1, g1, H1)
    <2>1. n1 \in Seq(K1) /\ Distinct(n1)
        BY DEF Distinct
    <2> HIDE DEF n1, K1
    <2> QED BY <2>1, TypesAgree, EachTable
<1> HIDE DEF p1, g1
<1>2. Table(row, p2, g2, H2)
    BY <1>1, TypesAgree, ThenOne
<1> HIDE DEF p2, g2
<1> QED BY <1>2 DEF IsTable, put_counters, get_counters, p1, g1, p2, g2

\* The writer and the reader of every document agree.
LEMMA EveryDocument ==
    ASSUME NEW name \in Records \cup Messages \cup Bodies
    PROVE  AgreeDoc(name)
<1>0. ASSUME IsTable(FALSE, Put[name], Get[name])
      PROVE  AgreeDoc(name)
    BY <1>0, TableDoc DEF IsTable
<1>1. CASE name = "policy"
    BY <1>0, <1>1, PolicyTable DEF Put, Get
<1>2. CASE name = "obligations"
    BY <1>0, <1>2, ObligationsTable DEF Put, Get
<1>3. CASE name = "set"
    BY <1>0, <1>3, SetTable DEF Put, Get
<1>4. CASE name = "fence"
    BY <1>0, <1>4, FenceTable DEF Put, Get
<1>5. CASE name = "attempt"
    BY <1>0, <1>5, AttemptTable DEF Put, Get
<1>6. CASE name = "lineage"
    BY <1>0, <1>6, LineageTable DEF Put, Get
<1>7. CASE name = "epoch"
    BY <1>0, <1>7, EpochTable DEF Put, Get
<1>8. CASE name = "counters"
    BY <1>0, <1>8, CountersTable DEF Put, Get
<1>9. CASE name = "hello"
    BY <1>0, <1>9, HelloTable DEF Put, Get
<1>10. CASE name = "hello_ack"
    BY <1>0, <1>10, HelloAckTable DEF Put, Get
<1>11. CASE name = "error"
    BY <1>0, <1>11, ErrorTable DEF Put, Get
<1>12. CASE name = "status"
    BY <1>0, <1>12, StatusTable DEF Put, Get
<1>13. CASE name = "promote_response"
    BY <1>0, <1>13, PromoteResponseTable DEF Put, Get
<1>14. CASE name = "attempt_response"
    BY <1>0, <1>14, AttemptResponseTable DEF Put, Get
<1>15. CASE name = "lineage_response"
    BY <1>0, <1>15, LineageResponseTable DEF Put, Get
<1>16. CASE name = "header"
    BY <1>0, <1>16, HeaderTable DEF Put, Get
<1>17. CASE name = "evidence"
    BY <1>0, <1>17, EvidenceTable DEF Put, Get
<1>18. CASE name = "authority"
    BY <1>0, <1>18, AuthorityTable DEF Put, Get
<1>19. CASE name = "request"
    BY <1>0, <1>19, RequestTable DEF Put, Get
<1>20. CASE name = "effect_body"
    BY <1>0, <1>20, EffectBodyTable DEF Put, Get
<1>21. CASE name = "abandon_body"
    BY <1>0, <1>21, AbandonBodyTable DEF Put, Get
<1>22. CASE name = "rollback_body"
    BY <1>0, <1>22, RollbackBodyTable DEF Put, Get
<1>23. CASE name = "fence_body"
    BY <1>0, <1>23, FenceBodyTable DEF Put, Get
<1>24. CASE name = "attempt_body"
    BY <1>0, <1>24, AttemptBodyTable DEF Put, Get
<1>25. CASE name = "lineage_body"
    BY <1>0, <1>25, LineageBodyTable DEF Put, Get
<1> QED BY <1>1, <1>2, <1>3, <1>4, <1>5, <1>6, <1>7, <1>8, <1>9, <1>10, <1>11, <1>12, <1>13,
           <1>14, <1>15, <1>16, <1>17, <1>18, <1>19, <1>20, <1>21, <1>22, <1>23, <1>24,
           <1>25 DEF Records, Messages, Bodies

LEMMA EveryKind ==
    ASSUME NEW k \in Kinds
    PROVE  AgreeKind(k)
<1>1. CASE \E name \in Records \cup Messages : k = <<name>>
    <2>1. PICK name \in Records \cup Messages : k = <<name>>
        BY <1>1
    <2>2. Len(k) = 1 /\ DOMAIN k = 1 .. 1 /\ k[1] = name
        BY <2>1
    <2>3. AgreeDoc(name)
        BY EveryDocument
    <2> QED BY <2>2, <2>3 DEF AgreeKind
<1>2. CASE \E name \in Bodies : k = <<"header", name>>
    <2>1. PICK name \in Bodies : k = <<"header", name>>
        BY <1>2
    <2>2. Len(k) = 2 /\ DOMAIN k = 1 .. 2 /\ k[1] = "header" /\ k[2] = name
        BY <2>1
    <2>3. "header" \in Messages
        BY DEF Messages
    <2>4. AgreeDoc("header") /\ AgreeDoc(name)
        BY <2>3, EveryDocument
    <2>5. \A i \in 1 .. 2 : i = 1 \/ i = 2
        OBVIOUS
    <2> QED BY <2>2, <2>4, <2>5 DEF AgreeKind
<1> QED BY <1>1, <1>2 DEF Kinds

-----------------------------------------------------------------------------
(* A document's way. *)

\* What holds on the way: the bytes are those of the document until they are
\* damaged, bytes that were cut are a beginning of those, and the reader has what
\* is read from the bytes there are.
WireInv ==
    /\ kind \in Kinds /\ FitsKind(kind, doc)
    /\ bytes \in Seq(Byte)
    /\ at \in {"made", "unwritable", "written", "read"}
    /\ at \in {"made", "unwritable"} => damage = "none"
    /\ at = "unwritable" => Overflows(Written(kind, doc))
    /\ at \in {"written", "read"} /\ damage = "none" => bytes = Written(kind, doc)
    /\ damage = "cut" =>
         Matches(bytes, 0, Written(kind, doc)) /\ Len(bytes) < Len(Written(kind, doc))
    /\ at = "read" => value = decode(kind, bytes)

LEMMA DocumentsFit ==
    ASSUME NEW d \in Documents
    PROVE  d.kind \in Kinds /\ FitsKind(d.kind, d.parts)
<1> DEFINE k == d.kind
           v == d.parts
<1>1. /\ k \in Kinds /\ v = [i \in DOMAIN k |-> v[i]]
      /\ \A i \in DOMAIN k : FitsDoc(k[i], v[i])
    BY DocumentsAssumption
<1> HIDE DEF k, v
<1>2. DOMAIN k = 1 .. Len(k)
    BY <1>1, EveryKind DEF AgreeKind
<1>3. FitsKind(k, v)
    BY <1>1, <1>2 DEF FitsKind
<1> QED BY <1>1, <1>3 DEF k, v

LEMMA KindSizeType ==
    ASSUME NEW k, AgreeKind(k)
    PROVE  KindSize(k, limits) \in Nat
<1> DEFINE n == Len(k)
           z == PartSizes(k)
<1>1. n \in Nat /\ z \in [1 .. n -> Nat] /\ KindSize(k, limits) = Total(z)
    BY PartSizesType, KindAre DEF AgreeKind
<1> HIDE DEF n, z
<1>2. PICK h : h \in [0 .. n -> Nat] /\ Total(z) = h[n]
    BY <1>1, TotalSums
<1> QED BY <1>1, <1>2

LEMMA RoomType == limits.max_record_payload \in Nat
BY WireAssumption

LEMMA WrittenLength ==
    ASSUME NEW k, AgreeKind(k), NEW v, FitsKind(k, v)
    PROVE  Len(Written(k, v)) \in Nat
<1>1. Written(k, v) \in Seq(Byte)
    BY WrittenType
<1> QED BY <1>1

LEMMA EncodeIs ==
    ASSUME NEW k, NEW v
    PROVE  /\ Overflows(Written(k, v)) => encode(k, v) = <<>>
           /\ ~Overflows(Written(k, v)) => encode(k, v) = Written(k, v)
BY DEF encode

\* A beginning of a sequence, and what is like one but for a byte.
LEMMA Beginning ==
    ASSUME NEW s \in Seq(Byte), NEW n \in 0 .. Len(s) - 1
    PROVE  /\ SubSeq(s, 1, n) \in Seq(Byte) /\ Len(SubSeq(s, 1, n)) < Len(s)
           /\ Matches(SubSeq(s, 1, n), 0, s)
<1> DEFINE b == SubSeq(s, 1, n)
<1>1. n \in Nat /\ n < Len(s) /\ Len(s) \in Nat
    OBVIOUS
<1>2. /\ b \in Seq(Byte) /\ Len(b) = n
      /\ \A i \in 1 .. n : b[i] = s[i]
    BY <1>1
<1> HIDE DEF b
<1>3. ASSUME NEW i \in 1 .. Len(s), 0 + i <= Len(b)
      PROVE  b[0 + i] = s[i]
    <2>1. 0 + i = i /\ i \in 1 .. n
        BY <1>1, <1>2, <1>3
    <2> QED BY <1>2, <2>1
<1> QED BY <1>1, <1>2, <1>3 DEF Matches, b

LEMMA WireInit == Init => WireInv
<1> SUFFICES ASSUME Init
             PROVE  WireInv
    OBVIOUS
<1>1. kind \in Kinds /\ FitsKind(kind, doc)
    BY DocumentsFit DEF Init
<1>2. bytes \in Seq(Byte) /\ at = "made" /\ damage = "none"
    BY DEF Init
<1> QED BY <1>1, <1>2 DEF WireInv

LEMMA WireStep == WireInv /\ [Next]_vars => WireInv'
<1> SUFFICES ASSUME WireInv, [Next]_vars
             PROVE  WireInv'
    OBVIOUS
<1>1. kind \in Kinds /\ FitsKind(kind, doc) /\ bytes \in Seq(Byte)
    BY DEF WireInv
<1>2. Written(kind, doc) \in Seq(Byte)
    BY <1>1, EveryKind, WrittenType
<1>3. CASE Write
    <2>1. /\ kind' = kind /\ doc' = doc /\ damage' = damage /\ at = "made"
          /\ bytes' = encode(kind, doc)
          /\ at' = IF Overflows(Written(kind, doc)) THEN "unwritable" ELSE "written"
        BY <1>3 DEF Write
    <2>2. damage = "none"
        BY <2>1 DEF WireInv
    <2>3. CASE Overflows(Written(kind, doc))
        <3>1. bytes' = <<>> /\ at' = "unwritable"
            BY <2>1, <2>3, EncodeIs
        <3>2. bytes' \in Seq(Byte)
            BY <3>1
        <3> QED BY <1>1, <2>1, <2>2, <2>3, <3>1, <3>2 DEF WireInv
    <2>4. CASE ~Overflows(Written(kind, doc))
        <3>1. bytes' = Written(kind, doc) /\ at' = "written"
            BY <2>1, <2>4, EncodeIs
        <3> QED BY <1>1, <1>2, <2>1, <2>2, <3>1 DEF WireInv
    <2> QED BY <2>3, <2>4
<1>4. CASE Cut
    <2>1. /\ kind' = kind /\ doc' = doc /\ at' = at /\ at = "written" /\ damage = "none"
          /\ damage' = "cut"
        BY <1>4 DEF Cut
    <2>2. PICK n \in 0 .. Len(bytes) - 1 : bytes' = SubSeq(bytes, 1, n)
        BY <1>4 DEF Cut
    <2>3. bytes = Written(kind, doc)
        BY <2>1 DEF WireInv
    <2>4. /\ bytes' \in Seq(Byte) /\ Len(bytes') < Len(Written(kind, doc))
          /\ Matches(bytes', 0, Written(kind, doc))
        BY <1>1, <2>2, <2>3, Beginning
    <2> QED BY <1>1, <2>1, <2>4 DEF WireInv
<1>5. CASE Alter
    <2>1. /\ kind' = kind /\ doc' = doc /\ at' = at /\ at = "written"
          /\ damage' = "altered"
        BY <1>5 DEF Alter
    <2>2. bytes' \in Seq(Byte)
        <3>1. 0 \in Byte
            BY BaseFacts DEF Byte
        <3>2. CASE bytes' = Append(bytes, 0)
            BY <1>1, <3>1, <3>2
        <3>3. CASE \E i \in DOMAIN bytes : \E b \in Byte : bytes' = [bytes EXCEPT ![i] = b]
            BY <1>1, <3>3
        <3> QED BY <1>5, <3>2, <3>3 DEF Alter, Byte
    <2> QED BY <1>1, <2>1, <2>2 DEF WireInv
<1>6. CASE Read
    <2>1. /\ kind' = kind /\ doc' = doc /\ bytes' = bytes /\ damage' = damage
          /\ at = "written" /\ at' = "read" /\ value' = decode(kind, bytes)
        BY <1>6 DEF Read
    <2> QED BY <1>1, <2>1 DEF WireInv
<1>7. CASE UNCHANGED vars
    <2>1. /\ kind' = kind /\ doc' = doc /\ bytes' = bytes /\ damage' = damage
          /\ at' = at /\ value' = value
        BY <1>7 DEF vars
    <2> QED BY <1>1, <2>1 DEF WireInv
<1> QED BY <1>3, <1>4, <1>5, <1>6, <1>7 DEF Next

LEMMA WireInvariant == Spec => []WireInv
<1> QED BY WireInit, WireStep, PTL DEF Spec

\* Whatever the documents, the limits and the values of a byte: a document that
\* the readers of src/src/wire.cpp and src/src/protocol.cpp let pass can be
\* written, and what they read from the bytes is the document.
THEOREM WrittenDocumentsAreReadBack == Spec => []WrittenIsRead
<1>1. WireInv => WrittenIsRead
    <2> SUFFICES ASSUME WireInv, LegalDocument
                 PROVE  /\ at # "unwritable"
                        /\ at = "read" /\ damage = "none" => value.ok /\ value.value = doc
        BY DEF WrittenIsRead
    <2> DEFINE w == Written(kind, doc)
    <2>1. kind \in Kinds /\ FitsKind(kind, doc) /\ AgreeKind(kind)
        BY EveryKind DEF WireInv
    <2>2. LegalKind(kind, doc)
        BY <2>1 DEF LegalDocument, LegalKind, AgreeKind
    <2>3. Len(w) <= KindSize(kind, limits)
        BY <2>1, <2>2, WrittenType
    <2>4. KindSize(kind, limits) <= limits.max_record_payload
        BY <2>1, RoomAssumption
    <2>5. Len(w) <= limits.max_record_payload
        BY <2>1, <2>3, <2>4, KindSizeType, RoomType, WrittenLength
    <2>6. at # "unwritable"
        BY <2>1, <2>5, RoomType, WrittenLength DEF WireInv, Overflows
    <2>7. decode(kind, w) = Done(Len(w), doc)
        BY <2>1, <2>2, DecodeBack
    <2>8. ASSUME at = "read", damage = "none"
          PROVE  value = Done(Len(w), doc)
        BY <2>7, <2>8 DEF WireInv
    <2> QED BY <2>6, <2>8 DEF Done
<1> QED BY <1>1, WireInvariant, PTL

\* Whatever bytes reach them, the readers of src/src/wire.cpp, src/src/protocol.cpp
\* and src/src/store.cpp take for a value only what the writers would have written,
\* and accept nothing after it: there is one spelling of each document, so a
\* checksum over the bytes is one over the document.  The requests for the status
\* and to stop are the exception: dispatch (src/src/server.cpp) leaves what follows
\* their header unread.
THEOREM AcceptedBytesAreCanonical == Spec => []AcceptedIsCanonical
<1>1. WireInv => AcceptedIsCanonical
    <2> SUFFICES ASSUME WireInv, at = "read", value.ok
                 PROVE  /\ encode(kind, value.value) = SubSeq(bytes, 1, value.offset)
                        /\ kind # HeaderOnly => value.offset = Len(bytes)
        BY DEF AcceptedIsCanonical
    <2>1. kind \in Kinds /\ AgreeKind(kind) /\ bytes \in Seq(Byte) /\ value = decode(kind, bytes)
        BY EveryKind DEF WireInv
    <2>2. /\ Written(kind, value.value) = SubSeq(bytes, 1, value.offset)
          /\ Len(Written(kind, value.value)) <= KindSize(kind, limits)
          /\ Written(kind, value.value) \in Seq(Byte)
          /\ kind # HeaderOnly => value.offset = Len(bytes)
        BY <2>1, DecodeCanonical
    <2>3. KindSize(kind, limits) <= limits.max_record_payload
        BY <2>1, RoomAssumption
    <2>4. ~Overflows(Written(kind, value.value))
        BY <2>1, <2>2, <2>3, KindSizeType, RoomType DEF Overflows
    <2> QED BY <2>2, <2>4, EncodeIs
<1> QED BY <1>1, WireInvariant, PTL

\* However little is missing, no reader accepts a document of which the end is
\* missing, even with a valid checksum: a torn write is never taken for a shorter
\* document.
THEOREM CutDocumentsAreRefused == Spec => []CutIsRefused
<1>1. WireInv => CutIsRefused
    <2> SUFFICES ASSUME WireInv, at = "read", damage = "cut"
                 PROVE  ~value.ok
        BY DEF CutIsRefused
    <2>1. /\ kind \in Kinds /\ FitsKind(kind, doc) /\ AgreeKind(kind)
          /\ bytes \in Seq(Byte) /\ value = decode(kind, bytes)
          /\ Matches(bytes, 0, Written(kind, doc)) /\ Len(bytes) < Len(Written(kind, doc))
        BY EveryKind DEF WireInv
    <2> QED BY <2>1, DecodeCut
<1> QED BY <1>1, WireInvariant, PTL
==============================================================================
