--------------------------- MODULE TransportProofs ---------------------------
(***************************************************************************)
(* What is proved of the encodings, for every number of values of a byte,  *)
(* every payload and every number of frames: a reader of the wire never    *)
(* loses its place (FramesIntact), the gateway gets what the SDK writes    *)
(* although padding looks like payload (GatewayIntact), ids are unique     *)
(* (UniqueIds), and offsets in code units are those of the runes           *)
(* (OffsetsAgree).                                                         *)
(*                                                                         *)
(* Each recursive function of the model gets a lemma that there is a       *)
(* function with its recursion, so that CHOOSE finds it, and one that says *)
(* what a step of it does; the induction is that of Least and Induction.   *)
(***************************************************************************)
EXTENDS MCTransport, WellFoundedInduction, SequenceTheorems, FiniteSetTheorems, TLAPS

----------------------------------------------------------------------------
(* Induction, as a fact about sets of numbers: the library's theorems with *)
(* an operator for the predicate are beyond the provers, but its fact that *)
(* < is well founded is not.                                               *)

\* A set of naturals that is not empty has a least element.
LEMMA Least ==
    ASSUME NEW W \in SUBSET Nat, W # {}
    PROVE  \E x \in W : \A y \in W : x <= y
<1> DEFINE R == OpToRel(<, Nat)
<1>1. IsWellFoundedOn(R, Nat)
  BY NatLessThanWellFounded
<1>2. \A x, y \in Nat : <<y, x>> \in R <=> y < x
  BY DEF OpToRel
<1> HIDE DEF R
<1>3. PICK x \in W : \A y \in W : ~(<<y, x>> \in R)
  BY <1>1, WFMin
<1>4. \A y \in W : ~(y < x)
  BY <1>2, <1>3
<1>5. \A y \in W : x <= y
  BY <1>4
<1> QED BY <1>5

\* A set of naturals that has 0, and with a number the next one, has them all.
LEMMA Induction ==
    ASSUME NEW W \in SUBSET Nat, 0 \in W, \A n \in W : n + 1 \in W
    PROVE  W = Nat
<1> SUFFICES ASSUME Nat \ W # {} PROVE FALSE
  OBVIOUS
<1>1. PICK x \in Nat \ W : \A y \in Nat \ W : x <= y
  <2> DEFINE U == Nat \ W
  <2>1. U \in SUBSET Nat /\ U # {}
    OBVIOUS
  <2> HIDE DEF U
  <2>2. \E x \in U : \A y \in U : x <= y
    BY <2>1, Least
  <2> QED BY <2>2 DEF U
<1>2. x # 0
  OBVIOUS
<1>3. x - 1 \in Nat
  BY <1>2
<1>4. x - 1 \in W
  BY <1>1, <1>3
<1>5. (x - 1) + 1 \in W
  BY <1>4
<1> QED BY <1>5

\* A set of naturals that has each number below which it has all, has them all.
LEMMA StrongInduction ==
    ASSUME NEW W \in SUBSET Nat, \A n \in Nat : (\A m \in 0 .. n - 1 : m \in W) => n \in W
    PROVE  W = Nat
<1> SUFFICES ASSUME Nat \ W # {} PROVE FALSE
  OBVIOUS
<1>1. PICK x \in Nat \ W : \A y \in Nat \ W : x <= y
  <2> DEFINE U == Nat \ W
  <2>1. U \in SUBSET Nat /\ U # {}
    OBVIOUS
  <2> HIDE DEF U
  <2>2. \E x \in U : \A y \in U : x <= y
    BY <2>1, Least
  <2> QED BY <2>2 DEF U
<1>2. \A m \in 0 .. x - 1 : m \in W
  <2> SUFFICES ASSUME NEW m \in 0 .. x - 1, m \notin W PROVE FALSE
    OBVIOUS
  <2>1. m \in Nat \ W /\ m < x
    OBVIOUS
  <2> QED BY <1>1, <2>1
<1> QED BY <1>2

\* Division with remainder.
LEMMA Division ==
    ASSUME NEW n \in Nat, NEW b \in Nat, b > 0
    PROVE  /\ n \div b \in Nat /\ n % b \in 0 .. b - 1
           /\ n = b * (n \div b) + (n % b)
  OBVIOUS

\* The quotient is the only number with a remainder below the divisor.
LEMMA Quotient ==
    ASSUME NEW b \in Nat, b > 0, NEW x \in Nat, NEW y \in 0 .. b - 1
    PROVE  (b * x + y) \div b = x
<1> DEFINE n == b * x + y
<1>1. n \in Nat
  OBVIOUS
<1> HIDE DEF n
<1>2. n \div b \in Nat /\ n % b \in 0 .. b - 1 /\ n = b * (n \div b) + (n % b)
  BY <1>1, Division
<1> DEFINE z == n \div b
<1> DEFINE w == n % b
<1> HIDE DEF z, w
<1>3. z \in Nat /\ w \in 0 .. b - 1 /\ b * x + y = b * z + w
  BY <1>2 DEF n, z, w
<1>4. ~(z > x)
  <2> SUFFICES ASSUME z >= x + 1 PROVE FALSE
    BY <1>3
  <2>1. b * z >= b * (x + 1) /\ b * (x + 1) = b * x + b
    BY <1>3
  <2> QED BY <1>3, <2>1
<1>5. ~(x > z)
  <2> SUFFICES ASSUME x >= z + 1 PROVE FALSE
    BY <1>3
  <2>1. b * x >= b * (z + 1) /\ b * (z + 1) = b * z + b
    BY <1>3
  <2> QED BY <1>3, <2>1
<1> QED BY <1>3, <1>4, <1>5 DEF n, z

\* The constants of the code keep their order for every Base.
LEMMA PrefixBytes ==
    /\ Base \in Nat /\ Base >= 4
    /\ HighBit \in Nat /\ Base = 2 * HighBit
    /\ ExtendedPrefix \in Nat /\ 0 < ExtendedPrefix /\ ExtendedPrefix < HighBit
  BY BaseAssumption DEF HighBit, ExtendedPrefix

\* The three bytes of an extended header give back any number below Base^3.
LEMMA LittleEndian ==
    ASSUME NEW q \in Nat, q < Base * Base * Base
    PROVE  /\ \A i \in 1 .. 3 : Little3(q)[i] \in Byte
           /\ q = Little3(q)[1] + Little3(q)[2] * Base + Little3(q)[3] * Base * Base
<1> DEFINE a == q \div Base
<1> DEFINE c == a \div Base
<1>1. a \in Nat /\ q % Base \in 0 .. Base - 1 /\ q = Base * a + (q % Base)
  <2>1. Base \in Nat /\ Base > 0
    BY PrefixBytes
  <2> QED BY <2>1, Division
<1>2. c \in Nat /\ a % Base \in 0 .. Base - 1 /\ a = Base * c + (a % Base)
  <2>1. Base \in Nat /\ Base > 0 /\ a \in Nat
    BY <1>1, PrefixBytes
  <2> QED BY <2>1, Division
<1> DEFINE r == q % Base
<1> DEFINE s == a % Base
<1>3. Little3(q) = <<r, s, (q \div (Base * Base)) % Base>>
  BY DEF Little3
<1> HIDE DEF a, c, r, s
<1>4. /\ a \in Nat /\ c \in Nat /\ r \in 0 .. Base - 1 /\ s \in 0 .. Base - 1
      /\ q = Base * a + r /\ a = Base * c + s
  BY <1>1, <1>2 DEF a, c, r, s
<1>5. q = (Base * Base) * c + (Base * s + r)
  <2>1. Base * (Base * c + s) = (Base * Base) * c + Base * s
    BY <1>4, PrefixBytes
  <2> QED BY <1>4, <2>1, PrefixBytes
<1>6. Base * s + r \in 0 .. (Base * Base) - 1
  <2>1. Base * s <= Base * (Base - 1) /\ Base * (Base - 1) = Base * Base - Base
    BY <1>4, PrefixBytes
  <2> QED BY <1>4, <2>1, PrefixBytes
<1>7. q \div (Base * Base) = c
  <2> DEFINE bb == Base * Base
  <2> DEFINE y == Base * s + r
  <2>1. bb \in Nat /\ bb > 0 /\ y \in 0 .. bb - 1 /\ q = bb * c + y
    BY <1>5, <1>6, PrefixBytes
  <2> HIDE DEF bb, y
  <2>2. (bb * c + y) \div bb = c
    BY <1>4, <2>1, Quotient
  <2> QED BY <2>1, <2>2 DEF bb
<1>8. c < Base
  <2> SUFFICES ASSUME c >= Base PROVE FALSE
    BY <1>4, PrefixBytes
  <2>1. (Base * Base) * c >= (Base * Base) * Base
    BY <1>4, PrefixBytes
  <2> QED BY <1>4, <1>5, <1>6, <2>1, PrefixBytes
<1>9. c % Base = c
  <2>1. c % Base \in 0 .. Base - 1 /\ c \div Base \in Nat /\ c = Base * (c \div Base) + (c % Base)
    BY <1>4, PrefixBytes, Division
  <2>2. (Base * 0 + c) \div Base = 0
    BY <1>4, <1>8, PrefixBytes, Quotient
  <2> QED BY <1>4, <2>1, <2>2, PrefixBytes
<1>10. Little3(q) = <<r, s, c>>
  BY <1>3, <1>7, <1>9
<1> QED BY <1>4, <1>5, <1>8, <1>10, PrefixBytes DEF Byte

\* encodeAbridgedFrame's header is read back by readAbridgedLength as the length
\* it was made from, whatever the number of groups of four below 2^24: the short
\* and the extended form never meet at the boundary.
THEOREM HeaderRoundTrip ==
    ASSUME NEW q \in Nat, q < Base * Base * Base
    PROVE  /\ AbridgedQuads(AbridgedHeader(q)) = q
           /\ Len(AbridgedHeader(q)) = AbridgedHeaderSize(AbridgedHeader(q)[1])
<1>1. CASE q < ExtendedPrefix
  BY <1>1, PrefixBytes DEF AbridgedHeader, AbridgedQuads, AbridgedHeaderSize
<1>2. CASE ~(q < ExtendedPrefix)
  <2>1. AbridgedHeader(q) = <<ExtendedPrefix, Little3(q)[1], Little3(q)[2], Little3(q)[3]>>
    BY <1>2 DEF AbridgedHeader
  <2>2. q = Little3(q)[1] + Little3(q)[2] * Base + Little3(q)[3] * Base * Base
    BY LittleEndian
  <2> QED BY <2>1, <2>2 DEF AbridgedQuads, AbridgedHeaderSize
<1> QED BY <1>1, <1>2

\* readFrameOnce tells the frames of a stream apart by their first byte: an
\* abridged header is made of bytes and never has the high bit of an API chunk
\* or a WebSocket frame, and it is a pong's prefix only if the payload is empty.
THEOREM HeaderDistinct ==
    ASSUME NEW q \in Nat, q < Base * Base * Base
    PROVE  /\ \A i \in 1 .. Len(AbridgedHeader(q)) : AbridgedHeader(q)[i] \in Byte
           /\ AbridgedHeader(q)[1] < HighBit
           /\ AbridgedHeader(q)[1] = PongPrefix <=> q = 0
<1>1. CASE q < ExtendedPrefix
  BY <1>1, PrefixBytes DEF AbridgedHeader, PongPrefix, Byte
<1>2. CASE ~(q < ExtendedPrefix)
  <2>1. AbridgedHeader(q) = <<ExtendedPrefix, Little3(q)[1], Little3(q)[2], Little3(q)[3]>>
    BY <1>2 DEF AbridgedHeader
  <2>2. \A i \in 1 .. 3 : Little3(q)[i] \in Byte
    BY LittleEndian
  <2>3. ExtendedPrefix \in Byte
    BY PrefixBytes DEF Byte
  <2> QED BY <1>2, <2>1, <2>2, <2>3, PrefixBytes DEF PongPrefix
<1> QED BY <1>1, <1>2

\* The padding is at most three bytes and makes the length a multiple of four.
THEOREM PaddingFits ==
    ASSUME NEW n \in Nat
    PROVE  Padding(n) \in 0 .. 3 /\ 4 * PaddedQuads(n) = n + Padding(n)
  BY DEF Padding, PaddedQuads

----------------------------------------------------------------------------
(* Snowflake ids.                                                          *)

\* f is the recursive function that ShiftLeft(x, n) chooses.
Shifted(f, x, n) == f = [i \in 0 .. n |-> IF i = 0 THEN x ELSE 2 * f[i - 1]]

\* There is such a function.
LEMMA ShiftedExists ==
    ASSUME NEW x \in Nat
    PROVE  \A n \in Nat : \E f : Shifted(f, x, n)
<1> DEFINE W == {n \in Nat : \E f : Shifted(f, x, n)}
<1>1. 0 \in W
  <2>1. Shifted([i \in 0 .. 0 |-> x], x, 0)
    BY DEF Shifted
  <2> QED BY <2>1
<1>2. \A n \in W : n + 1 \in W
  <2> TAKE n \in W
  <2>1. PICK g : Shifted(g, x, n)
    OBVIOUS
  <2> DEFINE h == [i \in 0 .. n + 1 |-> IF i = n + 1 THEN 2 * g[n] ELSE g[i]]
  <2>2. \A i \in 0 .. n + 1 : h[i] = IF i = 0 THEN x ELSE 2 * h[i - 1]
    <3> SUFFICES ASSUME NEW i \in 0 .. n + 1 PROVE h[i] = IF i = 0 THEN x ELSE 2 * h[i - 1]
      OBVIOUS
    <3>1. CASE i = n + 1
      BY <3>1
    <3>2. CASE i # n + 1
      <4>1. i \in 0 .. n
        BY <3>2
      <4>2. g[i] = IF i = 0 THEN x ELSE 2 * g[i - 1]
        BY <2>1, <4>1 DEF Shifted
      <4> QED BY <4>1, <4>2
    <3> QED BY <3>1, <3>2
  <2>3. Shifted(h, x, n + 1)
    BY <2>2 DEF Shifted
  <2> HIDE DEF h
  <2> QED BY <2>3
<1>3. W \in SUBSET Nat
  OBVIOUS
<1> HIDE DEF W
<1>4. W = Nat
  BY <1>1, <1>2, <1>3, Induction
<1> QED BY <1>4 DEF W

\* Two such functions agree where both are defined.
LEMMA ShiftedUnique ==
    ASSUME NEW x \in Nat, NEW m \in Nat, NEW n \in Nat, NEW f, NEW g,
           Shifted(f, x, m), Shifted(g, x, n)
    PROVE  \A i \in Nat : i <= m /\ i <= n => f[i] = g[i] /\ f[i] \in Nat
<1> DEFINE W == {i \in Nat : i <= m /\ i <= n => f[i] = g[i] /\ f[i] \in Nat}
<1>1. \A i \in 0 .. m : f[i] = IF i = 0 THEN x ELSE 2 * f[i - 1]
  BY DEF Shifted
<1>2. \A i \in 0 .. n : g[i] = IF i = 0 THEN x ELSE 2 * g[i - 1]
  BY DEF Shifted
<1>3. 0 \in W
  BY <1>1, <1>2
<1>4. \A i \in W : i + 1 \in W
  <2> SUFFICES ASSUME NEW i \in W, i + 1 <= m, i + 1 <= n
               PROVE  f[i + 1] = g[i + 1] /\ f[i + 1] \in Nat
    OBVIOUS
  <2>1. f[i + 1] = 2 * f[i] /\ g[i + 1] = 2 * g[i]
    BY <1>1, <1>2
  <2>2. f[i] = g[i] /\ f[i] \in Nat
    OBVIOUS
  <2> QED BY <2>1, <2>2
<1>5. W \in SUBSET Nat
  OBVIOUS
<1> HIDE DEF W
<1>6. W = Nat
  BY <1>3, <1>4, <1>5, Induction
<1> QED BY <1>6 DEF W

\* Shifting by one more place doubles.
LEMMA Shift ==
    ASSUME NEW x \in Nat, NEW n \in Nat
    PROVE  /\ S!ShiftLeft(x, 0) = x /\ S!ShiftLeft(x, n) \in Nat
           /\ S!ShiftLeft(x, n + 1) = 2 * S!ShiftLeft(x, n)
<1> DEFINE F(k) == CHOOSE v : v = [i \in 0 .. k |-> IF i = 0 THEN x ELSE 2 * v[i - 1]]
<1>1. \A k \in Nat : S!ShiftLeft(x, k) = F(k)[k]
  BY DEF S!ShiftLeft
<1>2. \A k \in Nat : Shifted(F(k), x, k)
  BY ShiftedExists DEF Shifted
<1> HIDE DEF F
<1>3. F(n)[n] = F(n + 1)[n] /\ F(n)[n] \in Nat
  <2>1. n + 1 \in Nat
    OBVIOUS
  <2> QED BY <1>2, <2>1, ShiftedUnique
<1>4. F(n + 1)[n + 1] = 2 * F(n + 1)[n]
  <2> DEFINE f == F(n + 1)
  <2>1. Shifted(f, x, n + 1)
    BY <1>2
  <2> HIDE DEF f
  <2>2. f[n + 1] = 2 * f[n]
    BY <2>1 DEF Shifted
  <2> QED BY <2>2 DEF f
<1>5. F(0)[0] = x
  BY <1>2 DEF Shifted
<1> QED BY <1>1, <1>3, <1>4, <1>5

\* A shift multiplies by the shifted 1, which is positive.
LEMMA ShiftTimes ==
    ASSUME NEW x \in Nat
    PROVE  \A n \in Nat : /\ S!ShiftLeft(1, n) \in Nat \ {0}
                          /\ S!ShiftLeft(x, n) = x * S!ShiftLeft(1, n)
<1> DEFINE W == {n \in Nat : /\ S!ShiftLeft(1, n) \in Nat \ {0}
                             /\ S!ShiftLeft(x, n) = x * S!ShiftLeft(1, n)}
<1>1. 0 \in W
  <2>1. S!ShiftLeft(1, 0) = 1 /\ S!ShiftLeft(x, 0) = x
    BY Shift
  <2> QED BY <2>1
<1>2. \A n \in W : n + 1 \in W
  <2> TAKE n \in W
  <2> DEFINE p == S!ShiftLeft(1, n)
  <2>1. S!ShiftLeft(1, n + 1) = 2 * p /\ S!ShiftLeft(x, n + 1) = 2 * S!ShiftLeft(x, n)
    BY Shift
  <2>2. p \in Nat \ {0} /\ S!ShiftLeft(x, n) = x * p
    OBVIOUS
  <2> HIDE DEF p
  <2>3. 2 * p \in Nat \ {0} /\ 2 * (x * p) = x * (2 * p)
    BY <2>2
  <2> QED BY <2>1, <2>2, <2>3
<1>3. W \in SUBSET Nat
  OBVIOUS
<1> HIDE DEF W
<1>4. W = Nat
  BY <1>1, <1>2, <1>3, Induction
<1> QED BY <1>4 DEF W

\* Shifts add up.
LEMMA ShiftAdds ==
    ASSUME NEW m \in Nat
    PROVE  \A n \in Nat : S!ShiftLeft(1, m + n) = S!ShiftLeft(1, m) * S!ShiftLeft(1, n)
<1> DEFINE W == {n \in Nat : S!ShiftLeft(1, m + n) = S!ShiftLeft(1, m) * S!ShiftLeft(1, n)}
<1> DEFINE q == S!ShiftLeft(1, m)
<1>1. q \in Nat
  BY Shift
<1>2. 0 \in W
  <2>1. S!ShiftLeft(1, 0) = 1
    BY Shift
  <2> QED BY <1>1, <2>1
<1>3. \A n \in W : n + 1 \in W
  <2> TAKE n \in W
  <2> DEFINE p == S!ShiftLeft(1, n)
  <2>1. S!ShiftLeft(1, n + 1) = 2 * p /\ p \in Nat
    BY Shift
  <2>2. S!ShiftLeft(1, (m + n) + 1) = 2 * S!ShiftLeft(1, m + n)
    BY Shift
  <2>3. S!ShiftLeft(1, m + n) = q * p
    OBVIOUS
  <2>4. (m + n) + 1 = m + (n + 1)
    OBVIOUS
  <2> HIDE DEF p, q
  <2>5. 2 * (q * p) = q * (2 * p)
    BY <1>1, <2>1
  <2>6. S!ShiftLeft(1, m + (n + 1)) = q * S!ShiftLeft(1, n + 1)
    BY <2>1, <2>2, <2>3, <2>4, <2>5
  <2> QED BY <2>6 DEF q
<1>4. W \in SUBSET Nat
  OBVIOUS
<1> HIDE DEF W
<1>5. W = Nat
  BY <1>2, <1>3, <1>4, Induction
<1> QED BY <1>5 DEF W

\* A function with the recursion of Or.
Ored(f, x, y) ==
    f = [a \in 0 .. x |->
            [b \in 0 .. y |-> IF a = 0 \/ b = 0 THEN a + b
                              ELSE 2 * f[a \div 2][b \div 2] + (IF (a % 2) + (b % 2) > 0 THEN 1 ELSE 0)]]

\* What the recursion says of one pair of numbers.
LEMMA OredStep ==
    ASSUME NEW x \in Nat, NEW y \in Nat, NEW f, Ored(f, x, y), NEW a \in 0 .. x, NEW b \in 0 .. y
    PROVE  f[a][b] = IF a = 0 \/ b = 0 THEN a + b
                     ELSE 2 * f[a \div 2][b \div 2] + (IF (a % 2) + (b % 2) > 0 THEN 1 ELSE 0)
<1>1. f[a] = [c \in 0 .. y |-> IF a = 0 \/ c = 0 THEN a + c
                               ELSE 2 * f[a \div 2][c \div 2] + (IF (a % 2) + (c % 2) > 0 THEN 1 ELSE 0)]
  BY DEF Ored
<1> QED BY <1>1

\* There is such a function.
LEMMA OredExists ==
    ASSUME NEW y \in Nat
    PROVE  \A n \in Nat : \E f : Ored(f, n, y)
<1> DEFINE W == {n \in Nat : \E f : Ored(f, n, y)}
<1> DEFINE Row(g, a) ==
        [b \in 0 .. y |-> IF a = 0 \/ b = 0 THEN a + b
                          ELSE 2 * g[a \div 2][b \div 2] + (IF (a % 2) + (b % 2) > 0 THEN 1 ELSE 0)]
<1>1. 0 \in W
  <2> DEFINE h == [a \in 0 .. 0 |-> [b \in 0 .. y |-> a + b]]
  <2>1. \A a \in 0 .. 0 : h[a] = Row(h, a)
    OBVIOUS
  <2>2. Ored(h, 0, y)
    BY <2>1 DEF Ored
  <2> HIDE DEF h
  <2> QED BY <2>2
<1>2. \A n \in W : n + 1 \in W
  <2> TAKE n \in W
  <2>1. PICK g : Ored(g, n, y)
    OBVIOUS
  <2> DEFINE h == [a \in 0 .. n + 1 |-> IF a = n + 1 THEN Row(g, n + 1) ELSE g[a]]
  <2>2. \A a \in 0 .. n + 1 : h[a] = Row(h, a)
    <3> SUFFICES ASSUME NEW a \in 0 .. n + 1 PROVE h[a] = Row(h, a)
      OBVIOUS
    <3>1. a # 0 => a \div 2 \in 0 .. n
      OBVIOUS
    <3>2. a # 0 => h[a \div 2] = g[a \div 2]
      BY <3>1
    <3>3. CASE a = n + 1
      <4>1. h[a] = Row(g, n + 1)
        BY <3>3
      <4> HIDE DEF h
      <4>2. Row(h, n + 1) = Row(g, n + 1)
        BY <3>2, <3>3
      <4> QED BY <3>3, <4>1, <4>2
    <3>4. CASE a # n + 1
      <4>1. a \in 0 .. n
        BY <3>4
      <4>2. g[a] = Row(g, a)
        BY <2>1, <4>1 DEF Ored
      <4>3. h[a] = g[a]
        BY <4>1
      <4> HIDE DEF h
      <4>4. Row(h, a) = Row(g, a)
        BY <3>2
      <4> QED BY <4>2, <4>3, <4>4
    <3> QED BY <3>3, <3>4
  <2>3. h = [a \in 0 .. n + 1 |-> h[a]]
    OBVIOUS
  <2> HIDE DEF h
  <2>4. Ored(h, n + 1, y)
    BY <2>2, <2>3 DEF Ored
  <2> QED BY <2>4
<1>3. W \in SUBSET Nat
  OBVIOUS
<1> HIDE DEF W
<1>4. W = Nat
  BY <1>1, <1>2, <1>3, Induction
<1> QED BY <1>4 DEF W

\* The or of a number that has no bit below w and one that has no other is their sum.
LEMMA OredDisjoint ==
    ASSUME NEW x \in Nat, NEW y \in Nat, NEW f, Ored(f, x, y)
    PROVE  \A w \in Nat : \A a \in Nat, b \in Nat :
               LET p == S!ShiftLeft(1, w)
               IN  a * p <= x /\ b <= y /\ b < p => f[a * p][b] = a * p + b
<1> DEFINE Sums(p) == \A a \in Nat, b \in Nat : a * p <= x /\ b <= y /\ b < p => f[a * p][b] = a * p + b
<1> DEFINE W == {w \in Nat : Sums(S!ShiftLeft(1, w))}
<1>1. 0 \in W
  <2>1. S!ShiftLeft(1, 0) = 1
    BY Shift
  <2>2. Sums(1)
    <3> SUFFICES ASSUME NEW a \in Nat, NEW b \in Nat, a * 1 <= x, b <= y, b < 1
                 PROVE  f[a * 1][b] = a * 1 + b
      OBVIOUS
    <3>1. a * 1 = a /\ a \in 0 .. x /\ b = 0 /\ b \in 0 .. y
      OBVIOUS
    <3> QED BY <3>1, OredStep
  <2> HIDE DEF Sums
  <2> QED BY <2>1, <2>2
<1>2. \A w \in W : w + 1 \in W
  <2> TAKE w \in W
  <2> DEFINE p == S!ShiftLeft(1, w)
  <2>1. p \in Nat \ {0} /\ S!ShiftLeft(1, w + 1) = 2 * p
    BY Shift, ShiftTimes
  <2>2. Sums(p)
    OBVIOUS
  <2> HIDE DEF p
  <2>3. Sums(2 * p)
    <3> SUFFICES ASSUME NEW a \in Nat, NEW b \in Nat, a * (2 * p) <= x, b <= y, b < 2 * p
                 PROVE  f[a * (2 * p)][b] = a * (2 * p) + b
      OBVIOUS
    <3> DEFINE c == a * p
    <3>1. c \in Nat /\ a * (2 * p) = 2 * c
      BY <2>1
    <3>2. c <= x /\ b \div 2 < p /\ b \div 2 <= y => f[c][b \div 2] = c + (b \div 2)
      <4>1. b \div 2 \in Nat
        OBVIOUS
      <4> QED BY <2>2, <4>1
    <3> HIDE DEF c, Sums
    <3> DEFINE d == 2 * c
    <3>3. d \in 0 .. x /\ b \in 0 .. y /\ c <= x /\ d \div 2 = c /\ d % 2 = 0
      BY <3>1
    <3>4. d = 2 * c
      OBVIOUS
    <3> HIDE DEF d
    <3>5. b \div 2 < p /\ b \div 2 <= y /\ b = 2 * (b \div 2) + (b % 2) /\ b % 2 \in 0 .. 1
      BY <2>1
    <3>6. f[d][b] = IF d = 0 \/ b = 0 THEN d + b
                    ELSE 2 * f[d \div 2][b \div 2] + (IF (d % 2) + (b % 2) > 0 THEN 1 ELSE 0)
      BY <3>3, OredStep
    <3>7. f[d \div 2][b \div 2] = c + (b \div 2)
      BY <3>2, <3>3, <3>5
    <3>8. f[d][b] = d + b
      <4>1. CASE d = 0 \/ b = 0
        BY <3>6, <4>1
      <4>2. CASE ~(d = 0 \/ b = 0)
        <5>1. f[d][b] = 2 * (c + (b \div 2)) + (IF (d % 2) + (b % 2) > 0 THEN 1 ELSE 0)
          BY <3>6, <3>7, <4>2
        <5>2. (IF (d % 2) + (b % 2) > 0 THEN 1 ELSE 0) = b % 2
          BY <3>3, <3>5
        <5> DEFINE e == b \div 2
        <5> DEFINE r == b % 2
        <5>3. e \in Nat /\ r \in 0 .. 1 /\ b = 2 * e + r /\ f[d][b] = 2 * (c + e) + r
          BY <3>5, <5>1, <5>2
        <5> HIDE DEF e, r
        <5> QED BY <3>1, <3>4, <5>3
      <4> QED BY <4>1, <4>2
    <3> QED BY <3>1, <3>8, <3>4
  <2> HIDE DEF Sums
  <2> QED BY <2>1, <2>3
<1>3. W \in SUBSET Nat
  OBVIOUS
<1> HIDE DEF W
<1>4. W = Nat
  BY <1>1, <1>2, <1>3, Induction
<1> QED BY <1>4 DEF W

\* The same of Or.
LEMMA OrDisjoint ==
    ASSUME NEW w \in Nat, NEW a \in Nat, NEW b \in Nat, b < S!ShiftLeft(1, w)
    PROVE  S!Or(a * S!ShiftLeft(1, w), b) = a * S!ShiftLeft(1, w) + b
<1> DEFINE x == a * S!ShiftLeft(1, w)
<1> DEFINE g == CHOOSE v : v = [c \in 0 .. x |->
            [d \in 0 .. b |-> IF c = 0 \/ d = 0 THEN c + d
                              ELSE 2 * v[c \div 2][d \div 2] + (IF (c % 2) + (d % 2) > 0 THEN 1 ELSE 0)]]
<1>1. x \in Nat
  <2> DEFINE p == S!ShiftLeft(1, w)
  <2>1. p \in Nat
    BY Shift
  <2> HIDE DEF p
  <2>2. a * p \in Nat
    BY <2>1
  <2> QED BY <2>2 DEF p
<1> HIDE DEF x
<1>2. Ored(g, x, b)
  BY <1>1, OredExists DEF Ored
<1>3. S!Or(x, b) = g[x][b]
  BY DEF S!Or
<1> HIDE DEF g
<1>4. g[x][b] = x + b
  <2>1. x <= x /\ b <= b
    BY <1>1
  <2> QED BY <1>1, <1>2, <2>1, OredDisjoint DEF x
<1> QED BY <1>3, <1>4 DEF x

\* The value of an id whose sequence number fits its field.
LEMMA IdValue ==
    ASSUME NEW ts \in Nat, NEW n \in Nat, n < S!ShiftLeft(1, SeqBits)
    PROVE  S!Id(ts, n) = ts * S!ShiftLeft(1, SeqBits + 2 * FieldBits)
                         + S!ShiftLeft(1, SeqBits + FieldBits) + S!ShiftLeft(1, SeqBits) + n
<1> DEFINE s == S!ShiftLeft(1, SeqBits)
<1> DEFINE d == S!ShiftLeft(1, FieldBits)
<1> DEFINE sd == S!ShiftLeft(1, SeqBits + FieldBits)
<1> DEFINE sdd == S!ShiftLeft(1, SeqBits + 2 * FieldBits)
<1>1. s \in Nat \ {0} /\ sd = s * d /\ sdd = sd * d
  <2>1. s \in Nat \ {0}
    BY IdsAssumption, ShiftTimes
  <2>2. sd = s * d
    BY IdsAssumption, ShiftAdds
  <2>3. SeqBits + 2 * FieldBits = (SeqBits + FieldBits) + FieldBits /\ SeqBits + FieldBits \in Nat
    BY IdsAssumption
  <2>4. sdd = sd * d
    BY <2>3, IdsAssumption, ShiftAdds
  <2> QED BY <2>1, <2>2, <2>4
<1>2. d \in Nat /\ d >= 2
  <2>1. PICK k \in Nat : FieldBits = k + 1
    <3>1. FieldBits - 1 \in Nat /\ FieldBits = (FieldBits - 1) + 1
      BY IdsAssumption
    <3> QED BY <3>1
  <2>2. d = 2 * S!ShiftLeft(1, k) /\ S!ShiftLeft(1, k) \in Nat \ {0}
    BY <2>1, Shift, ShiftTimes
  <2> QED BY <2>2
<1>3. S!ShiftLeft(ts, SeqBits + 2 * FieldBits) = ts * sdd
  <2>1. SeqBits + 2 * FieldBits \in Nat
    BY IdsAssumption
  <2> QED BY <2>1, ShiftTimes
<1>4. sd \in Nat \ {0} /\ sdd \in Nat \ {0}
  <2>1. SeqBits + 2 * FieldBits \in Nat /\ SeqBits + FieldBits \in Nat
    BY IdsAssumption
  <2> QED BY <2>1, ShiftTimes
<1>5. S!Or(ts * sdd, sd) = ts * sdd + sd
  <2>1. sd < sdd
    <3> HIDE DEF s, d, sd, sdd
    <3>1. sd * d >= sd * 2
      BY <1>2, <1>4
    <3> QED BY <1>1, <1>4, <3>1
  <2>2. SeqBits + 2 * FieldBits \in Nat
    BY IdsAssumption
  <2> QED BY <1>4, <2>1, <2>2, OrDisjoint
<1>6. S!Or(ts * sdd + sd, s) = ts * sdd + sd + s
  <2> DEFINE a == ts * d + 1
  <2>1. a * sd = ts * sdd + sd /\ a \in Nat
    <3> HIDE DEF s, d, sd, sdd
    <3>1. (ts * d + 1) * sd = ts * (sd * d) + sd
      BY <1>2, <1>4
    <3>2. ts * d + 1 \in Nat
      BY <1>2
    <3> QED BY <1>1, <3>1, <3>2
  <2>2. s < sd
    <3> HIDE DEF s, d, sd, sdd
    <3>1. s * d >= s * 2
      BY <1>1, <1>2
    <3> QED BY <1>1, <3>1
  <2>3. SeqBits + FieldBits \in Nat
    BY IdsAssumption
  <2> HIDE DEF a
  <2>4. S!Or(a * sd, s) = a * sd + s
    BY <1>1, <2>1, <2>2, <2>3, OrDisjoint
  <2> QED BY <2>1, <2>4
<1>7. S!Or(ts * sdd + sd + s, n) = ts * sdd + sd + s + n
  <2> DEFINE b == (ts * d + 1) * d + 1
  <2>1. b * s = ts * sdd + sd + s /\ b \in Nat
    <3> HIDE DEF s, d, sd, sdd
    <3>1. ((ts * d + 1) * d + 1) * s = ts * ((s * d) * d) + s * d + s
      BY <1>1, <1>2
    <3>2. (ts * d + 1) * d + 1 \in Nat
      BY <1>2
    <3> QED BY <1>1, <3>1, <3>2
  <2> HIDE DEF b
  <2>2. S!Or(b * s, n) = b * s + n
    BY <2>1, IdsAssumption, OrDisjoint
  <2> QED BY <2>1, <2>2
<1> QED BY <1>3, <1>5, <1>6, <1>7 DEF S!Id, S!Fixed

\* Ids of different milliseconds, or with different sequence numbers, differ.
LEMMA IdInjective ==
    ASSUME NEW t \in Nat, NEW m \in Nat, NEW u \in Nat, NEW n \in Nat,
           m < S!ShiftLeft(1, SeqBits), n < S!ShiftLeft(1, SeqBits),
           S!Id(t, m) = S!Id(u, n)
    PROVE  t = u /\ m = n
<1> DEFINE s == S!ShiftLeft(1, SeqBits)
<1> DEFINE c == S!ShiftLeft(1, SeqBits + FieldBits)
<1> DEFINE k == S!ShiftLeft(1, SeqBits + 2 * FieldBits)
<1>1. S!Id(t, m) = t * k + c + s + m /\ S!Id(u, n) = u * k + c + s + n
  BY IdValue
<1>2. s \in Nat \ {0} /\ c \in Nat /\ k \in Nat \ {0} /\ s <= k
  <2> DEFINE q == S!ShiftLeft(1, 2 * FieldBits)
  <2>1. SeqBits \in Nat /\ SeqBits + FieldBits \in Nat /\ SeqBits + 2 * FieldBits \in Nat /\ 2 * FieldBits \in Nat
    BY IdsAssumption
  <2>2. s \in Nat \ {0} /\ c \in Nat /\ k \in Nat \ {0} /\ q \in Nat \ {0}
    BY <2>1, ShiftTimes
  <2>3. k = s * q
    BY <2>1, ShiftAdds
  <2> HIDE DEF s, c, k, q
  <2>4. s * q >= s
    BY <2>2
  <2> QED BY <2>2, <2>3, <2>4
<1>3. m < s /\ n < s
  OBVIOUS
<1> HIDE DEF s, c, k
<1>4. k * t + m = k * u + n /\ m \in 0 .. k - 1 /\ n \in 0 .. k - 1
  <2>1. t * k \in Nat /\ u * k \in Nat /\ t * k = k * t /\ u * k = k * u
    BY <1>2
  <2>2. t * k + m = u * k + n
    <3> DEFINE a == t * k
    <3> DEFINE b == u * k
    <3>1. a \in Nat /\ b \in Nat /\ a + c + s + m = b + c + s + n
      BY <1>1, <2>1
    <3> HIDE DEF a, b
    <3>2. a + m = b + n
      BY <1>2, <3>1
    <3> QED BY <3>2 DEF a, b
  <2> QED BY <1>2, <1>3, <2>1, <2>2
<1>5. (k * t + m) \div k = t /\ (k * u + n) \div k = u
  BY <1>2, <1>4, Quotient
<1>6. t = u
  BY <1>4, <1>5
<1> QED BY <1>2, <1>4, <1>6

\* While the clock does not step back and no sequence overflows, the ids are those
\* of the remembered millisecond up to the last number given out, and of earlier ones.
IdsKnown ==
    \A id \in ids : \E t \in Nat, m \in Nat :
        /\ t <= last /\ m < S!ShiftLeft(1, SeqBits)
        /\ id = S!Id(t, m)
        /\ t = last => m <= seq

\* The inductive invariant of the ids.
IdsInv ==
    /\ clock \in Nat /\ last \in Nat /\ seq \in Nat
    /\ ~back /\ ~full => last <= clock /\ repeated = {} /\ IdsKnown

\* GenerateSnowflakeID never returns an id twice, for fields of any width, as long as
\* the clock does not step back and no millisecond has more ids than numbers.
THEOREM IdsUnique == MCSpec => []UniqueIds
<1>1. MCInit => IdsInv
  BY DEF MCInit, S!Init, IdsInv, IdsKnown
<1>2. IdsInv /\ [MCNext]_<<part, textVars, idVars, vars>> => IdsInv'
  <2> SUFFICES ASSUME IdsInv, [MCNext]_<<part, textVars, idVars, vars>> PROVE IdsInv'
    OBVIOUS
  <2>1. CASE UNCHANGED idVars
    BY <2>1 DEF IdsInv, IdsKnown, idVars
  <2>2. CASE S!Tick
    BY <2>2 DEF IdsInv, IdsKnown, S!Tick
  <2>3. CASE S!StepBack
    BY <2>3 DEF IdsInv, IdsKnown, S!StepBack
  <2>4. CASE S!GenerateSnowflakeID
    <3> DEFINE n == IF clock = last THEN seq + 1 ELSE 0
    <3>1. S!Issue(n) /\ last' = clock
      BY <2>4 DEF S!GenerateSnowflakeID
    <3>2. n \in Nat
      BY DEF IdsInv
    <3>3. (clock = last => n = seq + 1) /\ (clock # last => n = 0)
      OBVIOUS
    <3> HIDE DEF n
    <3>4. /\ seq' = n /\ clock' = clock /\ back' = back
          /\ full' = (full \/ n >= S!ShiftLeft(1, SeqBits))
          /\ ids' = ids \cup {S!Id(clock, n)}
          /\ repeated' = IF S!Id(clock, n) \in ids THEN repeated \cup {S!Id(clock, n)} ELSE repeated
      BY <3>1 DEF S!Issue
    <3>5. clock' \in Nat /\ last' \in Nat /\ seq' \in Nat
      BY <3>1, <3>2, <3>4 DEF IdsInv
    <3>6. ASSUME ~back', ~full'
          PROVE  last' <= clock' /\ repeated' = {} /\ IdsKnown'
      <4>1. ~back /\ ~full /\ clock \in Nat /\ last \in Nat /\ seq \in Nat
            /\ last <= clock /\ repeated = {} /\ IdsKnown
        BY <3>4, <3>6 DEF IdsInv
      <4>2. n < S!ShiftLeft(1, SeqBits)
        <5>1. S!ShiftLeft(1, SeqBits) \in Nat
          BY IdsAssumption, Shift
        <5>2. ~(n >= S!ShiftLeft(1, SeqBits))
          BY <3>4, <3>6, Zenon
        <5> QED BY <3>2, <5>1, <5>2
      <4>3. S!Id(clock, n) \notin ids
        <5> SUFFICES ASSUME S!Id(clock, n) \in ids PROVE FALSE
          OBVIOUS
        <5>1. PICK t \in Nat, m \in Nat :
                  /\ t <= last /\ m < S!ShiftLeft(1, SeqBits)
                  /\ S!Id(clock, n) = S!Id(t, m)
                  /\ t = last => m <= seq
          BY <4>1 DEF IdsKnown
        <5>2. clock = t /\ n = m
          BY <3>2, <4>1, <4>2, <5>1, IdInjective
        <5> QED BY <3>3, <4>1, <5>1, <5>2
      <4>4. IdsKnown'
        <5> SUFFICES ASSUME NEW id \in ids'
                     PROVE  \E t \in Nat, m \in Nat :
                                /\ t <= clock /\ m < S!ShiftLeft(1, SeqBits)
                                /\ id = S!Id(t, m)
                                /\ t = clock => m <= n
          BY <3>1, <3>4 DEF IdsKnown
        <5>1. CASE id = S!Id(clock, n)
          <6>1. clock <= clock /\ n <= n
            BY <3>2, <4>1
          <6> QED BY <3>2, <4>1, <4>2, <5>1, <6>1
        <5>2. CASE id \in ids
          <6>1. PICK t \in Nat, m \in Nat :
                    /\ t <= last /\ m < S!ShiftLeft(1, SeqBits)
                    /\ id = S!Id(t, m)
                    /\ t = last => m <= seq
            BY <4>1, <5>2 DEF IdsKnown
          <6>2. t <= clock /\ (t = clock => m <= n)
            BY <3>3, <4>1, <6>1
          <6> QED BY <6>1, <6>2
        <5> QED BY <3>4, <5>1, <5>2
      <4>5. repeated' = {}
        BY <3>4, <4>1, <4>3
      <4> QED BY <3>1, <3>4, <4>1, <4>4, <4>5
    <3> QED BY <3>5, <3>6 DEF IdsInv
  <2> QED BY <2>1, <2>2, <2>3, <2>4 DEF MCNext, S!Next, idVars
<1>3. IdsInv => UniqueIds
  BY DEF IdsInv, UniqueIds, S!UniqueIds
<1> QED BY <1>1, <1>2, <1>3, PTL DEF MCSpec

----------------------------------------------------------------------------
(* UTF-16 offsets.                                                         *)

\* The first unit of a rune is never a low surrogate, the second one always is, and
\* the units tell which rune they encode.
LEMMA UnitsOf ==
    ASSUME NEW r \in T!Rune
    PROVE  /\ T!UnitCount(r) \in 1 .. 2
           /\ T!Units(r) \in Seq(Nat) /\ Len(T!Units(r)) = T!UnitCount(r)
           /\ T!Units(r)[1] \notin High + Half .. High + 2 * Half - 1
           /\ T!UnitCount(r) = 2 <=> T!Units(r)[1] \in High .. High + Half - 1
           /\ T!UnitCount(r) = 2 => T!Units(r)[2] \in High + Half .. High + 2 * Half - 1
<1>1. CASE r < Plane
  BY <1>1, TextAssumption DEF T!Rune, T!UnitCount, T!Units
<1>2. CASE ~(r < Plane)
  <2> DEFINE d == r - Plane
  <2> DEFINE q == d \div Half
  <2> DEFINE m == d % Half
  <2>1. d \in Nat /\ d < Half * Half
    BY <1>2, TextAssumption DEF T!Rune
  <2>2. Half \in Nat /\ Half > 0
    BY TextAssumption
  <2> HIDE DEF d
  <2>3. q \in Nat /\ m \in 0 .. Half - 1 /\ d = Half * q + m
    BY <2>1, <2>2, Division
  <2> HIDE DEF q, m
  <2>4. q < Half
    <3> SUFFICES ASSUME q >= Half PROVE FALSE
      BY <2>2, <2>3
    <3>1. Half * q >= Half * Half
      BY <2>2, <2>3
    <3> QED BY <2>1, <2>2, <2>3, <3>1
  <2>5. T!UnitCount(r) = 2
    BY <1>2, TextAssumption DEF T!UnitCount, T!Rune
  <2>6. T!Units(r) = <<High + q, High + Half + m>>
    BY <1>2 DEF T!Units, q, m, d
  <2> QED BY <2>3, <2>4, <2>5, <2>6, TextAssumption
<1> QED BY <1>1, <1>2

\* Two runes with the same units are the same.
LEMMA UnitsInjective ==
    ASSUME NEW r \in T!Rune, NEW u \in T!Rune,
           T!UnitCount(r) = T!UnitCount(u),
           \A j \in 1 .. T!UnitCount(r) : T!Units(r)[j] = T!Units(u)[j]
    PROVE  r = u
<1>0. r \in Nat /\ u \in Nat
  BY DEF T!Rune
<1>1. CASE r < Plane
  <2>1. u < Plane /\ T!UnitCount(r) = 1
    BY <1>0, <1>1, TextAssumption DEF T!UnitCount
  <2>2. T!Units(r) = <<r>> /\ T!Units(u) = <<u>>
    BY <1>1, <2>1 DEF T!Units
  <2>3. T!Units(r)[1] = T!Units(u)[1]
    BY <2>1
  <2> QED BY <2>2, <2>3
<1>2. CASE ~(r < Plane)
  <2>1. ~(u < Plane) /\ T!UnitCount(r) = 2
    BY <1>0, <1>2, TextAssumption DEF T!UnitCount
  <2>2. T!Units(r)[1] = T!Units(u)[1] /\ T!Units(r)[2] = T!Units(u)[2]
    BY <2>1
  <2> DEFINE d == r - Plane
  <2> DEFINE e == u - Plane
  <2>3. T!Units(r) = <<High + d \div Half, High + Half + (d % Half)>>
    BY <1>2 DEF T!Units
  <2>4. T!Units(u) = <<High + e \div Half, High + Half + (e % Half)>>
    BY <2>1 DEF T!Units
  <2>5. d \in Nat /\ e \in Nat
    BY <1>0, <1>2, <2>1, TextAssumption
  <2> HIDE DEF d, e
  <2>6. Half \in Nat /\ Half > 0 /\ High \in Nat
    BY TextAssumption
  <2>7. /\ d \div Half \in Nat /\ d % Half \in 0 .. Half - 1 /\ d = Half * (d \div Half) + (d % Half)
        /\ e \div Half \in Nat /\ e % Half \in 0 .. Half - 1 /\ e = Half * (e \div Half) + (e % Half)
    BY <2>5, <2>6, Division
  <2>8. High + d \div Half = High + e \div Half /\ High + Half + (d % Half) = High + Half + (e % Half)
    BY <2>2, <2>3, <2>4
  <2>9. d \div Half = e \div Half /\ d % Half = e % Half
    <3> DEFINE q == d \div Half
    <3> DEFINE m == d % Half
    <3> DEFINE v == e \div Half
    <3> DEFINE w == e % Half
    <3>1. q \in Nat /\ m \in Nat /\ v \in Nat /\ w \in Nat
      BY <2>7
    <3>2. High + q = High + v /\ High + Half + m = High + Half + w
      BY <2>8
    <3> HIDE DEF q, m, v, w
    <3>3. q = v /\ m = w
      BY <2>6, <3>1, <3>2
    <3> QED BY <3>3 DEF q, m, v, w
  <2>10. d = e
    BY <2>7, <2>9
  <2> QED BY <1>0, <2>10, TextAssumption DEF d, e
<1> QED BY <1>1, <1>2

\* The offsets of the runes of s in its code units: the function UTF16Len chooses.
Offsets(o, s) == o = [i \in 0 .. Len(s) |-> IF i = 0 THEN 0 ELSE o[i - 1] + T!UnitCount(s[i])]

\* The units of the first runes: the function UTF16Encode chooses.
Prefixed(e, s) == e = [i \in 0 .. Len(s) |-> IF i = 0 THEN <<>> ELSE e[i - 1] \o T!Units(s[i])]

\* Both functions exist.
LEMMA OffsetsExist ==
    ASSUME NEW s \in Seq(T!Rune)
    PROVE  \E o : Offsets(o, s)
<1> DEFINE U == {n \in Nat : \E o : o = [i \in 0 .. n |-> IF i = 0 THEN 0 ELSE o[i - 1] + T!UnitCount(s[i])]}
<1>1. 0 \in U
  <2>1. [i \in 0 .. 0 |-> 0] = [i \in 0 .. 0 |-> IF i = 0 THEN 0
                                                ELSE [k \in 0 .. 0 |-> 0][i - 1] + T!UnitCount(s[i])]
    OBVIOUS
  <2> QED BY <2>1
<1>2. \A n \in U : n + 1 \in U
  <2> TAKE n \in U
  <2>1. PICK g : g = [i \in 0 .. n |-> IF i = 0 THEN 0 ELSE g[i - 1] + T!UnitCount(s[i])]
    OBVIOUS
  <2> DEFINE h == [i \in 0 .. n + 1 |-> IF i = n + 1 THEN g[n] + T!UnitCount(s[n + 1]) ELSE g[i]]
  <2>2. \A i \in 0 .. n + 1 : h[i] = IF i = 0 THEN 0 ELSE h[i - 1] + T!UnitCount(s[i])
    <3> SUFFICES ASSUME NEW i \in 0 .. n + 1
                 PROVE  h[i] = IF i = 0 THEN 0 ELSE h[i - 1] + T!UnitCount(s[i])
      OBVIOUS
    <3>1. CASE i = n + 1
      BY <3>1
    <3>2. CASE i # n + 1
      <4>1. i \in 0 .. n
        BY <3>2
      <4>2. g[i] = IF i = 0 THEN 0 ELSE g[i - 1] + T!UnitCount(s[i])
        BY <2>1, <4>1
      <4> QED BY <4>1, <4>2
    <3> QED BY <3>1, <3>2
  <2>3. h = [i \in 0 .. n + 1 |-> h[i]]
    OBVIOUS
  <2> HIDE DEF h
  <2>4. h = [i \in 0 .. n + 1 |-> IF i = 0 THEN 0 ELSE h[i - 1] + T!UnitCount(s[i])]
    BY <2>2, <2>3
  <2> QED BY <2>4
<1>3. U \in SUBSET Nat
  OBVIOUS
<1> HIDE DEF U
<1>4. U = Nat
  BY <1>1, <1>2, <1>3, Induction
<1>5. Len(s) \in U
  BY <1>4
<1> QED BY <1>5 DEF U, Offsets

\* So does the other one, with sequences of numbers as its values.
LEMMA PrefixedExist ==
    ASSUME NEW s \in Seq(T!Rune)
    PROVE  \E e : Prefixed(e, s)
<1> DEFINE U == {n \in Nat : \E e : e = [i \in 0 .. n |-> IF i = 0 THEN <<>> ELSE e[i - 1] \o T!Units(s[i])]}
<1>1. 0 \in U
  <2>1. [i \in 0 .. 0 |-> <<>>] = [i \in 0 .. 0 |-> IF i = 0 THEN <<>>
                                                ELSE [k \in 0 .. 0 |-> <<>>][i - 1] \o T!Units(s[i])]
    OBVIOUS
  <2> QED BY <2>1
<1>2. \A n \in U : n + 1 \in U
  <2> TAKE n \in U
  <2>1. PICK g : g = [i \in 0 .. n |-> IF i = 0 THEN <<>> ELSE g[i - 1] \o T!Units(s[i])]
    OBVIOUS
  <2> DEFINE h == [i \in 0 .. n + 1 |-> IF i = n + 1 THEN g[n] \o T!Units(s[n + 1]) ELSE g[i]]
  <2>2. \A i \in 0 .. n + 1 : h[i] = IF i = 0 THEN <<>> ELSE h[i - 1] \o T!Units(s[i])
    <3> SUFFICES ASSUME NEW i \in 0 .. n + 1
                 PROVE  h[i] = IF i = 0 THEN <<>> ELSE h[i - 1] \o T!Units(s[i])
      OBVIOUS
    <3>1. CASE i = n + 1
      <4>1. h[n + 1] = g[n] \o T!Units(s[n + 1]) /\ h[n] = g[n]
        OBVIOUS
      <4>2. i - 1 = n /\ i # 0
        BY <3>1
      <4> HIDE DEF h
      <4> QED BY <3>1, <4>1, <4>2
    <3>2. CASE i # n + 1
      <4>1. i \in 0 .. n
        BY <3>2
      <4>2. g[i] = IF i = 0 THEN <<>> ELSE g[i - 1] \o T!Units(s[i])
        BY <2>1, <4>1
      <4> QED BY <4>1, <4>2
    <3> QED BY <3>1, <3>2
  <2>3. h = [i \in 0 .. n + 1 |-> h[i]]
    OBVIOUS
  <2> HIDE DEF h
  <2>4. h = [i \in 0 .. n + 1 |-> IF i = 0 THEN <<>> ELSE h[i - 1] \o T!Units(s[i])]
    BY <2>2, <2>3
  <2> QED BY <2>4
<1>3. U \in SUBSET Nat
  OBVIOUS
<1> HIDE DEF U
<1>4. U = Nat
  BY <1>1, <1>2, <1>3, Induction
<1>5. Len(s) \in U
  BY <1>4
<1> QED BY <1>5 DEF U, Prefixed

\* Every rune moves the offset on.
LEMMA OffsetsRise ==
    ASSUME NEW s \in Seq(T!Rune), NEW o, Offsets(o, s)
    PROVE  /\ o[0] = 0
           /\ \A i \in 1 .. Len(s) : o[i] = o[i - 1] + T!UnitCount(s[i])
           /\ \A i \in 0 .. Len(s) : o[i] \in Nat
           /\ \A i, k \in 0 .. Len(s) : i < k => o[i] < o[k]
<1>1. o[0] = 0 /\ \A i \in 1 .. Len(s) : o[i] = o[i - 1] + T!UnitCount(s[i])
  BY DEF Offsets
<1>2. \A i \in 1 .. Len(s) : T!UnitCount(s[i]) \in 1 .. 2
  BY UnitsOf
<1> DEFINE Good(n) == /\ \A i \in 0 .. n : o[i] \in Nat
                      /\ \A i, k \in 0 .. n : i < k => o[i] < o[k]
<1> DEFINE U == {n \in Nat : n <= Len(s) => Good(n)}
<1>3. Good(0)
  BY <1>1
<1>4. ASSUME NEW n \in U, n + 1 <= Len(s) PROVE Good(n + 1)
  <2>1. /\ \A i \in 0 .. n : o[i] \in Nat
        /\ \A i, k \in 0 .. n : i < k => o[i] < o[k]
    <3>1. n \in Nat /\ n <= Len(s)
      BY <1>4
    <3>2. Good(n)
      <4> HIDE DEF Good
      <4> QED BY <3>1
    <3> QED BY <3>2
  <2>2. o[n + 1] = o[n] + T!UnitCount(s[n + 1]) /\ T!UnitCount(s[n + 1]) \in 1 .. 2
    <3>1. n + 1 \in 1 .. Len(s) /\ (n + 1) - 1 = n
      BY <1>4
    <3> QED BY <1>1, <1>2, <3>1
  <2>3. o[n + 1] \in Nat /\ o[n] < o[n + 1]
    BY <2>1, <2>2
  <2>4. \A i \in 0 .. n : o[i] < o[n + 1]
    <3> SUFFICES ASSUME NEW i \in 0 .. n PROVE o[i] < o[n + 1]
      OBVIOUS
    <3>1. i = n \/ o[i] < o[n]
      BY <2>1
    <3>2. o[i] \in Nat /\ o[n] \in Nat
      BY <2>1
    <3> QED BY <2>3, <3>1, <3>2
  <2> QED BY <2>1, <2>3, <2>4
<1> HIDE DEF Good
<1>5. U \in SUBSET Nat /\ 0 \in U /\ \A n \in U : n + 1 \in U
  BY <1>3, <1>4
<1> HIDE DEF U
<1>6. U = Nat
  BY <1>5, Induction
<1>7. Len(s) \in U
  BY <1>6
<1>8. Good(Len(s))
  BY <1>7 DEF U
<1> QED BY <1>1, <1>8 DEF Good

\* Every code unit is one of some rune's.
LEMMA Located ==
    ASSUME NEW s \in Seq(T!Rune), NEW o, Offsets(o, s), NEW p \in Nat, p < o[Len(s)]
    PROVE  \E i \in 1 .. Len(s), j \in 1 .. 2 : j <= T!UnitCount(s[i]) /\ p + 1 = o[i - 1] + j
<1> DEFINE U == {i \in 0 .. Len(s) : p < o[i]}
<1>1. U \in SUBSET Nat /\ U # {}
  OBVIOUS
<1>2. PICK i \in U : \A k \in U : i <= k
  <2> HIDE DEF U
  <2> QED BY <1>1, Least
<1>3. i # 0
  BY OffsetsRise
<1>4. i - 1 \in 0 .. Len(s) /\ i \in 1 .. Len(s)
  BY <1>3
<1>5. ~(p < o[i - 1])
  BY <1>2, <1>4
<1>6. o[i] = o[i - 1] + T!UnitCount(s[i]) /\ o[i - 1] \in Nat
  BY <1>4, OffsetsRise
<1>7. T!UnitCount(s[i]) \in 1 .. 2
  <2>1. s[i] \in T!Rune
    BY <1>4
  <2> QED BY <2>1, UnitsOf
<1> DEFINE j == p + 1 - o[i - 1]
<1>8. j \in 1 .. 2 /\ j <= T!UnitCount(s[i]) /\ p + 1 = o[i - 1] + j
  BY <1>5, <1>6, <1>7
<1> QED BY <1>4, <1>8

\* u encodes s, with the runes at the offsets o.
Encoding(u, o, s) ==
    /\ u \in Seq(Nat) /\ Len(u) = o[Len(s)]
    /\ \A i \in 1 .. Len(s), j \in 1 .. 2 :
          j <= T!UnitCount(s[i]) => u[o[i - 1] + j] = T!Units(s[i])[j]

\* What UTF16Encode yields is the encoding.
LEMMA Encodes ==
    ASSUME NEW s \in Seq(T!Rune), NEW o, Offsets(o, s)
    PROVE  Encoding(T!UTF16Encode(s), o, s)
<1> DEFINE e == CHOOSE v : v = [i \in 0 .. Len(s) |-> IF i = 0 THEN <<>> ELSE v[i - 1] \o T!Units(s[i])]
<1>1. Prefixed(e, s)
  BY PrefixedExist DEF Prefixed
<1>2. T!UTF16Encode(s) = e[Len(s)]
  BY DEF T!UTF16Encode
<1> HIDE DEF e
<1> DEFINE Good(n) ==
        /\ e[n] \in Seq(Nat) /\ Len(e[n]) = o[n]
        /\ \A i \in 1 .. n, j \in 1 .. 2 :
              j <= T!UnitCount(s[i]) => e[n][o[i - 1] + j] = T!Units(s[i])[j]
<1> DEFINE U == {n \in Nat : n <= Len(s) => Good(n)}
<1>3. e[0] = <<>> /\ \A i \in 1 .. Len(s) : e[i] = e[i - 1] \o T!Units(s[i])
  BY <1>1 DEF Prefixed
<1>4. /\ o[0] = 0
      /\ \A i \in 1 .. Len(s) : o[i] = o[i - 1] + T!UnitCount(s[i])
      /\ \A i \in 0 .. Len(s) : o[i] \in Nat
      /\ \A i, k \in 0 .. Len(s) : i < k => o[i] < o[k]
  BY OffsetsRise
<1>5. Good(0)
  BY <1>3, <1>4
<1>6. ASSUME NEW n \in U, n + 1 <= Len(s)
      PROVE  Good(n + 1)
  <2>1. Good(n) /\ n \in Nat /\ n + 1 \in 1 .. Len(s) /\ (n + 1) - 1 = n
    <3>1. n \in Nat /\ n + 1 \in 1 .. Len(s) /\ n <= Len(s) /\ (n + 1) - 1 = n
      BY <1>6
    <3>2. Good(n)
      <4> HIDE DEF Good
      <4> QED BY <3>1
    <3> QED BY <3>1, <3>2
  <2> DEFINE a == e[n]
  <2> DEFINE b == T!Units(s[n + 1])
  <2>2. e[n + 1] = a \o b
    BY <1>3, <2>1
  <2>3. /\ b \in Seq(Nat) /\ Len(b) = T!UnitCount(s[n + 1])
        /\ T!UnitCount(s[n + 1]) \in 1 .. 2
    <3>1. s[n + 1] \in T!Rune
      BY <2>1
    <3> QED BY <3>1, UnitsOf
  <2>4. a \in Seq(Nat) /\ Len(a) = o[n] /\ o[n] \in Nat /\ o[n + 1] = o[n] + T!UnitCount(s[n + 1])
    BY <1>4, <2>1
  <2>5. /\ a \o b \in Seq(Nat) /\ Len(a \o b) = Len(a) + Len(b)
        /\ \A i \in 1 .. Len(a) + Len(b) : (a \o b)[i] = IF i <= Len(a) THEN a[i] ELSE b[i - Len(a)]
    <3> HIDE DEF a, b
    <3> QED BY <2>3, <2>4, ConcatProperties
  <2>6. ASSUME NEW i \in 1 .. n + 1, NEW j \in 1 .. 2, j <= T!UnitCount(s[i])
        PROVE  e[n + 1][o[i - 1] + j] = T!Units(s[i])[j]
    <3>1. CASE i = n + 1
      <4>1. i - 1 = n /\ j <= Len(b)
        BY <2>1, <2>3, <2>6, <3>1
      <4> HIDE DEF a, b
      <4>2. (a \o b)[o[n] + j] = b[j]
        <5> DEFINE p == o[n] + j
        <5>1. p \in 1 .. Len(a) + Len(b) /\ ~(p <= Len(a)) /\ p - Len(a) = j
          <6> DEFINE x == Len(a)
          <6> DEFINE y == Len(b)
          <6>1. x = o[n] /\ x \in Nat /\ y \in Nat /\ j <= y
            BY <2>3, <2>4, <4>1
          <6> HIDE DEF x, y
          <6>2. p = x + j
            BY <6>1
          <6>3. p \in 1 .. x + y /\ ~(p <= x) /\ p - x = j
            BY <6>1, <6>2
          <6> QED BY <6>3 DEF x, y
        <5> HIDE DEF p
        <5>2. (a \o b)[p] = b[p - Len(a)]
          BY <2>5, <5>1
        <5> QED BY <5>1, <5>2 DEF p
      <4> QED BY <2>2, <3>1, <4>1, <4>2 DEF b
    <3>2. CASE i # n + 1
      <4>1. i \in 1 .. n /\ i \in 0 .. Len(s) /\ i - 1 \in 0 .. Len(s) /\ n \in 0 .. Len(s)
        BY <2>1, <3>2
      <4>2. o[i] = o[i - 1] + T!UnitCount(s[i]) /\ o[i - 1] \in Nat /\ o[i] \in Nat /\ (i = n \/ o[i] < o[n])
        BY <1>4, <2>1, <4>1
      <4>3. T!UnitCount(s[i]) \in 1 .. 2
        <5>1. s[i] \in T!Rune
          BY <2>1, <4>1
        <5> QED BY <5>1, UnitsOf
      <4>4. o[i - 1] + j \in 1 .. o[n]
        BY SMTT(30), <2>4, <2>6, <4>2, <4>3
      <4>5. a[o[i - 1] + j] = T!Units(s[i])[j]
        BY <2>1, <2>6, <4>1
      <4> HIDE DEF a, b
      <4>6. (a \o b)[o[i - 1] + j] = a[o[i - 1] + j]
        BY <2>3, <2>4, <2>5, <4>4
      <4> QED BY <2>2, <4>5, <4>6
    <3> QED BY <3>1, <3>2
  <2>7. e[n + 1] \in Seq(Nat) /\ Len(e[n + 1]) = o[n + 1]
    <3> HIDE DEF a, b
    <3> QED BY <2>2, <2>3, <2>4, <2>5
  <2> QED BY <2>6, <2>7
<1>7. 0 \in U /\ \A n \in U : n + 1 \in U
  <2> HIDE DEF Good
  <2> QED BY <1>5, <1>6
<1>8. U \in SUBSET Nat
  OBVIOUS
<1> HIDE DEF U
<1>9. U = Nat
  BY <1>7, <1>8, Induction
<1>10. Len(s) \in U
  BY <1>9
<1>11. Good(Len(s))
  <2> HIDE DEF Good
  <2> QED BY <1>10 DEF U
<1> QED BY <1>2, <1>11 DEF Encoding

\* What UTF16Len counts up to a rune is the rune's offset.
LEMMA Counts ==
    ASSUME NEW s \in Seq(T!Rune), NEW o, Offsets(o, s), NEW k \in 0 .. Len(s)
    PROVE  T!UTF16Len(SubSeq(s, 1, k)) = o[k]
<1> DEFINE r == SubSeq(s, 1, k)
<1>1. r \in Seq(T!Rune) /\ Len(r) = k /\ \A i \in 1 .. k : r[i] = s[i]
  OBVIOUS
<1> HIDE DEF r
<1> DEFINE f == CHOOSE v : v = [i \in 0 .. Len(r) |-> IF i = 0 THEN 0 ELSE v[i - 1] + T!UnitCount(r[i])]
<1>2. Offsets(f, r)
  BY <1>1, OffsetsExist DEF Offsets
<1>3. T!UTF16Len(r) = f[k]
  BY <1>1 DEF T!UTF16Len
<1> HIDE DEF f
<1>4. /\ f[0] = 0 /\ o[0] = 0
      /\ \A i \in 1 .. k : f[i] = f[i - 1] + T!UnitCount(s[i]) /\ o[i] = o[i - 1] + T!UnitCount(s[i])
  <2>1. f[0] = 0 /\ \A i \in 1 .. k : f[i] = f[i - 1] + T!UnitCount(r[i])
    BY <1>1, <1>2, OffsetsRise
  <2>2. o[0] = 0 /\ \A i \in 1 .. k : o[i] = o[i - 1] + T!UnitCount(s[i])
    BY OffsetsRise
  <2> QED BY <1>1, <2>1, <2>2
<1> DEFINE U == {n \in Nat : n <= k => f[n] = o[n]}
<1>5. 0 \in U
  BY <1>4
<1>6. \A n \in U : n + 1 \in U
  <2> SUFFICES ASSUME NEW n \in U, n + 1 <= k PROVE f[n + 1] = o[n + 1]
    OBVIOUS
  <2>1. n + 1 \in 1 .. k /\ (n + 1) - 1 = n /\ f[n] = o[n]
    OBVIOUS
  <2> QED BY <1>4, <2>1
<1>7. U \in SUBSET Nat
  OBVIOUS
<1> HIDE DEF U
<1>8. U = Nat
  BY <1>5, <1>6, <1>7, Induction
<1>9. f[k] = o[k]
  BY <1>8 DEF U
<1> QED BY <1>3, <1>9 DEF r

\* Where the runes of sub are in s, the offsets within sub add up.
LEMMA OffsetsShift ==
    ASSUME NEW s \in Seq(T!Rune), NEW o, Offsets(o, s),
           NEW r \in Seq(T!Rune), NEW q, Offsets(q, r),
           NEW i \in Nat, NEW m \in Nat, m <= Len(r), i + m <= Len(s),
           \A j \in 1 .. m : s[i + j] = r[j]
    PROVE  \A k \in 0 .. m : o[i + k] = o[i] + q[k]
<1> DEFINE U == {k \in Nat : k <= m => o[i + k] = o[i] + q[k]}
<1>1. \A k \in 0 .. Len(s) : o[k] \in Nat
  BY OffsetsRise
<1>2. q[0] = 0 /\ \A k \in 0 .. Len(r) : q[k] \in Nat
  BY OffsetsRise
<1>3. 0 \in U
  BY <1>1, <1>2
<1>4. ASSUME NEW k \in U, k + 1 <= m PROVE o[i + (k + 1)] = o[i] + q[k + 1]
  <2>1. k \in Nat /\ o[i + k] = o[i] + q[k] /\ o[i] \in Nat /\ q[k] \in Nat
    BY <1>1, <1>2, <1>4
  <2>2. i + (k + 1) \in 1 .. Len(s) /\ (i + (k + 1)) - 1 = i + k /\ k + 1 \in 1 .. Len(r) /\ (k + 1) - 1 = k
    BY <1>4, <2>1
  <2>3. o[i + (k + 1)] = o[i + k] + T!UnitCount(s[i + (k + 1)]) /\ q[k + 1] = q[k] + T!UnitCount(r[k + 1])
    BY <2>2, OffsetsRise
  <2>4. s[i + (k + 1)] = r[k + 1] /\ r[k + 1] \in T!Rune
    BY <1>4, <2>1, <2>2
  <2>5. T!UnitCount(r[k + 1]) \in 1 .. 2
    BY <2>4, UnitsOf
  <2> DEFINE x == o[i]
  <2> DEFINE y == q[k]
  <2> DEFINE c == T!UnitCount(r[k + 1])
  <2>6. x \in Nat /\ y \in Nat /\ c \in Nat /\ o[i + (k + 1)] = (x + y) + c /\ q[k + 1] = y + c
    BY <2>1, <2>3, <2>4, <2>5
  <2> HIDE DEF x, y, c
  <2>7. o[i + (k + 1)] = x + q[k + 1]
    BY <2>6
  <2> QED BY <2>7 DEF x
<1>5. U \in SUBSET Nat /\ \A k \in U : k + 1 \in U
  BY <1>4
<1> HIDE DEF U
<1>6. U = Nat
  BY <1>3, <1>5, Induction
<1> QED BY <1>6 DEF U

\* An occurrence of the runes is one of the units, at the first rune's offset.
LEMMA RunesToUnits ==
    ASSUME NEW s \in Seq(T!Rune), NEW o, Offsets(o, s), NEW u, Encoding(u, o, s),
           NEW r \in Seq(T!Rune), NEW q, Offsets(q, r), NEW v, Encoding(v, q, r),
           NEW i \in T!Matches(s, r)
    PROVE  o[i] \in T!Matches(u, v)
<1>1. i \in Nat /\ i + Len(r) <= Len(s) /\ \A j \in 1 .. Len(r) : s[i + j] = r[j]
  BY DEF T!Matches
<1>2. \A k \in 0 .. Len(r) : o[i + k] = o[i] + q[k]
  <2>1. PICK m \in Nat : m = Len(r)
    OBVIOUS
  <2>2. i \in Nat /\ m <= Len(r) /\ i + m <= Len(s) /\ \A j \in 1 .. m : s[i + j] = r[j]
    BY <1>1, <2>1
  <2>3. \A k \in 0 .. m : o[i + k] = o[i] + q[k]
    BY SMTT(30), <2>2, OffsetsShift
  <2> QED BY <2>1, <2>3
<1>3. \A k \in 0 .. Len(s) : o[k] \in Nat
  BY OffsetsRise
<1>4. \A k \in 0 .. Len(r) : q[k] \in Nat
  BY OffsetsRise
<1>5. /\ u \in Seq(Nat) /\ Len(u) = o[Len(s)] /\ v \in Seq(Nat) /\ Len(v) = q[Len(r)]
      /\ \A k \in 1 .. Len(s), j \in 1 .. 2 :
            j <= T!UnitCount(s[k]) => u[o[k - 1] + j] = T!Units(s[k])[j]
      /\ \A k \in 1 .. Len(r), j \in 1 .. 2 :
            j <= T!UnitCount(r[k]) => v[q[k - 1] + j] = T!Units(r[k])[j]
  BY DEF Encoding
<1>6. o[i] \in 0 .. Len(u) - Len(v)
  <2>1. o[i + Len(r)] = o[i] + q[Len(r)]
    BY <1>2
  <2>2. o[i + Len(r)] <= o[Len(s)]
    <3>1. i + Len(r) \in 0 .. Len(s) /\ Len(s) \in 0 .. Len(s)
      BY <1>1
    <3>2. i + Len(r) = Len(s) \/ i + Len(r) < Len(s)
      BY <1>1
    <3>3. i + Len(r) < Len(s) => o[i + Len(r)] < o[Len(s)]
      BY <3>1, OffsetsRise
    <3> QED BY <1>3, <3>1, <3>2, <3>3
  <2>3. o[i] \in Nat /\ q[Len(r)] \in Nat /\ o[Len(s)] \in Nat
    BY <1>1, <1>3, <1>4
  <2> QED BY <1>5, <2>1, <2>2, <2>3
<1>7. ASSUME NEW p \in 1 .. Len(v) PROVE u[o[i] + p] = v[p]
  <2>1. p - 1 \in Nat /\ p - 1 < q[Len(r)]
    BY <1>4, <1>5
  <2>2. PICK k \in 1 .. Len(r), j \in 1 .. 2 : j <= T!UnitCount(r[k]) /\ (p - 1) + 1 = q[k - 1] + j
    <3> DEFINE z == p - 1
    <3> HIDE DEF z
    <3>1. z \in Nat /\ z < q[Len(r)]
      BY <2>1 DEF z
    <3>2. \E k \in 1 .. Len(r), j \in 1 .. 2 : j <= T!UnitCount(r[k]) /\ z + 1 = q[k - 1] + j
      BY <3>1, Located
    <3> QED BY <3>2 DEF z
  <2>3. p = q[k - 1] + j
    BY <2>2
  <2>4. v[p] = T!Units(r[k])[j]
    BY <1>5, <2>2, <2>3
  <2>5. i + k \in 1 .. Len(s) /\ (i + k) - 1 = i + (k - 1) /\ k - 1 \in 0 .. Len(r) /\ s[i + k] = r[k]
    BY <1>1
  <2>6. u[o[(i + k) - 1] + j] = T!Units(s[i + k])[j]
    BY <1>5, <2>2, <2>5
  <2>7. o[(i + k) - 1] = o[i] + q[k - 1]
    BY <1>2, <2>5
  <2>8. (o[i] + q[k - 1]) + j = o[i] + p
    <3>1. o[i] \in Nat /\ q[k - 1] \in Nat
      BY <1>1, <1>3, <1>4, <2>5
    <3> QED BY <2>3, <3>1
  <2> QED BY <2>4, <2>5, <2>6, <2>7, <2>8
<1>8. DOMAIN v = 1 .. Len(v)
  BY <1>5
<1> QED BY <1>6, <1>7, <1>8 DEF T!Matches

\* An occurrence of the units starts at a rune, and the runes occur there: it starts
\* with no low surrogate, and where a rune starts the units tell which one it is.
LEMMA UnitsToRunes ==
    ASSUME NEW s \in Seq(T!Rune), NEW o, Offsets(o, s), NEW u, Encoding(u, o, s),
           NEW r \in Seq(T!Rune), NEW q, Offsets(q, r), NEW v, Encoding(v, q, r),
           r # <<>>, NEW p \in T!Matches(u, v)
    PROVE  \E i \in T!Matches(s, r) : p = o[i]
<1>1. /\ u \in Seq(Nat) /\ Len(u) = o[Len(s)] /\ v \in Seq(Nat) /\ Len(v) = q[Len(r)]
      /\ \A k \in 1 .. Len(s), j \in 1 .. 2 :
            j <= T!UnitCount(s[k]) => u[o[k - 1] + j] = T!Units(s[k])[j]
      /\ \A k \in 1 .. Len(r), j \in 1 .. 2 :
            j <= T!UnitCount(r[k]) => v[q[k - 1] + j] = T!Units(r[k])[j]
  BY DEF Encoding
<1>2. p \in Nat /\ p + Len(v) <= Len(u) /\ \A j \in 1 .. Len(v) : u[p + j] = v[j]
  BY <1>1 DEF T!Matches
<1>3. /\ o[0] = 0
      /\ \A i \in 1 .. Len(s) : o[i] = o[i - 1] + T!UnitCount(s[i])
      /\ \A i \in 0 .. Len(s) : o[i] \in Nat
      /\ \A i, k \in 0 .. Len(s) : i < k => o[i] < o[k]
  BY OffsetsRise
<1>4. /\ q[0] = 0
      /\ \A i \in 1 .. Len(r) : q[i] = q[i - 1] + T!UnitCount(r[i])
      /\ \A i \in 0 .. Len(r) : q[i] \in Nat
      /\ \A i, k \in 0 .. Len(r) : i < k => q[i] < q[k]
  BY OffsetsRise
<1>5. Len(r) \in Nat /\ Len(r) >= 1 /\ Len(s) \in Nat
  OBVIOUS
<1>6. \A k \in 1 .. Len(s) : s[k] \in T!Rune /\ T!UnitCount(s[k]) \in 1 .. 2
  BY UnitsOf
<1>7. \A k \in 1 .. Len(r) : r[k] \in T!Rune /\ T!UnitCount(r[k]) \in 1 .. 2
  BY UnitsOf
<1>8. Len(v) >= 1 /\ Len(v) \in Nat /\ Len(u) \in Nat
  <2>1. q[0] < q[Len(r)]
    BY <1>4, <1>5
  <2> QED BY <1>1, <1>4, <1>5, <2>1
<1>9. PICK i \in 0 .. Len(s) - 1 : p = o[i]
  <2>1. u[p + 1] = T!Units(r[1])[1]
    <3>1. v[q[1 - 1] + 1] = T!Units(r[1])[1]
      BY <1>1, <1>5, <1>7
    <3>2. q[1 - 1] + 1 = 1
      BY <1>4
    <3> QED BY <1>2, <1>8, <3>1, <3>2
  <2>2. p < o[Len(s)]
    BY <1>1, <1>2, <1>8
  <2>3. PICK k \in 1 .. Len(s), j \in 1 .. 2 : j <= T!UnitCount(s[k]) /\ p + 1 = o[k - 1] + j
    BY <1>2, <2>2, Located
  <2>4. u[p + 1] = T!Units(s[k])[j]
    BY <1>1, <2>3
  <2>5. j # 2
    <3> SUFFICES ASSUME j = 2 PROVE FALSE
      OBVIOUS
    <3>1. T!UnitCount(s[k]) = 2
      BY <1>6, <2>3
    <3>2. T!Units(s[k])[2] \in High + Half .. High + 2 * Half - 1
      BY <1>6, <3>1, UnitsOf
    <3>3. T!Units(r[1])[1] \notin High + Half .. High + 2 * Half - 1
      BY <1>5, <1>7, UnitsOf
    <3> QED BY <2>1, <2>4, <3>2, <3>3
  <2>6. j = 1 /\ k - 1 \in 0 .. Len(s) - 1 /\ o[k - 1] \in Nat
    BY <1>3, <2>5
  <2>7. p = o[k - 1]
    BY <1>2, <2>3, <2>6
  <2> QED BY <2>6, <2>7
<1> DEFINE Same(m) == i + m <= Len(s) /\ \A j \in 1 .. m : s[i + j] = r[j]
<1> DEFINE U == {m \in Nat : m <= Len(r) => Same(m)}
<1>10. 0 \in U
  BY <1>5
<1>11. ASSUME NEW m \in U, m + 1 <= Len(r) PROVE Same(m + 1)
  <2>1. m \in Nat /\ m <= Len(r) /\ Same(m)
    BY <1>5, <1>11
  <2>2. o[i + m] = o[i] + q[m]
    <3>1. i \in Nat /\ i + m <= Len(s) /\ (\A j \in 1 .. m : s[i + j] = r[j])
      BY <2>1
    <3>2. \A k \in 0 .. m : o[i + k] = o[i] + q[k]
      BY <2>1, <3>1, OffsetsShift
    <3> QED BY <2>1, <3>2
  <2>3. o[i + m] = p + q[m] /\ q[m] \in Nat
    BY <1>4, <1>9, <2>1, <2>2
  <2> DEFINE c == T!UnitCount(r[m + 1])
  <2>4. m + 1 \in 1 .. Len(r) /\ (m + 1) - 1 = m /\ c \in 1 .. 2
    BY <1>7, <1>11, <2>1
  <2>5. q[m] + c <= Len(v)
    <3>1. q[m + 1] = q[m] + c
      BY <1>4, <2>4
    <3>2. m + 1 = Len(r) \/ q[m + 1] < q[Len(r)]
      BY <1>4, <1>5, <2>4
    <3>3. q[m + 1] \in Nat /\ q[Len(r)] \in Nat
      BY <1>4, <1>5, <2>4
    <3> QED BY <1>1, <3>1, <3>2, <3>3
  <2>6. \A j \in 1 .. 2 : j <= c => u[o[i + m] + j] = T!Units(r[m + 1])[j]
    <3> SUFFICES ASSUME NEW j \in 1 .. 2, j <= c PROVE u[o[i + m] + j] = T!Units(r[m + 1])[j]
      OBVIOUS
    <3>1. q[m] + j \in 1 .. Len(v) /\ o[i + m] + j = p + (q[m] + j)
      <4> DEFINE y == Len(v)
      <4> DEFINE z == q[m]
      <4> DEFINE w == o[i + m]
      <4>1. z \in Nat /\ w = p + z
        BY <2>3
      <4>2. z + c <= y
        BY <2>5
      <4>3. y \in Nat /\ p \in Nat
        BY <1>2, <1>8
      <4>4. c \in 1 .. 2 /\ j <= c
        BY <2>4
      <4> HIDE DEF y, z, w, c
      <4>5. z + j \in 1 .. y /\ w + j = p + (z + j)
        BY <4>1, <4>2, <4>3, <4>4
      <4> QED BY <4>5 DEF y, z, w
    <3>2. v[q[m] + j] = T!Units(r[m + 1])[j]
      BY <1>1, <2>4
    <3> QED BY <1>2, <3>1, <3>2
  <2>7. i + m < Len(s)
    <3> SUFFICES ASSUME i + m = Len(s) PROVE FALSE
      BY <1>5, <2>1
    <3>1. o[i + m] = Len(u)
      BY <1>1
    <3> DEFINE x == Len(u)
    <3> DEFINE y == Len(v)
    <3> DEFINE z == q[m]
    <3>2. x \in Nat /\ y \in Nat
      BY <1>8
    <3>3. z \in Nat /\ x = p + z
      BY <2>3, <3>1
    <3>4. p + y <= x /\ p \in Nat
      BY <1>2
    <3>5. z + c <= y
      BY <2>5
    <3>6. c \in 1 .. 2
      BY <2>4
    <3> HIDE DEF x, y, z, c
    <3> QED BY <3>2, <3>3, <3>4, <3>5, <3>6
  <2> DEFINE x == s[i + (m + 1)]
  <2>8. i + (m + 1) \in 1 .. Len(s) /\ (i + (m + 1)) - 1 = i + m /\ x \in T!Rune /\ T!UnitCount(x) \in 1 .. 2
    <3>1. i + (m + 1) \in 1 .. Len(s) /\ (i + (m + 1)) - 1 = i + m
      BY <1>5, <2>1, <2>7
    <3> QED BY <1>6, <3>1
  <2>9. \A j \in 1 .. 2 : j <= T!UnitCount(x) => u[o[i + m] + j] = T!Units(x)[j]
    BY SMTT(30), <1>1, <2>8
  <2>10. r[m + 1] \in T!Rune
    BY <1>7, <2>4
  <2>11. T!Units(x)[1] = T!Units(r[m + 1])[1]
    BY <2>4, <2>6, <2>8, <2>9
  <2>12. T!UnitCount(x) = c
    <3>1. T!UnitCount(x) = 2 <=> T!Units(x)[1] \in High .. High + Half - 1
      BY <2>8, UnitsOf
    <3>2. c = 2 <=> T!Units(r[m + 1])[1] \in High .. High + Half - 1
      BY <2>10, UnitsOf
    <3> QED BY <2>4, <2>8, <2>11, <3>1, <3>2
  <2>13. \A j \in 1 .. T!UnitCount(x) : T!Units(x)[j] = T!Units(r[m + 1])[j]
    <3> SUFFICES ASSUME NEW j \in 1 .. T!UnitCount(x) PROVE T!Units(x)[j] = T!Units(r[m + 1])[j]
      OBVIOUS
    <3>1. j \in 1 .. 2 /\ j <= T!UnitCount(x) /\ j <= c
      BY <2>8, <2>12
    <3> QED BY <2>6, <2>9, <3>1
  <2>14. x = r[m + 1]
    BY <2>8, <2>10, <2>12, <2>13, UnitsInjective
  <2>15. ASSUME NEW j \in 1 .. m + 1 PROVE s[i + j] = r[j]
    <3>1. j = m + 1 \/ j \in 1 .. m
      BY <2>1
    <3> QED BY <2>1, <2>14, <3>1
  <2>16. i + (m + 1) <= Len(s)
    BY <2>8
  <2> QED BY <2>15, <2>16
<1>12. U \in SUBSET Nat /\ \A m \in U : m + 1 \in U
  <2> HIDE DEF Same
  <2> QED BY <1>5, <1>11
<1> HIDE DEF U
<1>13. U = Nat
  BY <1>10, <1>12, Induction
<1>14. Same(Len(r))
  <2> HIDE DEF Same
  <2> QED BY <1>5, <1>13 DEF U
<1>15. DOMAIN r = 1 .. Len(r)
  OBVIOUS
<1>16. i \in T!Matches(s, r)
  BY <1>5, <1>14, <1>15 DEF T!Matches
<1> QED BY <1>9, <1>16

\* The first of a set of naturals is its least element.
LEMMA FirstLeast ==
    ASSUME NEW U \in SUBSET Nat, U # {}
    PROVE  T!First(U) \in U /\ \A x \in U : T!First(U) <= x
<1>1. \E x \in U : \A y \in U : x <= y
  BY Least
<1> QED BY <1>1 DEF T!First

\* Lengths, positions and mention spans computed from runes are those of the encoded
\* text, for every text and every sub: the search in code units never starts or ends
\* within a surrogate pair.
THEOREM AllOffsetsAgree ==
    ASSUME NEW s \in Seq(T!Rune), NEW r \in Seq(T!Rune)
    PROVE  T!OffsetsAgree(s, r)
<1>1. PICK o : Offsets(o, s)
  BY OffsetsExist
<1>2. PICK q : Offsets(q, r)
  BY OffsetsExist
<1> DEFINE u == T!UTF16Encode(s)
<1> DEFINE v == T!UTF16Encode(r)
<1>3. Encoding(u, o, s) /\ Encoding(v, q, r)
  BY <1>1, <1>2, Encodes
<1>4. \A k \in 0 .. Len(s) : T!UTF16Len(SubSeq(s, 1, k)) = o[k]
  BY <1>1, Counts
<1>5. T!UTF16Len(r) = q[Len(r)] /\ T!UTF16Len(s) = o[Len(s)]
  <2>1. SubSeq(r, 1, Len(r)) = r /\ SubSeq(s, 1, Len(s)) = s
    BY SubSeqFull
  <2>2. Len(r) \in 0 .. Len(r) /\ Len(s) \in 0 .. Len(s)
    OBVIOUS
  <2>3. T!UTF16Len(SubSeq(r, 1, Len(r))) = q[Len(r)]
    BY <1>2, <2>2, Counts
  <2> QED BY <1>4, <2>1, <2>2, <2>3
<1>6. T!PositionsAgree(s)
  <2>1. T!UTF16Len(s) = Len(T!UTF16Encode(s))
    BY <1>3, <1>5 DEF Encoding
  <2>2. ASSUME NEW i \in -1 .. Len(s) + 1
        PROVE  T!RuneIndexToUTF16(s, i)
                   = Len(T!UTF16Encode(SubSeq(s, 1, IF i > Len(s) THEN Len(s) ELSE i)))
    <3> DEFINE k == IF i > Len(s) THEN Len(s) ELSE i
    <3> DEFINE w == SubSeq(s, 1, k)
    <3>1. w \in Seq(T!Rune)
      <4>1. k \in Int /\ k <= Len(s)
        OBVIOUS
      <4>2. \A j \in 1 .. k : s[j] \in T!Rune
        BY <4>1
      <4> HIDE DEF k
      <4> QED BY <4>1, <4>2, SubSeqProperties
    <3>2. T!RuneIndexToUTF16(s, i) = T!UTF16Len(w)
      BY DEF T!RuneIndexToUTF16
    <3> HIDE DEF w, k
    <3>3. PICK f : Offsets(f, w)
      BY <3>1, OffsetsExist
    <3>4. Encoding(T!UTF16Encode(w), f, w)
      BY <3>1, <3>3, Encodes
    <3>5. T!UTF16Len(SubSeq(w, 1, Len(w))) = f[Len(w)]
      <4>1. Len(w) \in 0 .. Len(w)
        BY <3>1
      <4> QED BY <3>1, <3>3, <4>1, Counts
    <3>6. SubSeq(w, 1, Len(w)) = w
      BY <3>1, SubSeqFull
    <3>7. T!RuneIndexToUTF16(s, i) = Len(T!UTF16Encode(w))
      BY <3>2, <3>4, <3>5, <3>6 DEF Encoding
    <3> QED BY <3>7 DEF w, k
  <2> QED BY <2>1, <2>2 DEF T!PositionsAgree
<1>7. T!SpanAligned(s, r)
  <2> DEFINE runes == T!Matches(s, r)
  <2> DEFINE found == T!Matches(u, v)
  <2>1. r = <<>> <=> v = <<>>
    <3>1. Len(v) = q[Len(r)] /\ v \in Seq(Nat)
      BY <1>3 DEF Encoding
    <3>2. q[0] = 0 /\ (0 < Len(r) => q[0] < q[Len(r)])
      BY <1>2, OffsetsRise
    <3> HIDE DEF v
    <3> QED BY <3>1, <3>2
  <2>2. CASE r = <<>>
    BY <2>1, <2>2 DEF T!SpanAligned, T!MentionSpan
  <2>3. CASE r # <<>>
    <3>1. \A i \in runes : o[i] \in found
      BY <1>1, <1>2, <1>3, RunesToUnits
    <3>2. \A p \in found : \E i \in runes : p = o[i]
      BY <1>1, <1>2, <1>3, <2>3, UnitsToRunes
    <3>3. CASE runes = {}
      <4>1. found = {}
        BY <3>2, <3>3
      <4>2. T!MentionSpan(s, r) = {}
        BY <4>1 DEF T!MentionSpan, T!Search
      <4> QED BY <3>3, <4>2 DEF T!SpanAligned
    <3>4. CASE runes # {}
      <4>1. runes \in SUBSET Nat /\ runes \subseteq 0 .. Len(s)
        BY DEF T!Matches
      <4>2. found # {} /\ found \in SUBSET Nat
        <5>1. found \in SUBSET Nat
          BY DEF T!Matches
        <5> HIDE DEF runes, found
        <5> QED BY <3>1, <3>4, <5>1
      <4> HIDE DEF runes, found
      <4> DEFINE i == T!First(runes)
      <4>3. i \in runes /\ \A k \in runes : i <= k
        BY <3>4, <4>1, FirstLeast
      <4>4. T!First(found) \in found /\ \A p \in found : T!First(found) <= p
        BY <4>2, FirstLeast
      <4>5. T!First(found) = o[i]
        <5>1. PICK k \in runes : T!First(found) = o[k]
          BY <3>2, <4>4
        <5>2. o[k] <= o[i]
          BY <3>1, <4>3, <4>4, <5>1
        <5>3. i <= k
          BY <4>3
        <5> HIDE DEF i
        <5>4. i \in 0 .. Len(s) /\ k \in 0 .. Len(s)
          BY <4>1, <4>3
        <5>5. (i < k => o[i] < o[k]) /\ o[i] \in Nat /\ o[k] \in Nat
          BY <1>1, <5>4, OffsetsRise
        <5>6. i = k
          BY <5>2, <5>3, <5>4, <5>5
        <5> QED BY <5>1, <5>6
      <4>6. T!RuneIndexToUTF16(s, i) = o[i]
        <5> HIDE DEF i
        <5>1. i \in 0 .. Len(s)
          BY <4>1, <4>3
        <5>2. ~(i > Len(s))
          BY <5>1
        <5> QED BY <1>4, <5>1, <5>2 DEF T!RuneIndexToUTF16
      <4>7. Len(v) = T!UTF16Len(r)
        BY <1>3, <1>5 DEF Encoding
      <4>8. T!MentionSpan(s, r) = {<<T!First(found), T!First(found) + Len(v)>>}
        <5>1. v # <<>>
          BY <2>1, <2>3
        <5> QED BY <4>2, <5>1 DEF T!MentionSpan, T!Search, found
      <4> HIDE DEF u, v
      <4>9. T!MentionSpan(s, r) = {<<T!RuneIndexToUTF16(s, i), T!RuneIndexToUTF16(s, i) + T!UTF16Len(r)>>}
        BY <4>5, <4>6, <4>7, <4>8
      <4> QED BY <2>3, <3>4, <4>9 DEF T!SpanAligned, runes, i
    <3> QED BY <3>3, <3>4
  <2> QED BY <2>2, <2>3
<1> QED BY <1>6, <1>7 DEF T!OffsetsAgree

\* In the run: the texts are sequences of runes.
THEOREM OffsetsCorrect == MCSpec => []OffsetsAgree
<1> DEFINE TextInv == part = "text" => text \in Seq(T!Rune) /\ sub \in Seq(T!Rune)
<1>1. Alphabet \subseteq T!Rune
  <2>1. 0 \in T!Rune /\ 1 \in T!Rune /\ Plane \in T!Rune
    <3>1. Half * Half >= 2 * Half /\ Half * Half \in Nat
      BY TextAssumption
    <3> QED BY <3>1, TextAssumption DEF T!Rune
  <2>2. Plane + 1 \in T!Rune /\ Plane + Half \in T!Rune
    <3>1. Half * Half >= 2 * Half /\ Half * Half \in Nat
      BY TextAssumption
    <3> QED BY <3>1, TextAssumption DEF T!Rune
  <2> QED BY <2>1, <2>2 DEF Alphabet
<1>2. \A n : \A t \in Texts(n) : t \in Seq(T!Rune)
  <2> SUFFICES ASSUME NEW n, NEW t \in Texts(n) PROVE t \in Seq(T!Rune)
    OBVIOUS
  <2>1. PICK k \in 0 .. n : t \in [1 .. k -> Alphabet]
    BY DEF Texts
  <2>2. k \in Nat
    BY <2>1
  <2>3. \A j \in 1 .. k : t[j] \in T!Rune
    BY <1>1, <2>1
  <2>4. t = [j \in 1 .. k |-> t[j]]
    BY <2>1
  <2> QED BY <2>2, <2>3, <2>4
<1>3. MCInit => TextInv
  <2> SUFFICES ASSUME MCInit, part = "text" PROVE text \in Seq(T!Rune) /\ sub \in Seq(T!Rune)
    OBVIOUS
  <2>1. text \in Texts(MaxText) /\ sub \in Texts(MaxSub)
    BY DEF MCInit
  <2> QED BY <1>2, <2>1
<1>4. TextInv /\ [MCNext]_<<part, textVars, idVars, vars>> => TextInv'
  BY DEF MCNext, textVars
<1>5. TextInv => OffsetsAgree
  BY AllOffsetsAgree DEF OffsetsAgree
<1> QED BY <1>3, <1>4, <1>5, PTL DEF MCSpec

----------------------------------------------------------------------------
(* Numbers in a frame.                                                     *)

\* The remainder is the only number below the divisor.
LEMMA Remainder ==
    ASSUME NEW b \in Nat, b > 0, NEW x \in Nat, NEW y \in 0 .. b - 1
    PROVE  (b * x + y) % b = y
<1> DEFINE n == b * x + y
<1>1. n \in Nat
  OBVIOUS
<1>2. n \div b = x
  BY Quotient
<1> HIDE DEF n
<1>3. n = b * (n \div b) + (n % b) /\ n % b \in 0 .. b - 1
  BY <1>1, Division
<1>4. n = b * x + (n % b)
  BY <1>2, <1>3
<1> DEFINE r == n % b
<1> DEFINE p == b * x
<1>5. p \in Nat /\ n = p + r /\ n = p + y /\ r \in Nat
  BY <1>3, <1>4 DEF n
<1> HIDE DEF r, p
<1>6. r = y
  BY <1>5
<1> QED BY <1>6 DEF n, r

\* A number below the divisor is its own remainder.
LEMMA OwnRemainder ==
    ASSUME NEW b \in Nat, NEW y \in 0 .. b - 1
    PROVE  y % b = y /\ y \div b = 0
<1>1. b > 0 /\ b * 0 + y = y
  OBVIOUS
<1>2. (b * 0 + y) % b = y /\ (b * 0 + y) \div b = 0
  BY <1>1, Remainder, Quotient
<1> QED BY <1>1, <1>2

\* A function with the recursion of BigEndian.
Valued(f, b) == f = [i \in 0 .. Len(b) |-> IF i = 0 THEN 0 ELSE f[i - 1] * Base + b[i]]

\* There is such a function.
LEMMA ValuedExists ==
    ASSUME NEW b, Len(b) \in Nat
    PROVE  \E f : Valued(f, b)
<1> DEFINE Row(g, i) == IF i = 0 THEN 0 ELSE g[i - 1] * Base + b[i]
<1> DEFINE W == {n \in Nat : \E f : f = [i \in 0 .. n |-> Row(f, i)]}
<1>1. 0 \in W
  <2> DEFINE h == [i \in 0 .. 0 |-> 0]
  <2>1. h = [i \in 0 .. 0 |-> Row(h, i)]
    OBVIOUS
  <2> HIDE DEF h
  <2> QED BY <2>1
<1>2. \A n \in W : n + 1 \in W
  <2> TAKE n \in W
  <2>1. n \in Nat
    OBVIOUS
  <2>2. PICK g : g = [i \in 0 .. n |-> Row(g, i)]
    OBVIOUS
  <2> DEFINE h == [i \in 0 .. n + 1 |-> IF i = n + 1 THEN Row(g, n + 1) ELSE g[i]]
  <2>3. \A i \in 0 .. n + 1 : h[i] = Row(h, i)
    <3> SUFFICES ASSUME NEW i \in 0 .. n + 1 PROVE h[i] = Row(h, i)
      OBVIOUS
    <3>1. i # 0 => i - 1 \in 0 .. n /\ i - 1 # n + 1 /\ i - 1 \in 0 .. n + 1
      BY <2>1
    <3>2. i # 0 => h[i - 1] = g[i - 1]
      BY <3>1
    <3>3. h[i] = Row(g, i)
      <4>1. CASE i = n + 1
        BY <4>1
      <4>2. CASE i # n + 1
        <5>1. i \in 0 .. n /\ h[i] = g[i]
          BY <2>1, <4>2
        <5>2. g[i] = Row(g, i)
          BY <2>2, <5>1
        <5> QED BY <5>1, <5>2
      <4> QED BY <4>1, <4>2
    <3> HIDE DEF h
    <3> QED BY <3>2, <3>3
  <2>4. h = [i \in 0 .. n + 1 |-> h[i]]
    OBVIOUS
  <2> HIDE DEF h
  <2>5. h = [i \in 0 .. n + 1 |-> Row(h, i)]
    BY <2>3, <2>4
  <2> HIDE DEF Row
  <2> QED BY <2>1, <2>5
<1>3. W \in SUBSET Nat
  OBVIOUS
<1> HIDE DEF W
<1>4. W = Nat
  BY <1>1, <1>2, <1>3, Induction
<1> QED BY <1>4 DEF W, Valued

\* BigEndian is the last value of one.
LEMMA BigEndianStep ==
    ASSUME NEW b, Len(b) \in Nat
    PROVE  \E f : /\ BigEndian(b) = f[Len(b)] /\ f[0] = 0
                  /\ \A i \in 1 .. Len(b) : f[i] = f[i - 1] * Base + b[i]
<1> DEFINE g == CHOOSE f : f = [i \in 0 .. Len(b) |-> IF i = 0 THEN 0 ELSE f[i - 1] * Base + b[i]]
<1>1. Valued(g, b)
  BY ValuedExists DEF Valued
<1>2. BigEndian(b) = g[Len(b)]
  BY DEF BigEndian
<1> HIDE DEF g
<1>3. \A i \in 0 .. Len(b) : g[i] = IF i = 0 THEN 0 ELSE g[i - 1] * Base + b[i]
  BY <1>1 DEF Valued
<1>4. 0 \in 0 .. Len(b) /\ \A i \in 1 .. Len(b) : i \in 0 .. Len(b) /\ i # 0
  OBVIOUS
<1>5. g[0] = 0 /\ \A i \in 1 .. Len(b) : g[i] = g[i - 1] * Base + b[i]
  BY <1>3, <1>4
<1> QED BY <1>2, <1>5

\* Of two bytes.
LEMMA BigEndian2 ==
    ASSUME NEW b, Len(b) = 2, NEW x \in Nat, NEW y \in Nat, b[1] = x, b[2] = y
    PROVE  BigEndian(b) = x * Base + y
<1>1. Len(b) = 2 /\ b[1] = x /\ b[2] = y
  OBVIOUS
<1>2. PICK f : BigEndian(b) = f[2] /\ f[0] = 0 /\ \A i \in 1 .. 2 : f[i] = f[i - 1] * Base + b[i]
  <2>1. Len(b) \in Nat
    BY <1>1
  <2>2. \E f : /\ BigEndian(b) = f[Len(b)] /\ f[0] = 0
               /\ \A i \in 1 .. Len(b) : f[i] = f[i - 1] * Base + b[i]
    BY <2>1, BigEndianStep
  <2> QED BY <1>1, <2>2
<1>3. f[1] = f[1 - 1] * Base + x /\ f[2] = f[2 - 1] * Base + y /\ 1 - 1 = 0 /\ 2 - 1 = 1
  BY <1>1, <1>2
<1>4. 0 * Base + x = x
  BY BaseAssumption
<1>5. f[2] = x * Base + y
  BY <1>2, <1>3, <1>4
<1> QED BY <1>2, <1>5

\* Of four bytes.
LEMMA BigEndian4 ==
    ASSUME NEW b, Len(b) = 4, NEW w \in Nat, NEW x \in Nat, NEW y \in Nat, NEW z \in Nat,
           b[1] = w, b[2] = x, b[3] = y, b[4] = z
    PROVE  BigEndian(b) = ((w * Base + x) * Base + y) * Base + z
<1>1. Len(b) = 4 /\ b[1] = w /\ b[2] = x /\ b[3] = y /\ b[4] = z
  OBVIOUS
<1>2. PICK f : BigEndian(b) = f[4] /\ f[0] = 0 /\ \A i \in 1 .. 4 : f[i] = f[i - 1] * Base + b[i]
  <2>1. Len(b) \in Nat
    BY <1>1
  <2>2. \E f : /\ BigEndian(b) = f[Len(b)] /\ f[0] = 0
               /\ \A i \in 1 .. Len(b) : f[i] = f[i - 1] * Base + b[i]
    BY <2>1, BigEndianStep
  <2> QED BY <1>1, <2>2
<1>3. /\ f[1] = f[1 - 1] * Base + w /\ f[2] = f[2 - 1] * Base + x /\ f[3] = f[3 - 1] * Base + y
      /\ f[4] = f[4 - 1] * Base + z /\ 1 - 1 = 0 /\ 2 - 1 = 1 /\ 3 - 1 = 2 /\ 4 - 1 = 3
  BY <1>1, <1>2
<1>4. 0 * Base + w = w
  BY BaseAssumption
<1>5. f[1] = w
  BY <1>2, <1>3, <1>4
<1>6. f[2] = w * Base + x
  BY <1>3, <1>5
<1>7. f[3] = (w * Base + x) * Base + y
  BY <1>3, <1>6
<1> QED BY <1>2, <1>3, <1>7

\* The leading zeros of a field of eight bytes do not count.
LEMMA BigEndian8 ==
    ASSUME NEW b, Len(b) = 8, NEW w \in Nat, NEW x \in Nat, NEW y \in Nat, NEW z \in Nat,
           \A i \in 1 .. 4 : b[i] = 0, b[5] = w, b[6] = x, b[7] = y, b[8] = z
    PROVE  BigEndian(b) = ((w * Base + x) * Base + y) * Base + z
<1>1. Len(b) = 8 /\ \A i \in 1 .. 4 : b[i] = 0
  OBVIOUS
<1>2. b[5] = w /\ b[6] = x /\ b[7] = y /\ b[8] = z
  OBVIOUS
<1>3. PICK f : BigEndian(b) = f[8] /\ f[0] = 0 /\ \A i \in 1 .. 8 : f[i] = f[i - 1] * Base + b[i]
  <2>1. Len(b) \in Nat
    BY <1>1
  <2>2. \E f : /\ BigEndian(b) = f[Len(b)] /\ f[0] = 0
               /\ \A i \in 1 .. Len(b) : f[i] = f[i - 1] * Base + b[i]
    BY <2>1, BigEndianStep
  <2> QED BY <1>1, <2>2
<1>4. f[1] = f[0] * Base + b[1] /\ f[2] = f[1] * Base + b[2] /\ f[3] = f[2] * Base + b[3] /\ f[4] = f[3] * Base + b[4]
  <2>1. 1 - 1 = 0 /\ 2 - 1 = 1 /\ 3 - 1 = 2 /\ 4 - 1 = 3
    OBVIOUS
  <2>2. 1 \in 1 .. 8 /\ 2 \in 1 .. 8 /\ 3 \in 1 .. 8 /\ 4 \in 1 .. 8
    OBVIOUS
  <2> QED BY <1>3, <2>1, <2>2
<1>5. f[5] = f[4] * Base + b[5] /\ f[6] = f[5] * Base + b[6] /\ f[7] = f[6] * Base + b[7] /\ f[8] = f[7] * Base + b[8]
  <2>1. 5 - 1 = 4 /\ 6 - 1 = 5 /\ 7 - 1 = 6 /\ 8 - 1 = 7
    OBVIOUS
  <2>2. 5 \in 1 .. 8 /\ 6 \in 1 .. 8 /\ 7 \in 1 .. 8 /\ 8 \in 1 .. 8
    OBVIOUS
  <2> QED BY <1>3, <2>1, <2>2
<1>6. 0 * Base + 0 = 0 /\ 0 * Base + w = w
  BY BaseAssumption
<1>7. f[4] = 0
  <2>1. f[1] = 0
    BY <1>1, <1>3, <1>4, <1>6
  <2>2. f[2] = 0
    BY <1>1, <1>4, <1>6, <2>1
  <2>3. f[3] = 0
    BY <1>1, <1>4, <1>6, <2>2
  <2> QED BY <1>1, <1>4, <1>6, <2>3
<1>8. f[5] = w
  BY <1>2, <1>5, <1>6, <1>7
<1>9. f[6] = w * Base + x
  BY <1>2, <1>5, <1>8
<1>10. f[7] = (w * Base + x) * Base + y
  BY <1>2, <1>5, <1>9
<1> QED BY <1>2, <1>3, <1>5, <1>10

\* A number below Base^2 is read back from two bytes; a larger one is cut to them.
LEMMA Uint16Value ==
    ASSUME NEW n \in Nat
    PROVE  /\ Uint16(n) \in Seq(Byte) /\ Len(Uint16(n)) = 2
           /\ BigEndian(Uint16(n)) = n % (Base * Base)
           /\ n < Base * Base => BigEndian(Uint16(n)) = n
<1>1. Base \in Nat /\ Base > 0 /\ Base * Base \in Nat /\ Base * Base > 0
  BY PrefixBytes
<1> DEFINE q == n \div Base
<1> DEFINE r == n % Base
<1>2. q \in Nat /\ r \in 0 .. Base - 1 /\ n = Base * q + r
  BY <1>1, Division
<1> DEFINE c == q \div Base
<1> DEFINE s == q % Base
<1>3. Uint16(n) = <<s, r>>
  BY DEF Uint16
<1> HIDE DEF q, r
<1>4. c \in Nat /\ s \in 0 .. Base - 1 /\ q = Base * c + s
  BY <1>1, <1>2, Division
<1> HIDE DEF c, s
<1>5. BigEndian(Uint16(n)) = s * Base + r
  BY <1>2, <1>3, <1>4, BigEndian2
<1>6. s * Base + r \in 0 .. (Base * Base) - 1
  <2>1. s * Base <= (Base - 1) * Base /\ (Base - 1) * Base = Base * Base - Base /\ s * Base \in Nat
    BY <1>1, <1>4
  <2> DEFINE p == s * Base
  <2> DEFINE bb == Base * Base
  <2>2. p \in Nat /\ bb \in Nat /\ p <= bb - Base
    BY <1>1, <2>1
  <2> HIDE DEF p, bb
  <2>3. p + r \in 0 .. bb - 1
    BY <1>1, <1>2, <2>2
  <2> QED BY <2>3 DEF p, bb
<1>7. n = (Base * Base) * c + (s * Base + r)
  <2>1. Base * (Base * c + s) = (Base * Base) * c + s * Base
    BY <1>1, <1>4
  <2> DEFINE p == s * Base
  <2> DEFINE m == (Base * Base) * c
  <2>2. p \in Nat /\ m \in Nat /\ n = (m + p) + r
    BY <1>1, <1>2, <1>4, <2>1
  <2> HIDE DEF p, m
  <2>3. n = m + (p + r)
    BY <1>2, <2>2
  <2> QED BY <2>3 DEF p, m
<1>8. n % (Base * Base) = s * Base + r
  <2> DEFINE y == s * Base + r
  <2> DEFINE bb == Base * Base
  <2>1. y \in 0 .. bb - 1 /\ n = bb * c + y /\ bb \in Nat /\ bb > 0
    BY <1>1, <1>6, <1>7
  <2> HIDE DEF y, bb
  <2>2. n % bb = y
    BY <1>4, <2>1, Remainder
  <2> QED BY <2>2 DEF y, bb
<1>9. n < Base * Base => n % (Base * Base) = n
  <2> DEFINE bb == Base * Base
  <2>1. bb \in Nat
    BY <1>1
  <2> HIDE DEF bb
  <2>2. n < bb => n % bb = n
    BY <2>1, OwnRemainder
  <2> QED BY <2>2 DEF bb
<1>10. Uint16(n) \in Seq(Byte) /\ Len(Uint16(n)) = 2
  <2>1. s \in Byte /\ r \in Byte
    BY <1>2, <1>4 DEF Byte
  <2> QED BY <1>3, <2>1
<1> QED BY <1>5, <1>8, <1>9, <1>10

\* The two bytes of a number, one at a time.
LEMMA TwoBytes ==
    ASSUME NEW u \in Seq(Byte), Len(u) = 2
    PROVE  u[1] \in Byte /\ u[2] \in Byte
<1>1. \A i \in 1 .. Len(u) : u[i] \in Byte
  BY ElementOfSeq
<1>2. 1 \in 1 .. Len(u) /\ 2 \in 1 .. Len(u)
  OBVIOUS
<1> QED BY <1>1, <1>2

\* A number below Base^4 is read back from four bytes, and from eight.
LEMMA Uint32Value ==
    ASSUME NEW n \in Nat, n < Base * Base * Base * Base
    PROVE  /\ Uint32(n) \in Seq(Byte) /\ Len(Uint32(n)) = 4
           /\ BigEndian(Uint32(n)) = n
           /\ BigEndian(Zeros(4) \o Uint32(n)) = n
<1> DEFINE bb == Base * Base
<1>1. Base \in Nat /\ bb \in Nat /\ bb > 0
  BY PrefixBytes
<1> DEFINE h == n \div bb
<1> DEFINE l == n % bb
<1>2. Uint32(n) = Uint16(h) \o Uint16(n)
  BY DEF Uint32
<1>3. bb * bb = Base * Base * Base * Base
  BY <1>1
<1>4. BigEndian(Uint16(n)) = l /\ Uint16(n) \in Seq(Byte) /\ Len(Uint16(n)) = 2
  BY Uint16Value
<1> HIDE DEF bb
<1>5. h \in Nat /\ l \in 0 .. bb - 1 /\ n = bb * h + l
  BY <1>1, Division
<1> HIDE DEF h, l
<1>6. h < bb
  <2> SUFFICES ASSUME h >= bb PROVE FALSE
    BY <1>1, <1>5
  <2>1. bb * h >= bb * bb
    BY <1>1, <1>5
  <2> QED BY <1>1, <1>3, <1>5, <2>1
<1>7. BigEndian(Uint16(h)) = h /\ Uint16(h) \in Seq(Byte) /\ Len(Uint16(h)) = 2
  BY <1>5, <1>6, Uint16Value DEF bb
<1> DEFINE w == Uint16(h)[1]
<1> DEFINE x == Uint16(h)[2]
<1> DEFINE y == Uint16(n)[1]
<1> DEFINE z == Uint16(n)[2]
<1>8. w \in Byte /\ x \in Byte /\ y \in Byte /\ z \in Byte
  BY <1>4, <1>7, TwoBytes
<1>9. w \in Nat /\ x \in Nat /\ y \in Nat /\ z \in Nat
  BY <1>1, <1>8 DEF Byte
<1> HIDE DEF w, x, y, z
<1>10. w * Base + x = h /\ y * Base + z = l
  <2>1. BigEndian(Uint16(h)) = w * Base + x
    BY <1>7, <1>9, BigEndian2 DEF w, x
  <2>2. BigEndian(Uint16(n)) = y * Base + z
    BY <1>4, <1>9, BigEndian2 DEF y, z
  <2> QED BY <1>4, <1>7, <2>1, <2>2
<1> DEFINE b == Uint32(n)
<1>11. /\ b \in Seq(Byte) /\ Len(b) = 4
       /\ b[1] = w /\ b[2] = x /\ b[3] = y /\ b[4] = z
  <2> DEFINE u == Uint16(h)
  <2> DEFINE v == Uint16(n)
  <2>1. u \in Seq(Byte) /\ Len(u) = 2 /\ v \in Seq(Byte) /\ Len(v) = 2 /\ b = u \o v
    BY <1>2, <1>4, <1>7
  <2>2. w = u[1] /\ x = u[2] /\ y = v[1] /\ z = v[2]
    BY DEF w, x, y, z
  <2> HIDE DEF u, v, b
  <2>3. /\ u \o v \in Seq(Byte) /\ Len(u \o v) = Len(u) + Len(v)
        /\ \A i \in 1 .. Len(u) + Len(v) : (u \o v)[i] = IF i <= Len(u) THEN u[i] ELSE v[i - Len(u)]
    BY <2>1, ConcatProperties
  <2>4. b[1] = u[1] /\ b[2] = u[2] /\ b[3] = v[3 - 2] /\ b[4] = v[4 - 2]
    BY <2>1, <2>3
  <2>5. 3 - 2 = 1 /\ 4 - 2 = 2
    OBVIOUS
  <2> QED BY <2>1, <2>2, <2>3, <2>4, <2>5
<1>12. /\ Len(Zeros(4) \o b) = 8 /\ \A i \in 1 .. 4 : (Zeros(4) \o b)[i] = 0
       /\ \A i \in 1 .. 4 : (Zeros(4) \o b)[i + 4] = b[i]
  <2>1. Zeros(4) \in Seq(Byte) /\ Len(Zeros(4)) = 4 /\ \A i \in 1 .. 4 : Zeros(4)[i] = 0
    BY <1>1 DEF Zeros, Byte
  <2> HIDE DEF b
  <2> DEFINE u == Zeros(4)
  <2> HIDE DEF u
  <2>2. u \in Seq(Byte) /\ Len(u) = 4 /\ \A i \in 1 .. 4 : u[i] = 0
    BY <2>1 DEF u
  <2>3. /\ Len(u \o b) = Len(u) + Len(b)
        /\ \A i \in 1 .. Len(u) + Len(b) : (u \o b)[i] = IF i <= Len(u) THEN u[i] ELSE b[i - Len(u)]
    BY <1>11, <2>2, ConcatProperties
  <2>4. \A i \in 1 .. 4 : (i + 4) - 4 = i /\ i + 4 \in 1 .. 4 + 4 /\ ~(i + 4 <= 4) /\ i \in 1 .. 4 + 4 /\ i <= 4
    OBVIOUS
  <2>5. Len(u \o b) = 4 + 4 /\ \A i \in 1 .. 4 + 4 : (u \o b)[i] = IF i <= 4 THEN u[i] ELSE b[i - 4]
    BY <1>11, <2>2, <2>3
  <2>6. \A i \in 1 .. 4 : (u \o b)[i] = 0 /\ (u \o b)[i + 4] = b[i]
    <3> DEFINE c == u \o b
    <3> HIDE DEF c
    <3>1. \A i \in 1 .. 4 + 4 : c[i] = IF i <= 4 THEN u[i] ELSE b[i - 4]
      BY <2>5 DEF c
    <3>2. \A i \in 1 .. 4 : c[i] = 0 /\ c[i + 4] = b[(i + 4) - 4]
      BY <2>2, <2>4, <3>1
    <3>3. \A i \in 1 .. 4 : c[i] = 0 /\ c[i + 4] = b[i]
      BY <2>4, <3>2
    <3> QED BY <3>3 DEF c
  <2>7. Len(u \o b) = 8
    BY <2>5
  <2> QED BY <2>6, <2>7 DEF u
<1> HIDE DEF b
<1>13. ((w * Base + x) * Base + y) * Base + z = n
  <2>1. (h * Base + y) * Base + z = (h * Base) * Base + (y * Base + z)
    <3> DEFINE k == h * Base
    <3>1. k \in Nat
      BY <1>1, <1>5
    <3> HIDE DEF k
    <3>2. (k + y) * Base = k * Base + y * Base
      BY <1>1, <1>9, <3>1
    <3>3. k * Base \in Nat /\ y * Base \in Nat
      BY <1>1, <1>9, <3>1
    <3>4. (k + y) * Base + z = k * Base + (y * Base + z)
      BY <1>9, <3>2, <3>3
    <3> QED BY <3>4 DEF k
  <2>2. (h * Base) * Base = bb * h
    BY <1>1, <1>5 DEF bb
  <2> QED BY <1>5, <1>10, <2>1, <2>2
<1>14. BigEndian(b) = n
  BY <1>9, <1>11, <1>13, BigEndian4
<1>15. BigEndian(Zeros(4) \o b) = n
  <2> DEFINE c == Zeros(4) \o b
  <2>1. Len(c) = 8 /\ (\A i \in 1 .. 4 : c[i] = 0) /\ c[5] = w /\ c[6] = x /\ c[7] = y /\ c[8] = z
    BY SMTT(30), <1>11, <1>12
  <2> HIDE DEF c
  <2>2. BigEndian(c) = n
    BY <1>9, <1>13, <2>1, BigEndian8
  <2> QED BY <2>2 DEF c
<1> QED BY <1>11, <1>14, <1>15 DEF b

----------------------------------------------------------------------------
(* Masking.                                                                *)

\* A function with the recursion of Xor.
Xored(f, x, y) ==
    f = [a \in 0 .. x |->
            [b \in 0 .. y |-> IF a = 0 \/ b = 0 THEN a + b
                              ELSE 2 * f[a \div 2][b \div 2] + ((a + b) % 2)]]

\* What the recursion says of one pair of numbers.
LEMMA XoredStep ==
    ASSUME NEW x \in Nat, NEW y \in Nat, NEW f, Xored(f, x, y), NEW a \in 0 .. x, NEW b \in 0 .. y
    PROVE  f[a][b] = IF a = 0 \/ b = 0 THEN a + b
                     ELSE 2 * f[a \div 2][b \div 2] + ((a + b) % 2)
<1>1. f[a] = [c \in 0 .. y |-> IF a = 0 \/ c = 0 THEN a + c
                               ELSE 2 * f[a \div 2][c \div 2] + ((a + c) % 2)]
  BY DEF Xored
<1> QED BY <1>1

\* There is such a function.
LEMMA XoredExists ==
    ASSUME NEW y \in Nat
    PROVE  \A n \in Nat : \E f : Xored(f, n, y)
<1> DEFINE W == {n \in Nat : \E f : Xored(f, n, y)}
<1> DEFINE Row(g, a) ==
        [b \in 0 .. y |-> IF a = 0 \/ b = 0 THEN a + b
                          ELSE 2 * g[a \div 2][b \div 2] + ((a + b) % 2)]
<1>1. 0 \in W
  <2> DEFINE h == [a \in 0 .. 0 |-> [b \in 0 .. y |-> a + b]]
  <2>1. \A a \in 0 .. 0 : h[a] = Row(h, a)
    OBVIOUS
  <2>2. Xored(h, 0, y)
    BY <2>1 DEF Xored
  <2> HIDE DEF h
  <2> QED BY <2>2
<1>2. \A n \in W : n + 1 \in W
  <2> TAKE n \in W
  <2>1. PICK g : Xored(g, n, y)
    OBVIOUS
  <2> DEFINE h == [a \in 0 .. n + 1 |-> IF a = n + 1 THEN Row(g, n + 1) ELSE g[a]]
  <2>2. \A a \in 0 .. n + 1 : h[a] = Row(h, a)
    <3> SUFFICES ASSUME NEW a \in 0 .. n + 1 PROVE h[a] = Row(h, a)
      OBVIOUS
    <3>1. a # 0 => a \div 2 \in 0 .. n
      OBVIOUS
    <3>2. a # 0 => h[a \div 2] = g[a \div 2]
      BY <3>1
    <3>3. CASE a = n + 1
      <4>1. h[a] = Row(g, n + 1)
        BY <3>3
      <4> HIDE DEF h
      <4>2. Row(h, n + 1) = Row(g, n + 1)
        BY <3>2, <3>3
      <4> QED BY <3>3, <4>1, <4>2
    <3>4. CASE a # n + 1
      <4>1. a \in 0 .. n
        BY <3>4
      <4>2. g[a] = Row(g, a)
        BY <2>1, <4>1 DEF Xored
      <4>3. h[a] = g[a]
        BY <4>1
      <4> HIDE DEF h
      <4>4. Row(h, a) = Row(g, a)
        BY <3>2
      <4> QED BY <4>2, <4>3, <4>4
    <3> QED BY <3>3, <3>4
  <2>3. h = [a \in 0 .. n + 1 |-> h[a]]
    OBVIOUS
  <2> HIDE DEF h
  <2>4. Xored(h, n + 1, y)
    BY <2>2, <2>3 DEF Xored
  <2> QED BY <2>4
<1>3. W \in SUBSET Nat
  OBVIOUS
<1> HIDE DEF W
<1>4. W = Nat
  BY <1>1, <1>2, <1>3, Induction
<1> QED BY <1>4 DEF W

\* Whatever the bounds, it has the same values.
LEMMA XoredSame ==
    ASSUME NEW x \in Nat, NEW y \in Nat, NEW f, Xored(f, x, y),
           NEW u \in Nat, NEW v \in Nat, NEW g, Xored(g, u, v)
    PROVE  \A a, b \in Nat : a <= x /\ b <= y /\ a <= u /\ b <= v => f[a][b] = g[a][b]
<1> DEFINE Same(a) == \A b \in Nat : a <= x /\ b <= y /\ a <= u /\ b <= v => f[a][b] = g[a][b]
<1> DEFINE W == {a \in Nat : Same(a)}
<1>1. ASSUME NEW a \in Nat, \A m \in 0 .. a - 1 : m \in W PROVE a \in W
  <2> SUFFICES ASSUME NEW b \in Nat, a <= x, b <= y, a <= u, b <= v PROVE f[a][b] = g[a][b]
    OBVIOUS
  <2>1. a \in 0 .. x /\ b \in 0 .. y /\ a \in 0 .. u /\ b \in 0 .. v
    OBVIOUS
  <2>2. f[a][b] = IF a = 0 \/ b = 0 THEN a + b ELSE 2 * f[a \div 2][b \div 2] + ((a + b) % 2)
    BY <2>1, XoredStep
  <2>3. g[a][b] = IF a = 0 \/ b = 0 THEN a + b ELSE 2 * g[a \div 2][b \div 2] + ((a + b) % 2)
    BY <2>1, XoredStep
  <2>4. CASE a = 0 \/ b = 0
    BY <2>2, <2>3, <2>4
  <2>5. CASE ~(a = 0 \/ b = 0)
    <3>1. /\ a \div 2 \in 0 .. a - 1 /\ b \div 2 \in Nat
          /\ a \div 2 <= x /\ b \div 2 <= y /\ a \div 2 <= u /\ b \div 2 <= v
      BY <2>1, <2>5
    <3>2. Same(a \div 2)
      BY <1>1, <3>1
    <3>3. f[a \div 2][b \div 2] = g[a \div 2][b \div 2]
      BY <3>1, <3>2
    <3> QED BY <2>2, <2>3, <2>5, <3>3
  <2> QED BY <2>4, <2>5
<1>2. W \in SUBSET Nat
  OBVIOUS
<1>3. W = Nat
  <2> HIDE DEF W
  <2> QED BY <1>1, <1>2, StrongInduction
<1>4. \A a \in Nat : Same(a)
  BY <1>3
<1> QED BY <1>4

\* The recursion, without the function.
LEMMA XorStep ==
    ASSUME NEW x \in Nat, NEW y \in Nat
    PROVE  Xor(x, y) = IF x = 0 \/ y = 0 THEN x + y ELSE 2 * Xor(x \div 2, y \div 2) + ((x + y) % 2)
<1> DEFINE Fun(m, n) == CHOOSE f : f = [a \in 0 .. m |->
            [b \in 0 .. n |-> IF a = 0 \/ b = 0 THEN a + b
                              ELSE 2 * f[a \div 2][b \div 2] + ((a + b) % 2)]]
<1>1. ASSUME NEW m \in Nat, NEW n \in Nat
      PROVE  Xored(Fun(m, n), m, n) /\ Xor(m, n) = Fun(m, n)[m][n]
  <2>1. Xored(Fun(m, n), m, n)
    BY <1>1, XoredExists DEF Xored
  <2>2. Xor(m, n) = Fun(m, n)[m][n]
    BY DEF Xor
  <2> QED BY <2>1, <2>2
<1> HIDE DEF Fun
<1> DEFINE f == Fun(x, y)
<1>2. Xored(f, x, y) /\ Xor(x, y) = f[x][y]
  BY <1>1
<1> HIDE DEF f
<1>3. f[x][y] = IF x = 0 \/ y = 0 THEN x + y ELSE 2 * f[x \div 2][y \div 2] + ((x + y) % 2)
  <2>1. x \in 0 .. x /\ y \in 0 .. y
    OBVIOUS
  <2> QED BY <1>2, <2>1, XoredStep
<1>4. f[x \div 2][y \div 2] = Xor(x \div 2, y \div 2)
  <2>1. PICK u \in Nat : u = x \div 2
    OBVIOUS
  <2>2. PICK v \in Nat : v = y \div 2
    OBVIOUS
  <2> DEFINE g == Fun(u, v)
  <2>3. Xored(g, u, v) /\ Xor(u, v) = g[u][v]
    BY <1>1
  <2> HIDE DEF g
  <2>4. u <= x /\ v <= y /\ u <= u /\ v <= v
    BY <2>1, <2>2
  <2>5. f[u][v] = g[u][v]
    BY <1>2, <2>3, <2>4, XoredSame
  <2> QED BY <2>1, <2>2, <2>3, <2>5
<1> QED BY <1>2, <1>3, <1>4

\* A number is its own inverse.
LEMMA XorSelf == \A b \in Nat : Xor(b, b) = 0
<1> DEFINE W == {b \in Nat : Xor(b, b) = 0}
<1>1. ASSUME NEW b \in Nat, \A m \in 0 .. b - 1 : m \in W PROVE b \in W
  <2>1. Xor(b, b) = IF b = 0 THEN b + b ELSE 2 * Xor(b \div 2, b \div 2) + ((b + b) % 2)
    BY XorStep
  <2>2. CASE b = 0
    BY <2>1, <2>2
  <2>3. CASE b # 0
    <3>1. b \div 2 \in 0 .. b - 1
      BY <2>3
    <3>2. Xor(b \div 2, b \div 2) = 0
      BY <1>1, <3>1
    <3>3. (b + b) % 2 = 0
      OBVIOUS
    <3>4. Xor(b, b) = 2 * 0 + 0
      BY <2>1, <2>3, <3>2, <3>3
    <3> QED BY <3>4
  <2> QED BY <2>2, <2>3
<1>2. W \in SUBSET Nat
  OBVIOUS
<1>3. W = Nat
  <2> HIDE DEF W
  <2> QED BY <1>1, <1>2, StrongInduction
<1> QED BY <1>3

\* Masking twice with the same key gives back the data.
LEMMA XorTwice == \A a \in Nat : \A b \in Nat : Xor(a, b) \in Nat /\ Xor(Xor(a, b), b) = a
<1> DEFINE Good(a) == \A b \in Nat : Xor(a, b) \in Nat /\ Xor(Xor(a, b), b) = a
<1> DEFINE W == {a \in Nat : Good(a)}
<1>1. ASSUME NEW a \in Nat, \A m \in 0 .. a - 1 : m \in W PROVE a \in W
  <2> SUFFICES ASSUME NEW b \in Nat PROVE Xor(a, b) \in Nat /\ Xor(Xor(a, b), b) = a
    OBVIOUS
  <2>1. Xor(a, b) = IF a = 0 \/ b = 0 THEN a + b ELSE 2 * Xor(a \div 2, b \div 2) + ((a + b) % 2)
    BY XorStep
  <2>2. CASE a = 0
    BY <2>1, <2>2, XorSelf
  <2>3. CASE b = 0
    <3>1. Xor(a, b) = a
      BY <2>1, <2>3
    <3> QED BY <2>3, <3>1
  <2>4. CASE a # 0 /\ b # 0
    <3>1. PICK h \in Nat : h = a \div 2
      OBVIOUS
    <3>2. PICK k \in Nat : k = b \div 2
      OBVIOUS
    <3>3. h \in 0 .. a - 1
      BY <2>4, <3>1
    <3>4. Good(h)
      BY <1>1, <3>3
    <3> DEFINE q == Xor(h, k)
    <3>5. q \in Nat /\ Xor(q, k) = h
      BY <3>4
    <3> HIDE DEF q
    <3> DEFINE r == 2 * q + ((a + b) % 2)
    <3>6. Xor(a, b) = r
      BY <2>1, <2>4, <3>1, <3>2 DEF q
    <3>7. r \in Nat /\ r \div 2 = q /\ (r + b) % 2 = a % 2
      BY <3>5
    <3>8. a = 2 * h + (a % 2) /\ b = 2 * k + (b % 2)
      BY <3>1, <3>2
    <3>9. Xor(r, b) = IF r = 0 \/ b = 0 THEN r + b ELSE 2 * Xor(r \div 2, b \div 2) + ((r + b) % 2)
      BY <3>7, XorStep
    <3>10. CASE r # 0
      <4>1. Xor(r, b) = 2 * h + (a % 2)
        BY <2>4, <3>2, <3>5, <3>7, <3>9, <3>10
      <4> QED BY <3>6, <3>7, <3>8, <4>1
    <3>11. CASE r = 0
      <4>1. q = 0 /\ (a + b) % 2 = 0
        BY <3>5, <3>11
      <4>2. Xor(q, k) = q + k
        BY <3>5, <4>1, XorStep
      <4>3. h = k
        BY <3>5, <4>1, <4>2
      <4>4. a % 2 = b % 2
        BY <4>1
      <4>5. a = b
        BY <3>8, <4>3, <4>4
      <4>6. Xor(r, b) = b
        BY <3>9, <3>11
      <4> QED BY <3>6, <3>11, <4>5, <4>6
    <3> QED BY <3>10, <3>11
  <2> QED BY <2>2, <2>3, <2>4
<1>2. W \in SUBSET Nat
  OBVIOUS
<1>3. W = Nat
  <2> HIDE DEF W
  <2> QED BY <1>1, <1>2, StrongInduction
<1>4. ASSUME NEW a \in Nat PROVE Good(a)
  <2>1. a \in W
    BY <1>3
  <2> HIDE DEF Good
  <2> QED BY <2>1
<1> QED BY <1>4

----------------------------------------------------------------------------
(* What readLoop must make of the gateway's frames, one frame at a time.   *)

\* A function with the recursion of DeliverableOf.
Selects(f, s) ==
    f = [i \in 0 .. Len(s) |-> IF i = 0 THEN <<>>
                               ELSE IF IsDeliverable(s[i]) THEN Append(f[i - 1], s[i]) ELSE f[i - 1]]

\* There is such a function.
LEMMA SelectsExists ==
    ASSUME NEW s, Len(s) \in Nat
    PROVE  \E f : Selects(f, s)
<1> DEFINE Row(g, i) == IF i = 0 THEN <<>>
                        ELSE IF IsDeliverable(s[i]) THEN Append(g[i - 1], s[i]) ELSE g[i - 1]
<1> DEFINE W == {n \in Nat : \E f : f = [i \in 0 .. n |-> Row(f, i)]}
<1>1. 0 \in W
  <2> DEFINE h == [i \in 0 .. 0 |-> <<>>]
  <2>1. h = [i \in 0 .. 0 |-> Row(h, i)]
    OBVIOUS
  <2> HIDE DEF h
  <2> QED BY <2>1
<1>2. \A n \in W : n + 1 \in W
  <2> TAKE n \in W
  <2>1. n \in Nat
    OBVIOUS
  <2>2. PICK g : g = [i \in 0 .. n |-> Row(g, i)]
    OBVIOUS
  <2> DEFINE h == [i \in 0 .. n + 1 |-> IF i = n + 1 THEN Row(g, n + 1) ELSE g[i]]
  <2>3. \A i \in 0 .. n + 1 : h[i] = Row(h, i)
    <3> SUFFICES ASSUME NEW i \in 0 .. n + 1 PROVE h[i] = Row(h, i)
      OBVIOUS
    <3>1. i # 0 => i - 1 \in 0 .. n /\ i - 1 # n + 1 /\ i - 1 \in 0 .. n + 1
      BY <2>1
    <3>2. i # 0 => h[i - 1] = g[i - 1]
      BY <3>1
    <3>3. h[i] = Row(g, i)
      <4>1. CASE i = n + 1
        BY <4>1
      <4>2. CASE i # n + 1
        <5>1. i \in 0 .. n /\ h[i] = g[i]
          BY <2>1, <4>2
        <5>2. g[i] = Row(g, i)
          BY <2>2, <5>1
        <5> QED BY <5>1, <5>2
      <4> QED BY <4>1, <4>2
    <3> HIDE DEF h
    <3> QED BY <3>2, <3>3
  <2>4. h = [i \in 0 .. n + 1 |-> h[i]]
    OBVIOUS
  <2> HIDE DEF h
  <2>5. h = [i \in 0 .. n + 1 |-> Row(h, i)]
    BY <2>3, <2>4
  <2> HIDE DEF Row
  <2> QED BY <2>1, <2>5
<1>3. W \in SUBSET Nat
  OBVIOUS
<1> HIDE DEF W
<1>4. W = Nat
  BY <1>1, <1>2, <1>3, Induction
<1> QED BY <1>4 DEF W, Selects

\* DeliverableOf is the last value of one, and the others are those of the prefixes.
LEMMA SelectsStep ==
    ASSUME NEW s, Len(s) \in Nat
    PROVE  \E f : /\ DeliverableOf(s) = f[Len(s)] /\ f[0] = <<>>
                  /\ \A i \in 1 .. Len(s) :
                        f[i] = IF IsDeliverable(s[i]) THEN Append(f[i - 1], s[i]) ELSE f[i - 1]
<1> DEFINE g == CHOOSE f : f = [i \in 0 .. Len(s) |->
            IF i = 0 THEN <<>> ELSE IF IsDeliverable(s[i]) THEN Append(f[i - 1], s[i]) ELSE f[i - 1]]
<1>1. Selects(g, s)
  BY SelectsExists DEF Selects
<1>2. DeliverableOf(s) = g[Len(s)]
  BY DEF DeliverableOf
<1> HIDE DEF g
<1>3. \A i \in 0 .. Len(s) :
          g[i] = IF i = 0 THEN <<>> ELSE IF IsDeliverable(s[i]) THEN Append(g[i - 1], s[i]) ELSE g[i - 1]
  BY <1>1 DEF Selects
<1>4. 0 \in 0 .. Len(s) /\ \A i \in 1 .. Len(s) : i \in 0 .. Len(s) /\ i # 0
  OBVIOUS
<1>5. /\ g[0] = <<>>
      /\ \A i \in 1 .. Len(s) : g[i] = IF IsDeliverable(s[i]) THEN Append(g[i - 1], s[i]) ELSE g[i - 1]
  BY <1>3, <1>4
<1> QED BY <1>2, <1>5

\* The values of a function with that recursion are what is delivered of the prefixes.
LEMMA SelectsPrefix ==
    ASSUME NEW X, NEW s \in Seq(X), NEW n \in 0 .. Len(s),
           NEW f, f[0] = <<>>,
           \A i \in 1 .. Len(s) : f[i] = IF IsDeliverable(s[i]) THEN Append(f[i - 1], s[i]) ELSE f[i - 1]
    PROVE  f[n] = DeliverableOf(SubSeq(s, 1, n))
<1> DEFINE t == SubSeq(s, 1, n)
<1>1. Len(t) = n /\ \A i \in 1 .. n : t[i] = s[i]
  <2>1. n \in Nat /\ n <= Len(s) /\ \A i \in 1 .. n : s[i] \in X
    BY ElementOfSeq
  <2>2. Len(t) = (IF 1 <= n THEN n - 1 + 1 ELSE 0) /\ \A i \in 1 .. n - 1 + 1 : t[i] = s[1 + i - 1]
    BY <2>1, SubSeqProperties
  <2>3. n - 1 + 1 = n /\ \A i \in 1 .. n : 1 + i - 1 = i
    BY <2>1
  <2> HIDE DEF t
  <2>4. \A i \in 1 .. n : t[i] = s[i]
    BY <2>2, <2>3
  <2> QED BY <2>1, <2>2, <2>3, <2>4
<1> HIDE DEF t
<1>2. PICK g : /\ DeliverableOf(t) = g[n] /\ g[0] = <<>>
               /\ \A i \in 1 .. n : g[i] = IF IsDeliverable(t[i]) THEN Append(g[i - 1], t[i]) ELSE g[i - 1]
  <2>1. Len(t) \in Nat
    BY <1>1
  <2>2. \E g : /\ DeliverableOf(t) = g[Len(t)] /\ g[0] = <<>>
               /\ \A i \in 1 .. Len(t) : g[i] = IF IsDeliverable(t[i]) THEN Append(g[i - 1], t[i]) ELSE g[i - 1]
    BY <2>1, SelectsStep
  <2> QED BY <1>1, <2>2
<1> DEFINE W == {k \in Nat : k <= n => f[k] = g[k]}
<1>3. 0 \in W
  BY <1>2
<1>4. ASSUME NEW k \in W PROVE k + 1 \in W
  <2> SUFFICES ASSUME k + 1 <= n PROVE f[k + 1] = g[k + 1]
    OBVIOUS
  <2>1. k \in Nat /\ k + 1 \in 1 .. n /\ k + 1 \in 1 .. Len(s) /\ (k + 1) - 1 = k /\ f[k] = g[k]
    OBVIOUS
  <2>2. f[k + 1] = IF IsDeliverable(s[k + 1]) THEN Append(f[k], s[k + 1]) ELSE f[k]
    BY <2>1
  <2>3. g[k + 1] = IF IsDeliverable(t[k + 1]) THEN Append(g[k], t[k + 1]) ELSE g[k]
    BY <1>2, <2>1
  <2>4. t[k + 1] = s[k + 1]
    BY <1>1, <2>1
  <2> QED BY <2>1, <2>2, <2>3, <2>4
<1>5. W \in SUBSET Nat
  OBVIOUS
<1>6. W = Nat
  <2> HIDE DEF W
  <2> QED BY <1>3, <1>4, <1>5, Induction
<1>7. f[n] = g[n]
  BY <1>6
<1> QED BY <1>2, <1>7 DEF t

\* One frame more.
LEMMA DeliverableStep ==
    ASSUME NEW X, NEW s \in Seq(X), NEW n \in Nat, n + 1 <= Len(s)
    PROVE  DeliverableOf(SubSeq(s, 1, n + 1)) =
               IF IsDeliverable(s[n + 1]) THEN Append(DeliverableOf(SubSeq(s, 1, n)), s[n + 1])
               ELSE DeliverableOf(SubSeq(s, 1, n))
<1>1. Len(s) \in Nat
  OBVIOUS
<1>2. PICK f : /\ f[0] = <<>>
               /\ \A i \in 1 .. Len(s) :
                     f[i] = IF IsDeliverable(s[i]) THEN Append(f[i - 1], s[i]) ELSE f[i - 1]
  BY <1>1, SelectsStep
<1>3. n \in 0 .. Len(s) /\ n + 1 \in 0 .. Len(s) /\ n + 1 \in 1 .. Len(s) /\ (n + 1) - 1 = n
  BY <1>1
<1>4. f[n] = DeliverableOf(SubSeq(s, 1, n))
  BY <1>2, <1>3, SelectsPrefix
<1>5. f[n + 1] = DeliverableOf(SubSeq(s, 1, n + 1))
  BY <1>2, <1>3, SelectsPrefix
<1>6. f[n + 1] = IF IsDeliverable(s[n + 1]) THEN Append(f[n], s[n + 1]) ELSE f[n]
  BY <1>2, <1>3
<1> QED BY <1>4, <1>5, <1>6

\* Nothing sent, nothing delivered; and all of what was sent is its longest prefix.
LEMMA DeliverableEnds ==
    ASSUME NEW X, NEW s \in Seq(X)
    PROVE  DeliverableOf(SubSeq(s, 1, 0)) = <<>> /\ DeliverableOf(SubSeq(s, 1, Len(s))) = DeliverableOf(s)
<1>1. Len(s) \in Nat /\ 0 \in 0 .. Len(s)
  OBVIOUS
<1>2. PICK f : /\ f[0] = <<>>
               /\ \A i \in 1 .. Len(s) :
                     f[i] = IF IsDeliverable(s[i]) THEN Append(f[i - 1], s[i]) ELSE f[i - 1]
  BY <1>1, SelectsStep
<1>3. f[0] = DeliverableOf(SubSeq(s, 1, 0))
  BY <1>1, <1>2, SelectsPrefix
<1>4. SubSeq(s, 1, Len(s)) = s
  BY SubSeqFull
<1> QED BY <1>2, <1>3, <1>4

\* What has been delivered is a prefix of what there is to deliver.
LEMMA DeliverableGrows ==
    ASSUME NEW X, NEW s \in Seq(X), NEW n \in 0 .. Len(s)
    PROVE  /\ DeliverableOf(SubSeq(s, 1, n)) \in Seq(X)
           /\ IsPrefix(DeliverableOf(SubSeq(s, 1, n)), DeliverableOf(s))
<1> DEFINE D(k) == DeliverableOf(SubSeq(s, 1, k))
<1>1. Len(s) \in Nat /\ D(0) = <<>> /\ D(Len(s)) = DeliverableOf(s)
  BY DeliverableEnds
<1>2. ASSUME NEW k \in Nat, k + 1 <= Len(s)
      PROVE  D(k + 1) = IF IsDeliverable(s[k + 1]) THEN Append(D(k), s[k + 1]) ELSE D(k)
  BY <1>2, DeliverableStep
<1> HIDE DEF D
<1> DEFINE W == {k \in Nat : k <= Len(s) => D(k) \in Seq(X)}
<1>3. W = Nat
  <2>1. 0 \in W
    <3>1. D(0) = <<>> /\ <<>> \in Seq(X)
      BY <1>1, EmptySeq
    <3> QED BY <3>1
  <2>2. ASSUME NEW k \in W PROVE k + 1 \in W
    <3> SUFFICES ASSUME k + 1 <= Len(s) PROVE D(k + 1) \in Seq(X)
      OBVIOUS
    <3>1. k \in Nat /\ k <= Len(s) /\ k + 1 \in 1 .. Len(s)
      BY <1>1
    <3>2. D(k) \in Seq(X) /\ s[k + 1] \in X
      BY <3>1, ElementOfSeq
    <3>3. Append(D(k), s[k + 1]) \in Seq(X)
      BY <3>2, AppendProperties
    <3> QED BY <1>2, <3>1, <3>2, <3>3
  <2>3. W \in SUBSET Nat
    OBVIOUS
  <2> HIDE DEF W
  <2> QED BY <2>1, <2>2, <2>3, Induction
<1>4. \A k \in 0 .. Len(s) : D(k) \in Seq(X)
  BY <1>1, <1>3
<1> DEFINE U == {j \in Nat : n + j <= Len(s) => IsPrefix(D(n), D(n + j))}
<1>5. U = Nat
  <2>1. 0 \in U
    <3>1. n + 0 = n /\ n \in Nat
      OBVIOUS
    <3>2. D(n) \in Seq(X)
      BY <1>4
    <3>3. Len(D(n)) <= Len(D(n))
      BY <3>2
    <3>4. IsPrefix(D(n), D(n))
      BY <3>3 DEF IsPrefix
    <3> QED BY <3>1, <3>4
  <2>2. ASSUME NEW j \in U PROVE j + 1 \in U
    <3> SUFFICES ASSUME n + (j + 1) <= Len(s) PROVE IsPrefix(D(n), D(n + (j + 1)))
      OBVIOUS
    <3>1. PICK k \in Nat : k = n + j /\ k + 1 = n + (j + 1) /\ k + 1 <= Len(s) /\ k + 1 \in 1 .. Len(s)
      BY <1>1
    <3>2. IsPrefix(D(n), D(k))
      BY <1>1, <3>1
    <3>3. D(k + 1) = IF IsDeliverable(s[k + 1]) THEN Append(D(k), s[k + 1]) ELSE D(k)
      BY <1>2, <3>1
    <3>4. D(n) \in Seq(X) /\ D(k) \in Seq(X) /\ s[k + 1] \in X
      BY <1>1, <1>4, <3>1, ElementOfSeq
    <3>5. IsPrefix(D(n), Append(D(k), s[k + 1]))
      <4> DEFINE a == D(n)
      <4> DEFINE b == D(k)
      <4> DEFINE e == s[k + 1]
      <4>1. a \in Seq(X) /\ b \in Seq(X) /\ e \in X /\ Len(a) <= Len(b) /\ SubSeq(a, 1, Len(a)) = SubSeq(b, 1, Len(a))
        BY <3>2, <3>4 DEF IsPrefix
      <4> HIDE DEF a, b, e
      <4> DEFINE c == Append(b, e)
      <4>2. c \in Seq(X) /\ Len(c) = Len(b) + 1 /\ \A i \in 1 .. Len(b) : c[i] = b[i]
        BY <4>1, AppendProperties
      <4> HIDE DEF c
      <4>3. SubSeq(c, 1, Len(a)) = SubSeq(b, 1, Len(a))
        BY <4>1, <4>2
      <4>4. Len(a) <= Len(c)
        BY <4>1, <4>2
      <4>5. IsPrefix(a, c)
        BY <4>1, <4>3, <4>4 DEF IsPrefix
      <4> QED BY <4>5 DEF a, b, c, e
    <3> QED BY <3>1, <3>2, <3>3, <3>5
  <2>3. U \in SUBSET Nat
    OBVIOUS
  <2> HIDE DEF U
  <2> QED BY <2>1, <2>2, <2>3, Induction
<1>6. Len(s) - n \in Nat /\ n + (Len(s) - n) = Len(s)
  BY <1>1
<1>7. IsPrefix(D(n), D(Len(s)))
  <2>1. Len(s) - n \in U
    BY <1>5, <1>6
  <2>2. n + (Len(s) - n) <= Len(s) => IsPrefix(D(n), D(n + (Len(s) - n)))
    BY <2>1
  <2> QED BY <1>1, <1>6, <2>2
<1> QED BY <1>1, <1>4, <1>7 DEF D

----------------------------------------------------------------------------
(* Decoding an envelope.                                                   *)

\* Induction from the end of a text to its beginning.
LEMMA Downward ==
    ASSUME NEW n \in Nat, NEW P \in SUBSET (1 .. n + 1),
           \A i \in 1 .. n + 1 : (\A j \in 1 .. n + 1 : j > i => j \in P) => i \in P
    PROVE  \A i \in 1 .. n + 1 : i \in P
<1> DEFINE W == {k \in Nat : k <= n => (n + 1) - k \in P}
<1>1. ASSUME NEW k \in Nat, \A m \in 0 .. k - 1 : m \in W PROVE k \in W
  <2> SUFFICES ASSUME k <= n PROVE (n + 1) - k \in P
    OBVIOUS
  <2>1. (n + 1) - k \in 1 .. n + 1
    OBVIOUS
  <2>2. ASSUME NEW j \in 1 .. n + 1, j > (n + 1) - k PROVE j \in P
    <3>1. (n + 1) - j \in 0 .. k - 1 /\ (n + 1) - j <= n /\ (n + 1) - ((n + 1) - j) = j
      BY <2>2
    <3> DEFINE m == (n + 1) - j
    <3>2. m \in W /\ m <= n /\ (n + 1) - m = j
      BY <1>1, <3>1
    <3> HIDE DEF m
    <3> QED BY <3>2
  <2> QED BY <2>1, <2>2
<1>2. W \in SUBSET Nat
  OBVIOUS
<1>3. W = Nat
  <2> HIDE DEF W
  <2> QED BY <1>1, <1>2, StrongInduction
<1>4. ASSUME NEW i \in 1 .. n + 1 PROVE i \in P
  <2> DEFINE k == (n + 1) - i
  <2>1. k \in Nat /\ k <= n /\ (n + 1) - k = i
    OBVIOUS
  <2> HIDE DEF k
  <2>2. k \in W
    BY <1>3, <2>1
  <2> QED BY <2>1, <2>2
<1> QED BY <1>4

\* A field has two bytes at least.
LEMMA FieldEndLater ==
    ASSUME NEW b \in Seq(Nat), NEW i \in 1 .. Len(b)
    PROVE  FieldEnd(b, i) \in Nat /\ FieldEnd(b, i) > i
<1>1. Len(b) \in Nat /\ b[i] \in Nat /\ i \in Nat
  BY ElementOfSeq
<1>2. i < Len(b) => b[i + 1] \in Nat
  <2> SUFFICES ASSUME i < Len(b) PROVE b[i + 1] \in Nat
    OBVIOUS
  <2>1. i + 1 \in 1 .. Len(b)
    BY <1>1
  <2> QED BY <2>1, ElementOfSeq
<1>3. FieldSize(b, i) \in Nat /\ FieldSize(b, i) >= 2
  <2>1. CASE b[i] = 1
    BY <2>1 DEF FieldSize
  <2>2. CASE b[i] = 2 /\ i < Len(b)
    <3>1. FieldSize(b, i) = 2 + b[i + 1]
      BY <2>2 DEF FieldSize
    <3> QED BY <1>2, <2>2, <3>1
  <2>3. CASE b[i] = 3
    BY <2>3 DEF FieldSize
  <2>4. CASE b[i] # 1 /\ ~(b[i] = 2 /\ i < Len(b)) /\ b[i] # 3
    <3>1. FieldSize(b, i) = Len(b) + 1
      BY <2>4 DEF FieldSize
    <3> QED BY <1>1, <3>1
  <2> QED BY <2>1, <2>2, <2>3, <2>4
<1> QED BY <1>1, <1>3 DEF FieldEnd

\* What the rest of b from position i on is decoded to, if f does it for the later ones.
From(f, b, i) ==
    IF i > Len(b) THEN {<<>>}
    ELSE IF FieldEnd(b, i) > Len(b) + 1 THEN {}
    ELSE {KnownField(b, i) \o rest : rest \in f[FieldEnd(b, i)]}

Parses(f, b) == f = [i \in 1 .. Len(b) + 1 |-> From(f, b, i)]

\* There is such a function.
LEMMA ParsesExists ==
    ASSUME NEW b \in Seq(Nat)
    PROVE  \E f : Parses(f, b)
<1>1. Len(b) \in Nat
  OBVIOUS
<1> DEFINE L == Len(b) + 1
<1> DEFINE W == {n \in Nat : n < L => \E f : f = [i \in L - n .. L |-> From(f, b, i)]}
<1>2. 0 \in W
  <2> DEFINE h == [i \in L - 0 .. L |-> {<<>>}]
  <2>1. ASSUME NEW i \in L - 0 .. L PROVE h[i] = From(h, b, i)
    <3>1. i > Len(b)
      BY <1>1
    <3> QED BY <3>1 DEF From
  <2>2. h = [i \in L - 0 .. L |-> h[i]]
    OBVIOUS
  <2> HIDE DEF h
  <2>3. h = [i \in L - 0 .. L |-> From(h, b, i)]
    BY <2>1, <2>2
  <2> QED BY <2>3
<1>3. \A n \in W : n + 1 \in W
  <2> TAKE n \in W
  <2> SUFFICES ASSUME n + 1 < L PROVE \E f : f = [i \in L - (n + 1) .. L |-> From(f, b, i)]
    OBVIOUS
  <2>1. n \in Nat /\ n < L /\ L \in Nat
    BY <1>1
  <2>2. PICK g : g = [i \in L - n .. L |-> From(g, b, i)]
    BY <2>1
  <2> DEFINE j == L - (n + 1)
  <2>3. j \in Nat /\ j >= 1 /\ j <= Len(b) /\ j + 1 = L - n
    BY <1>1, <2>1
  <2> HIDE DEF j
  <2> DEFINE h == [i \in j .. L |-> IF i = j THEN From(g, b, j) ELSE g[i]]
  <2>4. ASSUME NEW i \in j .. L PROVE h[i] = From(h, b, i)
    <3>1. h[i] = From(g, b, i)
      <4>1. CASE i = j
        BY <4>1
      <4>2. CASE i # j
        <5>1. i \in L - n .. L
          BY <2>1, <2>3, <4>2
        <5>2. g[i] = From(g, b, i)
          BY <2>2, <5>1
        <5> QED BY <4>2, <5>2
      <4> QED BY <4>1, <4>2
    <3>2. i <= Len(b) /\ ~(FieldEnd(b, i) > Len(b) + 1) => h[FieldEnd(b, i)] = g[FieldEnd(b, i)]
      <4> SUFFICES ASSUME i <= Len(b), ~(FieldEnd(b, i) > Len(b) + 1) PROVE h[FieldEnd(b, i)] = g[FieldEnd(b, i)]
        OBVIOUS
      <4>1. i \in 1 .. Len(b)
        BY <1>1, <2>3
      <4>2. FieldEnd(b, i) \in Nat /\ FieldEnd(b, i) > i
        BY <4>1, FieldEndLater
      <4>3. FieldEnd(b, i) \in j .. L /\ FieldEnd(b, i) # j
        BY <1>1, <2>3, <4>1, <4>2
      <4> QED BY <4>3
    <3> HIDE DEF h
    <3>3. ~(i > Len(b)) => i <= Len(b)
      BY <1>1, <2>3
    <3>4. From(h, b, i) = From(g, b, i)
      BY <3>2, <3>3 DEF From
    <3> QED BY <3>1, <3>4
  <2>5. h = [i \in j .. L |-> h[i]]
    OBVIOUS
  <2> HIDE DEF h
  <2>6. h = [i \in j .. L |-> From(h, b, i)]
    BY <2>4, <2>5
  <2> QED BY <2>6 DEF j
<1>4. W \in SUBSET Nat
  OBVIOUS
<1>5. W = Nat
  <2> HIDE DEF W
  <2> QED BY <1>2, <1>3, <1>4, Induction
<1>6. Len(b) \in W /\ Len(b) < L /\ L - Len(b) = 1
  BY <1>1, <1>5
<1>7. \E f : f = [i \in L - Len(b) .. L |-> From(f, b, i)]
  BY <1>6
<1> QED BY <1>6, <1>7 DEF Parses

\* What Unmarshal decodes from each position on.
LEMMA UnmarshalStep ==
    ASSUME NEW b \in Seq(Nat)
    PROVE  \E f : Unmarshal(b) = f[1] /\ \A i \in 1 .. Len(b) + 1 : f[i] = From(f, b, i)
<1> DEFINE g == CHOOSE f : f = [i \in 1 .. Len(b) + 1 |->
            IF i > Len(b) THEN {<<>>}
            ELSE IF FieldEnd(b, i) > Len(b) + 1 THEN {}
            ELSE {KnownField(b, i) \o rest : rest \in f[FieldEnd(b, i)]}]
<1>1. Parses(g, b)
  BY ParsesExists DEF Parses, From
<1>2. Unmarshal(b) = g[1]
  BY DEF Unmarshal
<1> HIDE DEF g
<1>3. \A i \in 1 .. Len(b) + 1 : g[i] = From(g, b, i)
  BY <1>1 DEF Parses
<1> QED BY <1>2, <1>3

\* An envelope is decoded to one sequence of known fields, or to none.
LEMMA UnmarshalUnique ==
    ASSUME NEW b \in Seq(Nat)
    PROVE  Unmarshal(b) = {} \/ \E v : Unmarshal(b) = {v}
<1>1. PICK f : Unmarshal(b) = f[1] /\ \A i \in 1 .. Len(b) + 1 : f[i] = From(f, b, i)
  BY UnmarshalStep
<1> DEFINE One(i) == f[i] = {} \/ \E v : f[i] = {v}
<1> DEFINE P == {i \in 1 .. Len(b) + 1 : One(i)}
<1>2. ASSUME NEW i \in 1 .. Len(b) + 1, \A j \in 1 .. Len(b) + 1 : j > i => j \in P PROVE i \in P
  <2>1. f[i] = From(f, b, i)
    BY <1>1
  <2>2. CASE i > Len(b)
    <3>1. f[i] = {<<>>}
      BY <2>1, <2>2 DEF From
    <3>2. One(i)
      BY <3>1
    <3> QED BY <3>2
  <2>3. CASE ~(i > Len(b)) /\ FieldEnd(b, i) > Len(b) + 1
    <3>1. f[i] = {}
      BY <2>1, <2>3 DEF From
    <3>2. One(i)
      BY <3>1
    <3> QED BY <3>2
  <2>4. CASE ~(i > Len(b)) /\ ~(FieldEnd(b, i) > Len(b) + 1)
    <3> DEFINE j == FieldEnd(b, i)
    <3>1. j \in 1 .. Len(b) + 1 /\ j > i
      <4>1. i \in 1 .. Len(b)
        BY <2>4
      <4> QED BY <2>4, <4>1, FieldEndLater
    <3> HIDE DEF j
    <3>2. One(j)
      BY <1>2, <3>1
    <3>3. f[i] = {KnownField(b, i) \o rest : rest \in f[j]}
      BY <2>1, <2>4 DEF From, j
    <3>4. One(i)
      <4>1. CASE f[j] = {}
        <5>1. f[i] = {}
          BY <3>3, <4>1
        <5> QED BY <5>1
      <4>2. ASSUME NEW v, f[j] = {v} PROVE One(i)
        <5>1. f[i] = {KnownField(b, i) \o v}
          BY <3>3, <4>2
        <5> QED BY <5>1
      <4> QED BY <3>2, <4>1, <4>2
    <3> HIDE DEF One
    <3> QED BY <3>4
  <2> QED BY <2>2, <2>3, <2>4
<1>3. P \in SUBSET (1 .. Len(b) + 1) /\ Len(b) \in Nat
  OBVIOUS
<1>4. \A i \in 1 .. Len(b) + 1 : i \in P
  <2> HIDE DEF P
  <2> QED BY <1>2, <1>3, Downward
<1>5. One(1)
  <2>1. 1 \in 1 .. Len(b) + 1
    BY <1>3
  <2>2. 1 \in P
    BY <1>4, <2>1
  <2> HIDE DEF One
  <2> QED BY <2>2
<1> QED BY <1>1, <1>5

\* More bytes do not change a field that ends before them.
LEMMA FieldSame ==
    ASSUME NEW d \in Seq(Nat), NEW c \in Seq(Nat), NEW i \in 1 .. Len(d), FieldEnd(d, i) <= Len(d) + 1
    PROVE  FieldEnd(d \o c, i) = FieldEnd(d, i) /\ KnownField(d \o c, i) = KnownField(d, i)
<1> DEFINE e == d \o c
<1>1. /\ e \in Seq(Nat) /\ Len(e) = Len(d) + Len(c)
      /\ \A k \in 1 .. Len(d) + Len(c) : e[k] = IF k <= Len(d) THEN d[k] ELSE c[k - Len(d)]
  BY ConcatProperties
<1>2. Len(d) \in Nat /\ Len(c) \in Nat /\ i \in Nat
  OBVIOUS
<1>3. \A k \in 1 .. Len(d) : e[k] = d[k]
  BY <1>1, <1>2
<1>4. FieldEnd(d, i) \in Nat /\ FieldEnd(d, i) > i
  BY FieldEndLater
<1>5. FieldEnd(d, i) = i + FieldSize(d, i) /\ FieldEnd(e, i) = i + FieldSize(e, i)
  BY DEF FieldEnd
<1>6. SubSeq(e, i, FieldEnd(d, i) - 1) = SubSeq(d, i, FieldEnd(d, i) - 1)
  <2>1. FieldEnd(d, i) - 1 \in 1 .. Len(d)
    BY <1>2, <1>4
  <2> QED BY <2>1, SubSeqOfConcat1
<1> HIDE DEF e
<1>7. e[i] = d[i]
  BY <1>3
<1>8. FieldSize(e, i) = FieldSize(d, i)
  <2>1. CASE d[i] = 1
    BY <1>7, <2>1 DEF FieldSize
  <2>2. CASE d[i] = 2 /\ i < Len(d)
    <3>1. i < Len(e)
      BY <1>1, <1>2, <2>2
    <3>2. FieldSize(d, i) = 2 + d[i + 1]
      BY <2>2 DEF FieldSize
    <3>3. FieldSize(e, i) = 2 + e[i + 1]
      BY <1>7, <2>2, <3>1 DEF FieldSize
    <3>4. i + 1 \in 1 .. Len(d)
      BY <1>2, <2>2
    <3>5. e[i + 1] = d[i + 1]
      BY <1>3, <3>4
    <3> QED BY <3>2, <3>3, <3>5
  <2>3. CASE d[i] = 3
    BY <1>7, <2>3 DEF FieldSize
  <2>4. CASE d[i] # 1 /\ ~(d[i] = 2 /\ i < Len(d)) /\ d[i] # 3
    <3>1. FieldSize(d, i) = Len(d) + 1
      BY <2>4 DEF FieldSize
    <3>2. FALSE
      BY <1>2, <1>5, <3>1
    <3> QED BY <3>2
  <2> QED BY <2>1, <2>2, <2>3, <2>4
<1>9. FieldEnd(e, i) = FieldEnd(d, i)
  BY <1>5, <1>8
<1>10. KnownField(e, i) = KnownField(d, i)
  BY <1>6, <1>7, <1>9 DEF KnownField
<1> QED BY <1>9, <1>10 DEF e

\* Zeros after a valid envelope make it invalid: no tag is zero.
LEMMA ZerosSpoil ==
    ASSUME NEW d \in Seq(Nat), Unmarshal(d) # {}, NEW c \in Seq(Nat), c # <<>>, c[1] = 0
    PROVE  Unmarshal(d \o c) = {}
<1> DEFINE e == d \o c
<1>1. /\ e \in Seq(Nat) /\ Len(e) = Len(d) + Len(c)
      /\ \A k \in 1 .. Len(d) + Len(c) : e[k] = IF k <= Len(d) THEN d[k] ELSE c[k - Len(d)]
  BY ConcatProperties
<1>2. Len(d) \in Nat /\ Len(c) \in Nat /\ Len(c) >= 1
  OBVIOUS
<1>3. PICK f : Unmarshal(d) = f[1] /\ \A i \in 1 .. Len(d) + 1 : f[i] = From(f, d, i)
  BY UnmarshalStep
<1>4. PICK g : Unmarshal(e) = g[1] /\ \A i \in 1 .. Len(e) + 1 : g[i] = From(g, e, i)
  BY <1>1, UnmarshalStep
<1>5. ASSUME NEW i \in 1 .. Len(d), FieldEnd(d, i) <= Len(d) + 1
      PROVE  FieldEnd(e, i) = FieldEnd(d, i) /\ KnownField(e, i) = KnownField(d, i)
  BY <1>5, FieldSame
<1> HIDE DEF e
<1> DEFINE P == {i \in 1 .. Len(d) + 1 : f[i] # {} => g[i] = {}}
<1>6. ASSUME NEW i \in 1 .. Len(d) + 1, \A j \in 1 .. Len(d) + 1 : j > i => j \in P PROVE i \in P
  <2>1. f[i] = From(f, d, i) /\ i \in 1 .. Len(e) /\ g[i] = From(g, e, i)
    BY <1>1, <1>2, <1>3, <1>4
  <2>2. CASE i = Len(d) + 1
    <3>1. e[i] = c[i - Len(d)] /\ i - Len(d) = 1
      <4>1. i \in 1 .. Len(d) + Len(c) /\ ~(i <= Len(d)) /\ i - Len(d) = 1
        BY <1>2, <2>2
      <4> QED BY <1>1, <4>1
    <3>2. e[i] = 0
      BY <3>1
    <3>3. FieldEnd(e, i) = i + (Len(e) + 1)
      BY <3>2 DEF FieldEnd, FieldSize
    <3>4. ~(i > Len(e)) /\ FieldEnd(e, i) > Len(e) + 1
      BY <1>1, <1>2, <2>1, <3>3
    <3>5. g[i] = {}
      BY <2>1, <3>4 DEF From
    <3> QED BY <3>5
  <2>3. CASE i # Len(d) + 1
    <3> SUFFICES ASSUME f[i] # {} PROVE g[i] = {}
      OBVIOUS
    <3>1. i \in 1 .. Len(d) /\ ~(i > Len(d)) /\ ~(i > Len(e))
      <4>1. i \in 1 .. Len(d) /\ ~(i > Len(d))
        BY <1>2, <2>3
      <4>2. Len(e) \in Nat
        BY <1>1
      <4> QED BY <2>1, <4>1, <4>2
    <3> DEFINE j == FieldEnd(d, i)
    <3>2. ~(j > Len(d) + 1) /\ f[i] = {KnownField(d, i) \o rest : rest \in f[j]}
      BY <2>1, <3>1 DEF From
    <3>3. j \in Nat /\ j > i
      BY <3>1, FieldEndLater
    <3>4. FieldEnd(e, i) = j
      <4>1. j <= Len(d) + 1
        BY <1>2, <3>2, <3>3
      <4> QED BY <1>5, <3>1, <4>1
    <3> HIDE DEF j
    <3>5. f[j] # {}
      BY <3>2
    <3>6. j \in 1 .. Len(d) + 1
      BY <1>2, <3>2, <3>3
    <3>7. g[j] = {}
      BY <1>6, <3>3, <3>5, <3>6
    <3>8. g[i] = {} \/ g[i] = {KnownField(e, i) \o rest : rest \in g[j]}
      BY <2>1, <3>1, <3>4 DEF From
    <3> QED BY <3>7, <3>8
  <2> QED BY <2>2, <2>3
<1>7. P \in SUBSET (1 .. Len(d) + 1)
  OBVIOUS
<1>8. \A i \in 1 .. Len(d) + 1 : i \in P
  <2> HIDE DEF P
  <2> QED BY <1>2, <1>6, <1>7, Downward
<1>9. 1 \in P
  BY <1>2, <1>8
<1>10. g[1] = {}
  BY <1>3, <1>9
<1> QED BY <1>4, <1>10 DEF e

\* The unknown field appended against trimming does not change the known ones.
LEMMA GuardUnknown ==
    ASSUME NEW d \in Seq(Nat), Unmarshal(d) # {}
    PROVE  Unmarshal(d \o <<3, 1, 1>>) = Unmarshal(d)
<1> DEFINE c == <<3, 1, 1>>
<1> DEFINE e == d \o c
<1>0. c \in Seq(Nat) /\ Len(c) = 3 /\ c[1] = 3
  OBVIOUS
<1>1. /\ e \in Seq(Nat) /\ Len(e) = Len(d) + Len(c)
      /\ \A k \in 1 .. Len(d) + Len(c) : e[k] = IF k <= Len(d) THEN d[k] ELSE c[k - Len(d)]
  BY <1>0, ConcatProperties
<1>2. Len(d) \in Nat
  OBVIOUS
<1>3. PICK f : Unmarshal(d) = f[1] /\ \A i \in 1 .. Len(d) + 1 : f[i] = From(f, d, i)
  BY UnmarshalStep
<1>4. PICK g : Unmarshal(e) = g[1] /\ \A i \in 1 .. Len(e) + 1 : g[i] = From(g, e, i)
  BY <1>1, UnmarshalStep
<1>5. ASSUME NEW i \in 1 .. Len(d), FieldEnd(d, i) <= Len(d) + 1
      PROVE  FieldEnd(e, i) = FieldEnd(d, i) /\ KnownField(e, i) = KnownField(d, i)
  BY <1>0, <1>5, FieldSame
<1> HIDE DEF e, c
<1> DEFINE P == {i \in 1 .. Len(d) + 1 : f[i] # {} => g[i] = f[i]}
<1>6. ASSUME NEW i \in 1 .. Len(d) + 1, \A j \in 1 .. Len(d) + 1 : j > i => j \in P PROVE i \in P
  <2>1. f[i] = From(f, d, i) /\ i \in 1 .. Len(e) /\ g[i] = From(g, e, i)
    BY <1>0, <1>1, <1>2, <1>3, <1>4
  <2>2. CASE i = Len(d) + 1
    <3>1. e[i] = c[i - Len(d)] /\ i - Len(d) = 1
      <4>1. i \in 1 .. Len(d) + Len(c) /\ ~(i <= Len(d)) /\ i - Len(d) = 1
        BY <1>0, <1>2, <2>2
      <4> QED BY <1>1, <4>1
    <3>2. e[i] = 3
      BY <1>0, <3>1
    <3>3. FieldEnd(e, i) = i + 3 /\ KnownField(e, i) = <<>>
      BY <3>2 DEF FieldEnd, FieldSize, KnownField
    <3>4. ~(i > Len(e)) /\ FieldEnd(e, i) = Len(e) + 1 /\ ~(FieldEnd(e, i) > Len(e) + 1)
      BY <1>0, <1>1, <1>2, <2>1, <2>2, <3>3
    <3>5. g[i] = {<<>> \o rest : rest \in g[Len(e) + 1]}
      BY <2>1, <3>3, <3>4 DEF From
    <3>6. g[Len(e) + 1] = {<<>>}
      <4>1. Len(e) + 1 \in 1 .. Len(e) + 1 /\ Len(e) + 1 > Len(e)
        BY <1>0, <1>1, <1>2
      <4> QED BY <1>4, <4>1 DEF From
    <3>7. <<>> \o <<>> = <<>>
      OBVIOUS
    <3>8. g[i] = {<<>>}
      BY <3>5, <3>6, <3>7
    <3>9. f[i] = {<<>>}
      <4>1. i > Len(d)
        BY <1>2, <2>2
      <4> QED BY <2>1, <4>1 DEF From
    <3> QED BY <3>8, <3>9
  <2>3. CASE i # Len(d) + 1
    <3> SUFFICES ASSUME f[i] # {} PROVE g[i] = f[i]
      OBVIOUS
    <3>1. i \in 1 .. Len(d) /\ ~(i > Len(d)) /\ ~(i > Len(e))
      <4>1. i \in 1 .. Len(d) /\ ~(i > Len(d))
        BY <1>2, <2>3
      <4>2. Len(e) \in Nat
        BY <1>1
      <4> QED BY <2>1, <4>1, <4>2
    <3> DEFINE j == FieldEnd(d, i)
    <3>2. ~(j > Len(d) + 1) /\ f[i] = {KnownField(d, i) \o rest : rest \in f[j]}
      BY <2>1, <3>1 DEF From
    <3>3. j \in Nat /\ j > i
      BY <3>1, FieldEndLater
    <3>4. FieldEnd(e, i) = j /\ KnownField(e, i) = KnownField(d, i)
      <4>1. j <= Len(d) + 1
        BY <1>2, <3>2, <3>3
      <4> QED BY <1>5, <3>1, <4>1
    <3> HIDE DEF j
    <3>5. f[j] # {}
      BY <3>2
    <3>6. j \in 1 .. Len(d) + 1
      BY <1>2, <3>2, <3>3
    <3>7. g[j] = f[j]
      BY <1>6, <3>3, <3>5, <3>6
    <3>8. ~(j > Len(e) + 1)
      BY <1>0, <1>1, <1>2, <3>6
    <3>9. g[i] = {KnownField(e, i) \o rest : rest \in g[j]}
      BY <2>1, <3>1, <3>4, <3>8 DEF From
    <3> QED BY <3>2, <3>4, <3>7, <3>9
  <2> QED BY <2>2, <2>3
<1>7. P \in SUBSET (1 .. Len(d) + 1)
  OBVIOUS
<1>8. \A i \in 1 .. Len(d) + 1 : i \in P
  <2> HIDE DEF P
  <2> QED BY <1>2, <1>6, <1>7, Downward
<1>9. 1 \in P
  BY <1>2, <1>8
<1>10. g[1] = f[1]
  BY <1>3, <1>9
<1> QED BY <1>3, <1>4, <1>10 DEF e, c

----------------------------------------------------------------------------
(* Padding.                                                                *)

\* Zeros(n) is n zeros.
LEMMA ZerosBytes ==
    ASSUME NEW n \in Nat
    PROVE  Zeros(n) \in Seq(Nat) /\ Len(Zeros(n)) = n /\ \A i \in 1 .. n : Zeros(n)[i] = 0
  BY DEF Zeros

\* The last k bytes are zeros.
Zeroed(b, k) == k <= Len(b) /\ \A i \in 1 .. k : b[Len(b) - i + 1] = 0

\* TrailingZeros is well defined.
LEMMA TrailingZerosChosen ==
    ASSUME NEW b \in Seq(Nat)
    PROVE  /\ TrailingZeros(b) \in 0 .. 3 /\ Zeroed(b, TrailingZeros(b))
           /\ TrailingZeros(b) < 3 /\ TrailingZeros(b) < Len(b) => b[Len(b) - TrailingZeros(b)] # 0
<1> DEFINE Ends(k) ==
        /\ k <= Len(b) /\ \A i \in 1 .. k : b[Len(b) - i + 1] = 0
        /\ k < 3 /\ k < Len(b) => b[Len(b) - k] # 0
<1>1. Len(b) \in Nat
  OBVIOUS
<1>2. \E k \in 0 .. 3 : Ends(k)
  <2> DEFINE Zero(k) == k <= Len(b) /\ \A i \in 1 .. k : b[Len(b) - i + 1] = 0
  <2>1. Zero(0)
    BY <1>1
  <2>2. ASSUME NEW k \in 0 .. 2, Zero(k), ~Ends(k) PROVE Zero(k + 1)
    <3>1. k < Len(b) /\ b[Len(b) - k] = 0
      BY <2>2
    <3>2. ASSUME NEW i \in 1 .. k + 1 PROVE b[Len(b) - i + 1] = 0
      <4>1. CASE i = k + 1
        <5>1. Len(b) - i + 1 = Len(b) - k
          BY <1>1, <4>1
        <5> QED BY <3>1, <5>1
      <4>2. CASE i # k + 1
        <5>1. i \in 1 .. k
          BY <4>2
        <5> QED BY <2>2, <5>1
      <4> QED BY <4>1, <4>2
    <3>3. k + 1 <= Len(b)
      BY <1>1, <3>1
    <3> QED BY <3>2, <3>3
  <2>3. Zero(3) => Ends(3)
    OBVIOUS
  <2> HIDE DEF Zero, Ends
  <2>4. 0 \in 0 .. 2 /\ 1 \in 0 .. 2 /\ 2 \in 0 .. 2 /\ 0 + 1 = 1 /\ 1 + 1 = 2 /\ 2 + 1 = 3
    OBVIOUS
  <2>5. 0 \in 0 .. 3 /\ 1 \in 0 .. 3 /\ 2 \in 0 .. 3 /\ 3 \in 0 .. 3
    OBVIOUS
  <2>6. Ends(0) \/ Zero(1)
    BY <2>1, <2>2, <2>4
  <2>7. Ends(0) \/ Ends(1) \/ Zero(2)
    BY <2>2, <2>4, <2>6
  <2>8. Ends(0) \/ Ends(1) \/ Ends(2) \/ Ends(3)
    BY <2>2, <2>3, <2>4, <2>7
  <2> QED BY <2>5, <2>8
<1>3. TrailingZeros(b) = CHOOSE k \in 0 .. 3 : Ends(k)
  BY DEF TrailingZeros
<1> HIDE DEF Ends
<1>4. TrailingZeros(b) \in 0 .. 3 /\ Ends(TrailingZeros(b))
  BY <1>2, <1>3
<1> QED BY <1>4 DEF Ends, Zeroed

\* It counts all of them up to three ...
LEMMA TrailingZerosAll ==
    ASSUME NEW b \in Seq(Nat), NEW p \in 0 .. 3, Zeroed(b, p)
    PROVE  p <= TrailingZeros(b)
<1> DEFINE k == TrailingZeros(b)
<1>1. k \in 0 .. 3 /\ (k < 3 /\ k < Len(b) => b[Len(b) - k] # 0)
  BY TrailingZerosChosen
<1>2. Len(b) \in Nat /\ p <= Len(b)
  BY DEF Zeroed
<1> HIDE DEF k
<1>3. ASSUME k < p PROVE FALSE
  <2>1. k < 3 /\ k < Len(b) /\ k + 1 \in 1 .. p /\ Len(b) - (k + 1) + 1 = Len(b) - k
    BY <1>1, <1>2, <1>3
  <2>2. b[Len(b) - (k + 1) + 1] = 0
    BY <2>1 DEF Zeroed
  <2> QED BY <1>1, <2>1, <2>2
<1>4. p <= k
  BY <1>1, <1>3
<1> QED BY <1>4 DEF k

\* ... and no other byte.
LEMMA TrailingZerosOnly ==
    ASSUME NEW b \in Seq(Nat), NEW p \in 0 .. 3, Zeroed(b, p), p < Len(b), b[Len(b) - p] # 0
    PROVE  TrailingZeros(b) = p
<1> DEFINE k == TrailingZeros(b)
<1>1. k \in 0 .. 3 /\ p <= k
  BY TrailingZerosAll, TrailingZerosChosen
<1>2. k <= Len(b) /\ \A i \in 1 .. k : b[Len(b) - i + 1] = 0
  BY TrailingZerosChosen DEF Zeroed
<1>3. Len(b) \in Nat
  OBVIOUS
<1> HIDE DEF k
<1>4. ASSUME p < k PROVE FALSE
  <2>1. p + 1 \in 1 .. k /\ Len(b) - (p + 1) + 1 = Len(b) - p
    BY <1>1, <1>3, <1>4
  <2> QED BY <1>2, <2>1
<1>5. k = p
  BY <1>1, <1>4
<1> QED BY <1>5 DEF k

\* A payload with its padding, byte by byte.
LEMMA Padded ==
    ASSUME NEW d \in Seq(Nat), NEW p \in Nat
    PROVE  /\ d \o Zeros(p) \in Seq(Nat) /\ Len(d \o Zeros(p)) = Len(d) + p
           /\ \A i \in 1 .. Len(d) : (d \o Zeros(p))[i] = d[i]
           /\ \A i \in Len(d) + 1 .. Len(d) + p : (d \o Zeros(p))[i] = 0
           /\ Zeroed(d \o Zeros(p), p)
<1> DEFINE z == Zeros(p)
<1>1. z \in Seq(Nat) /\ Len(z) = p /\ \A i \in 1 .. p : z[i] = 0
  BY ZerosBytes
<1> HIDE DEF z
<1> DEFINE e == d \o z
<1>2. /\ e \in Seq(Nat) /\ Len(e) = Len(d) + Len(z)
      /\ \A i \in 1 .. Len(d) + Len(z) : e[i] = IF i <= Len(d) THEN d[i] ELSE z[i - Len(d)]
  BY <1>1, ConcatProperties
<1> HIDE DEF e
<1>3. Len(d) \in Nat /\ Len(e) = Len(d) + p
  BY <1>1, <1>2
<1>4. \A i \in 1 .. Len(d) : e[i] = d[i]
  <2> TAKE i \in 1 .. Len(d)
  <2>1. i \in 1 .. Len(d) + Len(z) /\ i <= Len(d)
    BY <1>1, <1>3
  <2> QED BY <1>2, <2>1
<1>5. \A i \in Len(d) + 1 .. Len(d) + p : e[i] = 0
  <2> TAKE i \in Len(d) + 1 .. Len(d) + p
  <2>1. i \in 1 .. Len(d) + Len(z) /\ ~(i <= Len(d)) /\ i - Len(d) \in 1 .. p
    BY <1>1, <1>3
  <2> QED BY <1>1, <1>2, <2>1
<1>6. Zeroed(e, p)
  <2>1. p <= Len(e)
    BY <1>3
  <2>2. ASSUME NEW i \in 1 .. p PROVE e[Len(e) - i + 1] = 0
    <3>1. Len(e) - i + 1 \in Len(d) + 1 .. Len(d) + p
      BY <1>3
    <3> QED BY <1>5, <3>1
  <2> QED BY <2>1, <2>2 DEF Zeroed
<1> QED BY <1>2, <1>3, <1>4, <1>5, <1>6 DEF e, z

\* Less of the padding.
LEMMA PaddedLess ==
    ASSUME NEW d \in Seq(Nat), NEW p \in Nat, NEW k \in 0 .. p
    PROVE  SubSeq(d \o Zeros(p), 1, Len(d \o Zeros(p)) - k) = d \o Zeros(p - k)
<1> DEFINE e == d \o Zeros(p)
<1> DEFINE c == d \o Zeros(p - k)
<1>1. p - k \in Nat /\ Len(d) \in Nat
  OBVIOUS
<1>2. /\ e \in Seq(Nat) /\ Len(e) = Len(d) + p /\ (\A i \in 1 .. Len(d) : e[i] = d[i])
      /\ \A i \in Len(d) + 1 .. Len(d) + p : e[i] = 0
  BY Padded
<1>3. /\ c \in Seq(Nat) /\ Len(c) = Len(d) + (p - k) /\ (\A i \in 1 .. Len(d) : c[i] = d[i])
      /\ \A i \in Len(d) + 1 .. Len(d) + (p - k) : c[i] = 0
  BY <1>1, Padded
<1> HIDE DEF e, c
<1> DEFINE s == SubSeq(e, 1, Len(e) - k)
<1>4. Len(e) - k = Len(d) + (p - k) /\ Len(e) - k \in Nat /\ Len(e) - k <= Len(e)
  BY <1>1, <1>2
<1>5. s \in Seq(Nat) /\ Len(s) = Len(d) + (p - k) /\ \A i \in 1 .. Len(d) + (p - k) : s[i] = e[i]
  <2>1. \A i \in 1 .. Len(e) - k : e[i] \in Nat
    BY <1>2, <1>4, ElementOfSeq
  <2> DEFINE n == Len(e) - k
  <2>2. n \in Int /\ 1 \in Int
    BY <1>4
  <2>3. /\ s \in Seq(Nat) /\ Len(s) = (IF 1 <= n THEN n - 1 + 1 ELSE 0)
        /\ \A i \in 1 .. n - 1 + 1 : s[i] = e[1 + i - 1]
    BY <2>1, <2>2, SubSeqProperties
  <2>4. n \in Nat /\ n = Len(d) + (p - k)
    BY <1>4
  <2> HIDE DEF n, s
  <2>5. n - 1 + 1 = n /\ Len(s) = n /\ \A i \in 1 .. n : 1 + i - 1 = i
    BY <2>3, <2>4
  <2>6. \A i \in 1 .. n : s[i] = e[i]
    BY <2>3, <2>5
  <2> QED BY <2>3, <2>4, <2>5, <2>6
<1> HIDE DEF s
<1>6. \A i \in 1 .. Len(s) : s[i] = c[i]
  <2> TAKE i \in 1 .. Len(s)
  <2>1. i \in 1 .. Len(d) + (p - k) /\ s[i] = e[i]
    BY <1>5
  <2>2. CASE i <= Len(d)
    <3>1. i \in 1 .. Len(d)
      BY <1>1, <2>1, <2>2
    <3> QED BY <1>2, <1>3, <2>1, <3>1
  <2>3. CASE ~(i <= Len(d))
    <3>1. i \in Len(d) + 1 .. Len(d) + p /\ i \in Len(d) + 1 .. Len(d) + (p - k)
      BY <1>1, <2>1, <2>3
    <3> QED BY <1>2, <1>3, <2>1, <3>1
  <2> QED BY <2>2, <2>3
<1>7. s = c
  BY <1>3, <1>5, <1>6, SeqEqual
<1> QED BY <1>7 DEF s, e, c

\* unmarshalEnvelope takes off as much as the sender put on: with more zeros the
\* envelope is invalid, and with all padding gone it is the one that was sent.
LEMMA UnmarshalPadded ==
    ASSUME NEW d \in Seq(Nat), Unmarshal(d) # {}, NEW p \in 0 .. 3
    PROVE  UnmarshalEnvelope(d \o Zeros(p), TRUE) = Unmarshal(d)
<1>0. p \in Nat
  OBVIOUS
<1> DEFINE b == d \o Zeros(p)
<1>1. b \in Seq(Nat) /\ Len(b) = Len(d) + p /\ Zeroed(b, p)
  BY <1>0, Padded
<1>2. TrailingZeros(b) \in 0 .. 3 /\ p <= TrailingZeros(b)
  <2> HIDE DEF b
  <2> QED BY <1>1, TrailingZerosAll, TrailingZerosChosen
<1>3. \A k \in 0 .. p : SubSeq(b, 1, Len(b) - k) = d \o Zeros(p - k)
  BY <1>0, PaddedLess
<1> HIDE DEF b
<1>4. SubSeq(b, 1, Len(b) - p) = d
  <2>1. p \in 0 .. p /\ p - p = 0
    OBVIOUS
  <2>2. Zeros(0) = <<>>
    <3>1. Zeros(0) \in Seq(Nat) /\ Len(Zeros(0)) = 0
      BY ZerosBytes
    <3> QED BY <3>1, EmptySeq
  <2> QED BY <1>3, <2>1, <2>2, ConcatEmptySeq
<1>5. ASSUME NEW k \in 0 .. p, k # p PROVE Unmarshal(SubSeq(b, 1, Len(b) - k)) = {}
  <2> DEFINE z == Zeros(p - k)
  <2>1. p - k \in Nat /\ p - k >= 1
    BY <1>5
  <2>2. z \in Seq(Nat) /\ Len(z) = p - k /\ z[1] = 0
    <3> DEFINE n == p - k
    <3>1. n \in Nat /\ n >= 1
      BY <2>1
    <3> HIDE DEF n
    <3>2. Zeros(n) \in Seq(Nat) /\ Len(Zeros(n)) = n /\ Zeros(n)[1] = 0
      <4>1. 1 \in 1 .. n
        BY <3>1
      <4> QED BY <3>1, <4>1, ZerosBytes
    <3> QED BY <3>2 DEF n
  <2> HIDE DEF z
  <2>3. z # <<>>
    BY <2>1, <2>2
  <2>4. Unmarshal(d \o z) = {}
    BY <2>2, <2>3, ZerosSpoil
  <2> QED BY <1>3, <2>4 DEF z
<1> DEFINE ok == {k \in 0 .. TrailingZeros(b) : Unmarshal(SubSeq(b, 1, Len(b) - k)) # {}}
<1>6. UnmarshalEnvelope(b, TRUE) = IF ok = {} THEN {} ELSE Unmarshal(SubSeq(b, 1, Len(b) - Min(ok)))
  BY DEF UnmarshalEnvelope
<1>7. p \in ok
  <2>1. p \in 0 .. TrailingZeros(b)
    BY <1>2
  <2> QED BY <1>4, <2>1
<1>8. \A y \in ok : p <= y
  <2> SUFFICES ASSUME NEW y \in ok, ~(p <= y) PROVE FALSE
    OBVIOUS
  <2>1. y \in 0 .. p /\ y # p
    BY <1>2
  <2> QED BY <1>5, <2>1
<1>9. \A y \in ok : y \in Nat
  BY <1>2
<1> HIDE DEF ok
<1>10. Min(ok) = p
  <2> DEFINE m == CHOOSE x \in ok : \A y \in ok : x <= y
  <2>1. m \in ok /\ \A y \in ok : m <= y
    BY <1>7, <1>8
  <2> HIDE DEF m
  <2>2. m = p
    BY <1>7, <1>8, <1>9, <2>1
  <2> QED BY <2>2 DEF m, Min
<1>11. UnmarshalEnvelope(b, TRUE) = Unmarshal(d)
  BY <1>4, <1>6, <1>7, <1>10
<1> QED BY <1>11 DEF b

\* Without padding there is one trial.
LEMMA UnmarshalPlain ==
    ASSUME NEW d \in Seq(Nat)
    PROVE  UnmarshalEnvelope(d, FALSE) = Unmarshal(d)
<1> DEFINE ok == {k \in {0} : Unmarshal(SubSeq(d, 1, Len(d) - k)) # {}}
<1>1. UnmarshalEnvelope(d, FALSE) = IF ok = {} THEN {} ELSE Unmarshal(SubSeq(d, 1, Len(d) - Min(ok)))
  BY DEF UnmarshalEnvelope
<1>2. Len(d) - 0 = Len(d) /\ SubSeq(d, 1, Len(d)) = d
  BY SubSeqFull
<1>3. CASE Unmarshal(d) = {}
  <2>1. ok = {}
    BY <1>2, <1>3
  <2> QED BY <1>1, <1>3, <2>1
<1>4. CASE Unmarshal(d) # {}
  <2>1. ok = {0}
    BY <1>2, <1>4
  <2> HIDE DEF ok
  <2> DEFINE m == CHOOSE x \in ok : \A y \in ok : x <= y
  <2>2. m \in ok
    <3>1. 0 \in ok /\ \A y \in ok : 0 <= y
      BY <2>1
    <3> QED BY <3>1
  <2> HIDE DEF m
  <2>3. Min(ok) = 0
    BY <2>1, <2>2 DEF m, Min
  <2>4. ok # {}
    BY <2>1
  <2> QED BY <1>1, <1>2, <2>3, <2>4
<1> QED BY <1>3, <1>4

\* The gateway trims what was padded, of a payload that does not end in zero.
LEMMA TrimPadded ==
    ASSUME NEW d \in Seq(Nat), d # <<>>, Last(d) # 0, NEW p \in 0 .. 3
    PROVE  TrimAbridgedPadding(d \o Zeros(p)) = d
<1>0. p \in Nat
  OBVIOUS
<1> DEFINE b == d \o Zeros(p)
<1>1. b \in Seq(Nat) /\ Len(b) = Len(d) + p /\ Zeroed(b, p) /\ \A i \in 1 .. Len(d) : b[i] = d[i]
  BY <1>0, Padded
<1>2. SubSeq(b, 1, Len(b) - p) = d \o Zeros(p - p)
  <2>1. p \in 0 .. p
    OBVIOUS
  <2> QED BY <1>0, <2>1, PaddedLess
<1> HIDE DEF b
<1>3. Len(d) \in Nat /\ Len(d) >= 1
  OBVIOUS
<1>4. p < Len(b) /\ Len(b) - p = Len(d) /\ Len(d) \in 1 .. Len(d)
  BY <1>1, <1>3
<1>5. b[Len(b) - p] # 0
  BY <1>1, <1>4 DEF Last
<1>6. TrailingZeros(b) = p
  BY <1>1, <1>4, <1>5, TrailingZerosOnly
<1>7. d \o Zeros(p - p) = d
  <2>1. Zeros(0) \in Seq(Nat) /\ Len(Zeros(0)) = 0 /\ p - p = 0
    BY ZerosBytes
  <2>2. Zeros(0) = <<>>
    BY <2>1, EmptySeq
  <2> QED BY <2>1, <2>2, ConcatEmptySeq
<1>8. TrimAbridgedPadding(b) = d
  BY <1>2, <1>6, <1>7 DEF TrimAbridgedPadding
<1> QED BY <1>8 DEF b

\* The guard leaves no zero at the end, and the known fields as they are.
LEMMA GuardedSound ==
    ASSUME NEW d \in Seq(Nat), d # <<>>, Unmarshal(d) # {}
    PROVE  /\ Guarded(d) \in Seq(Nat) /\ Guarded(d) # <<>> /\ Last(Guarded(d)) # 0
           /\ Len(Guarded(d)) \in {Len(d), Len(d) + 3}
           /\ Unmarshal(Guarded(d)) = Unmarshal(d)
<1>1. Len(d) \in Nat /\ Len(d) > 0
  OBVIOUS
<1>2. CASE Last(d) # 0
  <2>1. Guarded(d) = d
    BY <1>2 DEF Guarded
  <2> QED BY <1>2, <2>1
<1>3. CASE Last(d) = 0
  <2> DEFINE c == <<3, 1, 1>>
  <2>1. c \in Seq(Nat) /\ Len(c) = 3 /\ c[3] = 1
    OBVIOUS
  <2>2. Guarded(d) = d \o c
    BY <1>1, <1>3 DEF Guarded
  <2>3. Unmarshal(d \o c) = Unmarshal(d)
    BY GuardUnknown
  <2> HIDE DEF c
  <2> DEFINE e == d \o c
  <2>4. /\ e \in Seq(Nat) /\ Len(e) = Len(d) + Len(c)
        /\ \A i \in 1 .. Len(d) + Len(c) : e[i] = IF i <= Len(d) THEN d[i] ELSE c[i - Len(d)]
    BY <2>1, ConcatProperties
  <2> HIDE DEF e
  <2>5. Len(e) = Len(d) + 3 /\ Len(e) \in 1 .. Len(d) + Len(c) /\ ~(Len(e) <= Len(d)) /\ Len(e) - Len(d) = 3
    BY <1>1, <2>1, <2>4
  <2>6. Last(e) = 1 /\ e # <<>>
    BY <2>1, <2>4, <2>5 DEF Last
  <2> QED BY <2>2, <2>3, <2>4, <2>5, <2>6 DEF e
<1> QED BY <1>2, <1>3

----------------------------------------------------------------------------
(* Bytes in their place.                                                   *)

\* The bytes t are in e after the first m.
At(e, m, t) == m + Len(t) <= Len(e) /\ \A i \in 1 .. Len(t) : e[m + i] = t[i]

\* As far as there are bytes in the stream s, they are those of e.
Agree(s, e) == \A j \in 1 .. Len(e) : j <= Len(s) => s[j] = e[j]

\* A concatenation puts one part behind the other.
LEMMA AtConcat ==
    ASSUME NEW a \in Seq(Nat), NEW b \in Seq(Nat)
    PROVE  /\ a \o b \in Seq(Nat) /\ Len(a \o b) = Len(a) + Len(b)
           /\ At(a \o b, 0, a) /\ At(a \o b, Len(a), b)
<1> DEFINE e == a \o b
<1>1. /\ e \in Seq(Nat) /\ Len(e) = Len(a) + Len(b)
      /\ \A i \in 1 .. Len(a) + Len(b) : e[i] = IF i <= Len(a) THEN a[i] ELSE b[i - Len(a)]
  BY ConcatProperties
<1>2. Len(a) \in Nat /\ Len(b) \in Nat
  OBVIOUS
<1> HIDE DEF e
<1>3. At(e, 0, a)
  <2>1. 0 + Len(a) <= Len(e)
    BY <1>1, <1>2
  <2>2. ASSUME NEW i \in 1 .. Len(a) PROVE e[0 + i] = a[i]
    <3>1. 0 + i = i /\ i \in 1 .. Len(a) + Len(b) /\ i <= Len(a)
      BY <1>2
    <3> QED BY <1>1, <3>1
  <2> QED BY <2>1, <2>2 DEF At
<1>4. At(e, Len(a), b)
  <2>1. Len(a) + Len(b) <= Len(e)
    BY <1>1, <1>2
  <2>2. ASSUME NEW i \in 1 .. Len(b) PROVE e[Len(a) + i] = b[i]
    <3>1. Len(a) + i \in 1 .. Len(a) + Len(b) /\ ~(Len(a) + i <= Len(a)) /\ (Len(a) + i) - Len(a) = i
      BY <1>2
    <3> QED BY <1>1, <3>1
  <2> QED BY <2>1, <2>2 DEF At
<1> QED BY <1>1, <1>3, <1>4 DEF e

\* A part of a part.
LEMMA AtWithin ==
    ASSUME NEW e \in Seq(Nat), NEW t \in Seq(Nat), NEW u \in Seq(Nat),
           NEW m \in Nat, NEW n \in Nat, At(e, m, t), At(t, n, u), NEW k, k = m + n
    PROVE  At(e, k, u)
<1>1. Len(e) \in Nat /\ Len(t) \in Nat /\ Len(u) \in Nat
  OBVIOUS
<1>2. m + Len(t) <= Len(e) /\ n + Len(u) <= Len(t)
  BY DEF At
<1>3. ASSUME NEW i \in 1 .. Len(u) PROVE e[(m + n) + i] = u[i]
  <2>1. n + i \in 1 .. Len(t) /\ (m + n) + i = m + (n + i)
    BY <1>1, <1>2
  <2>2. e[m + (n + i)] = t[n + i] /\ t[n + i] = u[i]
    BY <2>1 DEF At
  <2> QED BY <2>1, <2>2
<1>4. (m + n) + Len(u) <= Len(e)
  BY <1>1, <1>2
<1> QED BY <1>3, <1>4 DEF At

\* SubSeq cuts it out.
LEMMA AtSlice ==
    ASSUME NEW e \in Seq(Nat), NEW t \in Seq(Nat), NEW m \in Nat, At(e, m, t)
    PROVE  SubSeq(e, m + 1, m + Len(t)) = t
<1> DEFINE n == m + Len(t)
<1> DEFINE s == SubSeq(e, m + 1, n)
<1>1. Len(e) \in Nat /\ Len(t) \in Nat /\ n \in Nat /\ n <= Len(e) /\ n = m + Len(t)
  BY DEF At
<1>2. \A i \in 1 .. Len(t) : e[m + i] = t[i]
  BY DEF At
<1> HIDE DEF n
<1>3. \A i \in m + 1 .. n : e[i] \in Nat
  BY <1>1, ElementOfSeq
<1>4. /\ s \in Seq(Nat) /\ Len(s) = (IF m + 1 <= n THEN n - (m + 1) + 1 ELSE 0)
      /\ \A i \in 1 .. n - (m + 1) + 1 : s[i] = e[(m + 1) + i - 1]
  <2>1. m + 1 \in Int /\ n \in Int
    BY <1>1
  <2> QED BY <1>3, <2>1, SubSeqProperties
<1> HIDE DEF s
<1>5. Len(s) = Len(t) /\ n - (m + 1) + 1 = Len(t)
  BY <1>1, <1>4
<1>6. \A i \in 1 .. Len(s) : s[i] = t[i]
  <2> TAKE i \in 1 .. Len(s)
  <2>1. i \in 1 .. Len(t) /\ (m + 1) + i - 1 = m + i
    BY <1>5
  <2> QED BY <1>2, <1>4, <1>5, <2>1
<1>7. s = t
  BY <1>4, <1>5, <1>6, SeqEqual
<1> QED BY <1>7 DEF s, n

\* What is in e is in a stream that agrees with it, if it is long enough.
LEMMA AtAgree ==
    ASSUME NEW s \in Seq(Nat), NEW e \in Seq(Nat), Agree(s, e),
           NEW t \in Seq(Nat), NEW m \in Nat, At(e, m, t), Len(s) >= m + Len(t)
    PROVE  At(s, m, t)
<1>1. Len(s) \in Nat /\ Len(e) \in Nat /\ Len(t) \in Nat /\ m + Len(t) <= Len(e) /\ m + Len(t) <= Len(s)
  BY DEF At
<1>2. ASSUME NEW i \in 1 .. Len(t) PROVE s[m + i] = t[i]
  <2>1. i \in Nat /\ i >= 1 /\ i <= Len(t)
    BY <1>1
  <2>2. m + i \in 1 .. Len(e)
    BY <1>1, <2>1
  <2>3. m + i <= Len(s)
    BY <1>1, <2>1
  <2>4. s[m + i] = e[m + i]
    BY <2>2, <2>3 DEF Agree
  <2>5. e[m + i] = t[i]
    BY DEF At
  <2> QED BY <2>4, <2>5
<1> QED BY <1>1, <1>2 DEF At

\* All of it.
LEMMA AtWhole ==
    ASSUME NEW e \in Seq(Nat)
    PROVE  At(e, 0, e)
<1>1. 0 + Len(e) <= Len(e) /\ \A i \in 1 .. Len(e) : 0 + i = i
  OBVIOUS
<1> QED BY <1>1 DEF At

\* One byte.
LEMMA AtByte ==
    ASSUME NEW e \in Seq(Nat), NEW m \in Nat, NEW x \in Nat
    PROVE  At(e, m, <<x>>) <=> m + 1 <= Len(e) /\ e[m + 1] = x
<1>1. Len(<<x>>) = 1 /\ <<x>>[1] = x
  OBVIOUS
<1> DEFINE t == <<x>>
<1> HIDE DEF t
<1>2. Len(t) = 1 /\ t[1] = x
  BY <1>1 DEF t
<1>3. At(e, m, t) <=> m + 1 <= Len(e) /\ e[m + 1] = x
  BY <1>2 DEF At
<1> QED BY <1>3 DEF t

\* A stream whose header is known by its first hs bytes.
LEMMA Headed ==
    ASSUME NEW s \in Seq(Nat), NEW hs \in Nat \ {0}, NEW ps \in Nat,
           Len(s) >= hs => HeaderSize(s) = hs /\ PayloadSize(s) = ps,
           Len(s) > 0 /\ Len(s) < hs => ~(Len(s) >= HeaderSize(s))
    PROVE  /\ HasHeader(s) <=> Len(s) >= hs
           /\ Oversize(s) <=> Len(s) >= hs /\ ps > MaxFrame
           /\ HasFrame(s) <=> ps <= MaxFrame /\ Len(s) >= hs + ps
<1>1. Len(s) \in Nat /\ MaxFrame \in Nat
  BY MaxFrameAssumption
<1>2. HasHeader(s) <=> Len(s) >= hs
  BY <1>1 DEF HasHeader
<1>3. Oversize(s) <=> Len(s) >= hs /\ ps > MaxFrame
  BY <1>2 DEF Oversize
<1>4. HasFrame(s) <=> ps <= MaxFrame /\ Len(s) >= hs + ps
  <2>1. CASE Len(s) >= hs
    BY <1>1, <1>2, <1>3, <2>1 DEF HasFrame
  <2>2. CASE ~(Len(s) >= hs)
    BY <1>1, <1>2, <2>2 DEF HasFrame
  <2> QED BY <2>1, <2>2
<1> QED BY <1>2, <1>3, <1>4

\* The bytes that tell the layouts apart.
LEMMA FirstBytes ==
    /\ Base \in Nat /\ Base >= 6 /\ HighBit \in Nat /\ Base = 2 * HighBit /\ HighBit >= 3
    /\ PongPrefix = 0 /\ RawPrefix = Base - 1 /\ RawPrefix \in Nat /\ RawPrefix > HighBit
    /\ ExtendedPrefix \in Nat /\ 0 < ExtendedPrefix /\ ExtendedPrefix < HighBit
<1>1. Base \in Nat /\ Base >= 6 /\ HighBit \in Nat /\ Base = 2 * HighBit
  BY PrefixBytes, BytesAssumption
<1> QED BY <1>1, PrefixBytes DEF PongPrefix, RawPrefix

\* The history that a frame of the gateway leaves, and what readFrame makes of it.
Framed(e, x) ==
    /\ e \in Seq(Nat) /\ Len(e) > 0
    /\ \A s \in Seq(Nat) : Agree(s, e) =>
            /\ HasFrame(s) <=> x.kind # "long" /\ Len(s) >= Len(e)
            /\ Oversize(s) => x.kind = "long"
            /\ x.kind = "long" /\ Len(s) >= Len(e) => Oversize(s)
            /\ HasFrame(s) => /\ HeaderSize(s) + PayloadSize(s) = Len(e)
                              /\ Frame(s) = IF IsDeliverable(x) THEN {x} ELSE {}
                              /\ IsWs(s) /\ Opcode(s) = OpClose <=> x.kind = "close"

\* The answer to a ping.
LEMMA PongHeader ==
    ASSUME NEW c \in Nat, NEW e, e = <<PongPrefix>> \o Uint16(c),
           NEW s \in Seq(Nat), Agree(s, e)
    PROVE  /\ e \in Seq(Nat) /\ Len(e) = 3
           /\ HasFrame(s) <=> Len(s) >= 3
           /\ ~Oversize(s)
           /\ Len(s) > 0 => s[1] = PongPrefix /\ HeaderSize(s) = 3 /\ PayloadSize(s) = 0
           /\ Len(s) >= 3 => SubSeq(s, 2, 3) = Uint16(c) /\ SubSeq(s, 1, 3) = e
<1> DEFINE p == <<PongPrefix>>
<1> DEFINE u == Uint16(c)
<1>1. p \in Seq(Nat) /\ Len(p) = 1 /\ PongPrefix \in Nat
  BY FirstBytes
<1>2. u \in Seq(Nat) /\ Len(u) = 2
  <2>1. Uint16(c) \in Seq(Byte) /\ Len(Uint16(c)) = 2 /\ Byte \subseteq Nat
    BY Uint16Value, FirstBytes DEF Byte
  <2> QED BY <2>1, SeqMonotonic
<1>3. e = p \o u
  OBVIOUS
<1> HIDE DEF u
<1>4. e \in Seq(Nat) /\ Len(e) = 3 /\ At(e, 0, p) /\ At(e, 1, u)
  <2> HIDE DEF p
  <2>1. /\ p \o u \in Seq(Nat) /\ Len(p \o u) = Len(p) + Len(u)
        /\ At(p \o u, 0, p) /\ At(p \o u, Len(p), u)
    BY <1>1, <1>2, AtConcat
  <2>2. Len(p) + Len(u) = 3
    BY <1>1, <1>2
  <2> QED BY <1>1, <1>3, <2>1, <2>2
<1>5. Len(s) \in Nat
  OBVIOUS
<1>6. ASSUME Len(s) > 0 PROVE s[1] = PongPrefix /\ HeaderSize(s) = 3 /\ PayloadSize(s) = 0
  <2>1. At(s, 0, p)
    <3>1. Len(s) >= 0 + Len(p)
      BY <1>1, <1>5, <1>6
    <3> HIDE DEF p
    <3> QED BY <1>1, <1>4, <3>1, AtAgree
  <2>2. s[0 + 1] = PongPrefix /\ 0 + 1 = 1
    BY <1>1, <2>1, AtByte
  <2>3. s[1] = PongPrefix
    BY <2>2
  <2>4. s[1] # RawPrefix /\ ~IsWs(s)
    BY <2>3, FirstBytes DEF IsWs
  <2>5. HeaderSize(s) = 3
    BY <2>3, <2>4 DEF HeaderSize
  <2>6. PayloadSize(s) = 0
    BY <2>3, <2>4 DEF PayloadSize
  <2> QED BY <2>3, <2>5, <2>6
<1>7. /\ HasFrame(s) <=> 0 <= MaxFrame /\ Len(s) >= 3 + 0
      /\ Oversize(s) <=> Len(s) >= 3 /\ 0 > MaxFrame
  <2>1. /\ Len(s) >= 3 => HeaderSize(s) = 3 /\ PayloadSize(s) = 0
        /\ Len(s) > 0 /\ Len(s) < 3 => ~(Len(s) >= HeaderSize(s))
    BY <1>5, <1>6
  <2>2. 3 \in Nat \ {0} /\ 0 \in Nat
    OBVIOUS
  <2> QED BY <2>1, <2>2, Headed
<1>8. ASSUME Len(s) >= 3 PROVE SubSeq(s, 2, 3) = u /\ SubSeq(s, 1, 3) = e
  <2>1. At(s, 1, u)
    <3>1. Len(s) >= 1 + Len(u)
      BY <1>2, <1>5, <1>8
    <3> QED BY <1>2, <1>4, <3>1, AtAgree
  <2>2. At(s, 0, e)
    <3>1. Len(s) >= 0 + Len(e)
      BY <1>4, <1>5, <1>8
    <3>2. At(e, 0, e)
      BY <1>4, AtWhole
    <3> QED BY <1>4, <3>1, <3>2, AtAgree
  <2>3. SubSeq(s, 1 + 1, 1 + Len(u)) = u
    BY <1>2, <2>1, AtSlice
  <2>4. SubSeq(s, 0 + 1, 0 + Len(e)) = e
    BY <1>4, <2>2, AtSlice
  <2>5. 1 + 1 = 2 /\ 1 + Len(u) = 3 /\ 0 + 1 = 1 /\ 0 + Len(e) = 3
    BY <1>2, <1>4
  <2> QED BY <2>3, <2>4, <2>5
<1>9. MaxFrame \in Nat
  BY MaxFrameAssumption
<1>10. (HasFrame(s) <=> Len(s) >= 3) /\ ~Oversize(s)
  BY <1>5, <1>7, <1>9
<1> QED BY <1>4, <1>6, <1>8, <1>10 DEF u

\* readFrameOnce takes it for the pong of that cid, cut to 16 bits.
LEMMA PongFramed ==
    ASSUME NEW c \in Nat, NEW x, x = [kind |-> "pong", cid |-> c % (Base * Base)]
    PROVE  Framed(<<PongPrefix>> \o Uint16(c), x)
<1> DEFINE e == <<PongPrefix>> \o Uint16(c)
<1>1. e \in Seq(Nat) /\ Len(e) = 3
  <2>1. <<>> \in Seq(Nat) /\ Agree(<<>>, e)
    BY DEF Agree
  <2> QED BY <2>1, PongHeader
<1>2. ASSUME NEW s \in Seq(Nat), Agree(s, e)
      PROVE  /\ HasFrame(s) <=> Len(s) >= 3
             /\ ~Oversize(s)
             /\ Len(s) > 0 => s[1] = PongPrefix /\ HeaderSize(s) = 3 /\ PayloadSize(s) = 0
             /\ Len(s) >= 3 => SubSeq(s, 2, 3) = Uint16(c)
  BY <1>2, PongHeader
<1> HIDE DEF e
<1>3. x.kind = "pong" /\ x.kind # "long" /\ x.kind # "close" /\ IsDeliverable(x)
  BY DEF IsDeliverable
<1>4. ASSUME NEW s \in Seq(Nat), Agree(s, e), HasFrame(s)
      PROVE  /\ HeaderSize(s) + PayloadSize(s) = Len(e) /\ Frame(s) = {x} /\ ~IsWs(s)
  <2>1. Len(s) >= 3 /\ Len(s) > 0
    BY <1>2, <1>4
  <2>2. s[1] = PongPrefix /\ HeaderSize(s) = 3 /\ PayloadSize(s) = 0 /\ SubSeq(s, 2, 3) = Uint16(c)
    BY <1>2, <1>4, <2>1
  <2>3. BigEndian(Uint16(c)) = c % (Base * Base)
    BY Uint16Value
  <2>4. s[1] # RawPrefix /\ ~IsWs(s)
    BY <2>2, FirstBytes DEF IsWs
  <2>5. Frame(s) = {[kind |-> "pong", cid |-> BigEndian(SubSeq(s, 2, 3))]}
    BY <2>2, <2>4 DEF Frame
  <2>6. Frame(s) = {x}
    BY <2>2, <2>3, <2>5
  <2>7. 3 + 0 = Len(e)
    BY <1>1
  <2> QED BY <2>2, <2>4, <2>6, <2>7
<1>5. Len(e) > 0
  BY <1>1
<1>6. Framed(e, x)
  BY <1>1, <1>2, <1>3, <1>4, <1>5 DEF Framed
<1> QED BY <1>6 DEF e

\* An API chunk: after a header of 11 bytes on TCP, of 7 on the WebSocket, its body.
LEMMA ChunkFields ==
    ASSUME NEW x \in Chunks
    PROVE  /\ ChunkHeader(x) \in Seq(Nat) /\ Len(ChunkHeader(x)) = 7
           /\ ChunkHeader(x)[1] = RawPrefix
           /\ At(ChunkHeader(x), 1, Uint16(x.cid)) /\ At(ChunkHeader(x), 3, Uint16(x.code))
           /\ At(ChunkHeader(x), 5, Uint16(IF x.fin THEN RawCodeFin ELSE 0))
           /\ x.cid \in Nat /\ x.code \in Nat /\ x.fin \in BOOLEAN
           /\ BigEndian(Uint16(x.cid)) = x.cid /\ BigEndian(Uint16(x.code)) = x.code
           /\ BigEndian(Uint16(IF x.fin THEN RawCodeFin ELSE 0)) = RawCodeFin <=> x.fin
           /\ x.body \in Seq(Nat) /\ Len(x.body) <= MaxFrame
           /\ x = [kind |-> "chunk", cid |-> x.cid, code |-> x.code, fin |-> x.fin, body |-> x.body]
<1> DEFINE f == IF x.fin THEN RawCodeFin ELSE 0
<1> DEFINE bb == Base * Base
<1>1. bb \in Nat /\ bb > 0 /\ Base <= bb
  BY FirstBytes
<1>2. x.cid \in Nat /\ x.cid < bb
  <2>1. PICK c \in Cids : x.cid = c % bb
    BY DEF Chunks
  <2>2. c \in Nat
    BY ChunkAssumption
  <2> HIDE DEF bb
  <2>3. c % bb \in 0 .. bb - 1
    BY <1>1, <2>2, Division
  <2> QED BY <1>1, <2>1, <2>3
<1>3. x.code \in Nat /\ x.code < bb
  <2>1. x.code \in 0 .. bb - 1
    BY ChunkAssumption DEF Chunks
  <2> HIDE DEF bb
  <2> QED BY <1>1, <2>1
<1>4. x.fin \in BOOLEAN /\ x.body \in Bodies
  BY DEF Chunks
<1>5. f \in Nat /\ f < bb /\ (f = RawCodeFin <=> x.fin)
  <2>1. RawCodeFin \in Nat /\ RawCodeFin < Base /\ RawCodeFin # 0
    BY FirstBytes DEF RawCodeFin
  <2> HIDE DEF bb
  <2> QED BY <1>1, <1>4, <2>1, FirstBytes
<1>6. x.body \in Seq(Nat) /\ Len(x.body) <= MaxFrame
  <2>1. x.body \in Seq(Byte) /\ Len(x.body) <= MaxFrame
    BY <1>4, ChunkAssumption
  <2>2. Byte \subseteq Nat
    BY FirstBytes DEF Byte
  <2> QED BY <2>1, <2>2, SeqMonotonic
<1>7. x = [kind |-> "chunk", cid |-> x.cid, code |-> x.code, fin |-> x.fin, body |-> x.body]
  BY DEF Chunks
<1> HIDE DEF f
<1> DEFINE p == <<RawPrefix>>
<1> DEFINE u == Uint16(x.cid)
<1> DEFINE v == Uint16(x.code)
<1> DEFINE w == Uint16(f)
<1>8. p \in Seq(Nat) /\ Len(p) = 1 /\ p[1] = RawPrefix /\ RawPrefix \in Nat
  BY FirstBytes
<1>9. ASSUME NEW n \in Nat, n < bb
      PROVE  Uint16(n) \in Seq(Nat) /\ Len(Uint16(n)) = 2 /\ BigEndian(Uint16(n)) = n
  <2>1. Uint16(n) \in Seq(Byte) /\ Len(Uint16(n)) = 2 /\ BigEndian(Uint16(n)) = n
    BY <1>9, Uint16Value
  <2>2. Byte \subseteq Nat
    BY FirstBytes DEF Byte
  <2> QED BY <2>1, <2>2, SeqMonotonic
<1> HIDE DEF bb
<1>10. /\ u \in Seq(Nat) /\ Len(u) = 2 /\ BigEndian(u) = x.cid
       /\ v \in Seq(Nat) /\ Len(v) = 2 /\ BigEndian(v) = x.code
       /\ w \in Seq(Nat) /\ Len(w) = 2 /\ BigEndian(w) = f
  BY <1>2, <1>3, <1>5, <1>9
<1>11. ChunkHeader(x) = ((p \o u) \o v) \o w
  BY DEF ChunkHeader, f
<1> HIDE DEF p, u, v, w
<1>12. /\ p \o u \in Seq(Nat) /\ Len(p \o u) = 3 /\ At(p \o u, 0, p) /\ At(p \o u, 1, u)
  <2>1. /\ p \o u \in Seq(Nat) /\ Len(p \o u) = Len(p) + Len(u)
        /\ At(p \o u, 0, p) /\ At(p \o u, Len(p), u)
    BY <1>8, <1>10, AtConcat
  <2>2. Len(p) = 1 /\ Len(p) + Len(u) = 3
    BY <1>8, <1>10
  <2> QED BY <2>1, <2>2
<1> DEFINE a == p \o u
<1> HIDE DEF a
<1>13. /\ a \o v \in Seq(Nat) /\ Len(a \o v) = 5
       /\ At(a \o v, 0, p) /\ At(a \o v, 1, u) /\ At(a \o v, 3, v)
  <2>1. a \in Seq(Nat) /\ Len(a) = 3 /\ At(a, 0, p) /\ At(a, 1, u)
    BY <1>12 DEF a
  <2>2. a \o v \in Seq(Nat) /\ Len(a \o v) = 5 /\ At(a \o v, 0, a) /\ At(a \o v, 3, v)
    <3>1. /\ a \o v \in Seq(Nat) /\ Len(a \o v) = Len(a) + Len(v)
          /\ At(a \o v, 0, a) /\ At(a \o v, Len(a), v)
      BY <1>10, <2>1, AtConcat
    <3>2. Len(a) = 3 /\ Len(a) + Len(v) = 5
      BY <1>10, <2>1
    <3> QED BY <3>1, <3>2
  <2>3. At(a \o v, 0, p)
    <3>1. 0 = 0 + 0
      OBVIOUS
    <3> QED BY <1>8, <1>10, <2>1, <2>2, <3>1, AtWithin
  <2>4. At(a \o v, 1, u)
    <3>1. 1 = 0 + 1
      OBVIOUS
    <3> QED BY <1>8, <1>10, <2>1, <2>2, <3>1, AtWithin
  <2> QED BY <2>2, <2>3, <2>4
<1> DEFINE b == a \o v
<1> HIDE DEF b
<1> DEFINE h == b \o w
<1>14. /\ h \in Seq(Nat) /\ Len(h) = 7
       /\ At(h, 0, p) /\ At(h, 1, u) /\ At(h, 3, v) /\ At(h, 5, w)
  <2>1. b \in Seq(Nat) /\ Len(b) = 5 /\ At(b, 0, p) /\ At(b, 1, u) /\ At(b, 3, v)
    BY <1>13 DEF b
  <2>2. h \in Seq(Nat) /\ Len(h) = 7 /\ At(h, 0, b) /\ At(h, 5, w)
    <3>1. /\ b \o w \in Seq(Nat) /\ Len(b \o w) = Len(b) + Len(w)
          /\ At(b \o w, 0, b) /\ At(b \o w, Len(b), w)
      BY <1>10, <2>1, AtConcat
    <3>2. Len(b) = 5 /\ Len(b) + Len(w) = 7
      BY <1>10, <2>1
    <3> QED BY <3>1, <3>2
  <2>3. 0 = 0 + 0 /\ 1 = 0 + 1 /\ 3 = 0 + 3
    OBVIOUS
  <2> HIDE DEF h
  <2>4. At(h, 0, p)
    BY <1>8, <2>1, <2>2, <2>3, AtWithin
  <2>5. At(h, 1, u)
    BY <1>10, <2>1, <2>2, <2>3, AtWithin
  <2>6. At(h, 3, v)
    BY <1>10, <2>1, <2>2, <2>3, AtWithin
  <2> QED BY <2>2, <2>4, <2>5, <2>6
<1>15. ChunkHeader(x) = h
  BY <1>11 DEF a, b
<1> HIDE DEF h
<1>16. h[1] = RawPrefix
  <2>1. h[0 + 1] = p[1]
    BY <1>8, <1>14 DEF At
  <2> QED BY <1>8, <2>1
<1> QED BY <1>2, <1>3, <1>4, <1>5, <1>6, <1>7, <1>10, <1>14, <1>15, <1>16 DEF f, u, v, w

\* What the bytes of a chunk are read back as.
LEMMA ChunkRead ==
    ASSUME NEW x \in Chunks, NEW e \in Seq(Nat), NEW n \in {7, 11},
           At(e, 0, ChunkHeader(x)), At(e, n, x.body), Len(e) = n + Len(x.body)
    PROVE  Chunk(e, n) = x
<1> DEFINE f == IF x.fin THEN RawCodeFin ELSE 0
<1>1. /\ ChunkHeader(x) \in Seq(Nat) /\ Len(ChunkHeader(x)) = 7
      /\ At(ChunkHeader(x), 1, Uint16(x.cid)) /\ At(ChunkHeader(x), 3, Uint16(x.code))
      /\ At(ChunkHeader(x), 5, Uint16(f))
      /\ BigEndian(Uint16(x.cid)) = x.cid /\ BigEndian(Uint16(x.code)) = x.code
      /\ BigEndian(Uint16(f)) = RawCodeFin <=> x.fin
      /\ x.cid \in Nat /\ x.code \in Nat /\ x.fin \in BOOLEAN /\ x.body \in Seq(Nat)
      /\ x = [kind |-> "chunk", cid |-> x.cid, code |-> x.code, fin |-> x.fin, body |-> x.body]
  BY ChunkFields
<1>2. f \in Nat
  BY FirstBytes DEF RawCodeFin
<1> HIDE DEF f
<1>3. ASSUME NEW m \in Nat, NEW c \in Nat, At(ChunkHeader(x), m, Uint16(c))
      PROVE  SubSeq(e, m + 1, m + 2) = Uint16(c)
  <2>1. Uint16(c) \in Seq(Nat) /\ Len(Uint16(c)) = 2
    <3>1. Uint16(c) \in Seq(Byte) /\ Len(Uint16(c)) = 2 /\ Byte \subseteq Nat
      BY Uint16Value, FirstBytes DEF Byte
    <3> QED BY <3>1, SeqMonotonic
  <2>2. m = 0 + m /\ 0 \in Nat
    OBVIOUS
  <2>3. At(e, m, Uint16(c))
    BY <1>1, <1>3, <2>1, <2>2, AtWithin
  <2>4. SubSeq(e, m + 1, m + Len(Uint16(c))) = Uint16(c)
    BY <2>1, <2>3, AtSlice
  <2> QED BY <2>1, <2>4
<1>4. SubSeq(e, 2, 3) = Uint16(x.cid)
  <2>1. SubSeq(e, 1 + 1, 1 + 2) = Uint16(x.cid)
    BY <1>1, <1>3
  <2> QED BY <2>1
<1>5. SubSeq(e, 4, 5) = Uint16(x.code)
  <2>1. SubSeq(e, 3 + 1, 3 + 2) = Uint16(x.code)
    BY <1>1, <1>3
  <2> QED BY <2>1
<1>6. SubSeq(e, 6, 7) = Uint16(f)
  <2>1. SubSeq(e, 5 + 1, 5 + 2) = Uint16(f)
    BY <1>1, <1>2, <1>3
  <2> QED BY <2>1
<1>7. SubSeq(e, n + 1, Len(e)) = x.body
  <2>1. n \in Nat
    OBVIOUS
  <2>2. SubSeq(e, n + 1, n + Len(x.body)) = x.body
    BY <1>1, <2>1, AtSlice
  <2> QED BY <2>2
<1>8. (BigEndian(SubSeq(e, 6, 7)) = RawCodeFin) = x.fin
  BY <1>1, <1>6
<1>9. Chunk(e, n) = [kind |-> "chunk", cid |-> x.cid, code |-> x.code, fin |-> x.fin, body |-> x.body]
  <2>1. BigEndian(SubSeq(e, 2, 3)) = x.cid /\ BigEndian(SubSeq(e, 4, 5)) = x.code
    BY <1>1, <1>4, <1>5
  <2> QED BY <1>7, <1>8, <2>1 DEF Chunk
<1> QED BY <1>1, <1>9

\* An API chunk on TCP.
LEMMA ChunkFramed ==
    ASSUME NEW x \in Chunks
    PROVE  Framed(ChunkHeader(x) \o Uint32(Len(x.body)) \o x.body, x)
<1> DEFINE h == ChunkHeader(x)
<1> DEFINE u == Uint32(Len(x.body))
<1> DEFINE t == x.body
<1>1. /\ h \in Seq(Nat) /\ Len(h) = 7 /\ h[1] = RawPrefix
      /\ t \in Seq(Nat) /\ Len(t) \in Nat /\ Len(t) <= MaxFrame /\ MaxFrame \in Nat
      /\ x = [kind |-> "chunk", cid |-> x.cid, code |-> x.code, fin |-> x.fin, body |-> x.body]
  BY ChunkFields, MaxFrameAssumption
<1>2. u \in Seq(Nat) /\ Len(u) = 4 /\ BigEndian(u) = Len(t)
  <2>1. PICK n \in Nat : n = Len(t)
    BY <1>1
  <2> DEFINE limit == Base * Base * Base * Base
  <2>2. limit \in Nat /\ MaxFrame < limit
    BY FirstBytes, BytesAssumption
  <2>3. n < limit
    <3> HIDE DEF limit
    <3> QED BY <1>1, <2>1, <2>2
  <2>4. Uint32(n) \in Seq(Byte) /\ Len(Uint32(n)) = 4 /\ BigEndian(Uint32(n)) = n
    BY <2>3, Uint32Value
  <2>5. Byte \subseteq Nat
    BY FirstBytes DEF Byte
  <2>6. Uint32(n) \in Seq(Nat)
    BY <2>4, <2>5, SeqMonotonic
  <2> QED BY <2>1, <2>4, <2>6
<1> HIDE DEF h, u
<1> DEFINE a == h \o u
<1>3. a \in Seq(Nat) /\ Len(a) = 11 /\ At(a, 0, h) /\ At(a, 7, u)
  <2>1. /\ h \o u \in Seq(Nat) /\ Len(h \o u) = Len(h) + Len(u)
        /\ At(h \o u, 0, h) /\ At(h \o u, Len(h), u)
    BY <1>1, <1>2, AtConcat
  <2>2. Len(h) = 7 /\ Len(h) + Len(u) = 11
    BY <1>1, <1>2
  <2> QED BY <2>1, <2>2
<1> HIDE DEF a
<1> DEFINE e == a \o t
<1>4. /\ e \in Seq(Nat) /\ Len(e) = 11 + Len(t)
      /\ At(e, 0, a) /\ At(e, 11, t) /\ At(e, 0, h) /\ At(e, 7, u)
  <2>1. e \in Seq(Nat) /\ Len(e) = 11 + Len(t) /\ At(e, 0, a) /\ At(e, 11, t)
    <3>1. /\ e \in Seq(Nat) /\ Len(e) = Len(a) + Len(t)
          /\ At(e, 0, a) /\ At(e, Len(a), t)
      BY <1>1, <1>3, AtConcat
    <3> HIDE DEF e, t
    <3> QED BY <1>3, <3>1
  <2> HIDE DEF e, t
  <2>2. 0 = 0 + 0 /\ 7 = 0 + 7
    OBVIOUS
  <2>3. At(e, 0, h)
    BY <1>1, <1>3, <2>1, <2>2, AtWithin
  <2>4. At(e, 7, u)
    BY <1>2, <1>3, <2>1, <2>2, AtWithin
  <2> QED BY <2>1, <2>3, <2>4
<1> HIDE DEF e
<1>5. e[1] = RawPrefix
  <2>1. e[0 + 1] = h[1]
    BY <1>1, <1>4 DEF At
  <2> QED BY <1>1, <2>1
<1>6. x.kind = "chunk" /\ x.kind # "long" /\ x.kind # "close" /\ IsDeliverable(x)
  BY <1>1 DEF IsDeliverable
<1>7. ASSUME NEW s \in Seq(Nat), Agree(s, e)
      PROVE  /\ HasFrame(s) <=> Len(s) >= Len(e)
             /\ ~Oversize(s)
             /\ Len(s) >= Len(e) => HeaderSize(s) + PayloadSize(s) = Len(e) /\ Frame(s) = {x} /\ ~IsWs(s)
  <2>1. Len(s) \in Nat
    OBVIOUS
  <2>2. ASSUME Len(s) > 0 PROVE s[1] = RawPrefix /\ s[1] # PongPrefix /\ ~IsWs(s) /\ HeaderSize(s) = 11
    <3>1. s[1] = e[1]
      <4>1. 1 \in 1 .. Len(e) /\ 1 <= Len(s)
        BY <1>1, <1>4, <2>1, <2>2
      <4> QED BY <1>7, <4>1 DEF Agree
    <3>2. s[1] = RawPrefix /\ s[1] # PongPrefix
      BY <1>5, <3>1, FirstBytes
    <3>3. ~IsWs(s)
      BY <3>2 DEF IsWs
    <3> QED BY <3>2, <3>3 DEF HeaderSize
  <2>3. ASSUME Len(s) >= 11 PROVE PayloadSize(s) = Len(t)
    <3>1. At(s, 7, u)
      <4>1. Len(s) >= 7 + Len(u)
        BY <1>2, <2>1, <2>3
      <4> QED BY <1>2, <1>4, <1>7, <4>1, AtAgree
    <3>2. SubSeq(s, 7 + 1, 7 + Len(u)) = u
      BY <1>2, <3>1, AtSlice
    <3>3. SubSeq(s, 8, 11) = u
      BY <1>2, <3>2
    <3>4. s[1] = RawPrefix /\ s[1] # PongPrefix /\ ~IsWs(s)
      BY <2>1, <2>2, <2>3
    <3>5. PayloadSize(s) = BigEndian(SubSeq(s, 8, 11))
      BY <3>4 DEF PayloadSize
    <3> QED BY <1>2, <3>3, <3>5
  <2>4. /\ HasFrame(s) <=> Len(t) <= MaxFrame /\ Len(s) >= 11 + Len(t)
        /\ Oversize(s) <=> Len(s) >= 11 /\ Len(t) > MaxFrame
    <3>1. /\ Len(s) >= 11 => HeaderSize(s) = 11 /\ PayloadSize(s) = Len(t)
          /\ Len(s) > 0 /\ Len(s) < 11 => ~(Len(s) >= HeaderSize(s))
      BY <2>1, <2>2, <2>3
    <3>2. 11 \in Nat \ {0}
      OBVIOUS
    <3> QED BY <1>1, <3>1, <3>2, Headed
  <2>5. (HasFrame(s) <=> Len(s) >= Len(e)) /\ ~Oversize(s)
    BY <1>1, <1>4, <2>4
  <2>6. ASSUME Len(s) >= Len(e)
        PROVE  HeaderSize(s) + PayloadSize(s) = Len(e) /\ Frame(s) = {x} /\ ~IsWs(s)
    <3>1. Len(s) > 0 /\ Len(s) >= 11
      BY SMTT(30), <1>1, <1>4, <2>1, <2>6
    <3>2. s[1] = RawPrefix /\ s[1] # PongPrefix /\ ~IsWs(s) /\ HeaderSize(s) = 11 /\ PayloadSize(s) = Len(t)
      BY <2>2, <2>3, <3>1
    <3>3. SubSeq(s, 1, Len(e)) = e
      <4>1. At(e, 0, e) /\ Len(s) >= 0 + Len(e)
        BY <1>4, <2>1, <2>6, AtWhole
      <4>2. At(s, 0, e)
        BY <1>4, <1>7, <4>1, AtAgree
      <4>3. SubSeq(s, 0 + 1, 0 + Len(e)) = e
        BY <1>4, <4>2, AtSlice
      <4>4. 0 + 1 = 1 /\ 0 + Len(e) = Len(e)
        BY <1>4
      <4> QED BY <4>3, <4>4
    <3>4. Frame(s) = {Chunk(SubSeq(s, 1, 11 + PayloadSize(s)), 11)}
      BY <3>2 DEF Frame
    <3>5. 11 + PayloadSize(s) = Len(e)
      BY <1>4, <3>2
    <3>6. Chunk(e, 11) = x
      <4>1. At(e, 0, ChunkHeader(x)) /\ At(e, 11, x.body) /\ Len(e) = 11 + Len(x.body)
        BY <1>4 DEF h
      <4> QED BY <1>4, <4>1, ChunkRead
    <3> QED BY <3>2, <3>3, <3>4, <3>5, <3>6
  <2> QED BY <2>5, <2>6
<1>8. Len(e) > 0
  BY <1>1, <1>4
<1>9. Framed(e, x)
  BY <1>4, <1>6, <1>7, <1>8 DEF Framed
<1> QED BY <1>9 DEF e, a, h, u

\* What is assumed of an envelope.
LEMMA EnvelopeBytes ==
    ASSUME NEW d \in Envelopes
    PROVE  /\ d \in Seq(Byte) /\ d \in Seq(Nat) /\ Len(d) > 0 /\ Unmarshal(d) # {}
           /\ Len(d) + 3 < 4 * (Base * Base * Base) /\ Len(d) + 6 < 4 * (Base * Base * Base)
<1>1. d \in Seq(Byte) /\ d # <<>> /\ Unmarshal(d) # {} /\ Len(d) + 6 < 4 * (Base * Base * Base)
  BY PayloadAssumption DEF Fits
<1>2. Byte \subseteq Nat
  BY FirstBytes DEF Byte
<1>3. d \in Seq(Nat)
  BY <1>1, <1>2, SeqMonotonic
<1>4. Len(d) > 0 /\ Len(d) \in Nat
  BY <1>1, <1>3
<1> DEFINE cube == 4 * (Base * Base * Base)
<1>5. cube \in Nat
  BY FirstBytes
<1>6. Len(d) + 6 < cube
  BY <1>1
<1> HIDE DEF cube
<1>7. Len(d) + 3 < cube
  BY <1>4, <1>5, <1>6
<1> QED BY <1>1, <1>3, <1>4, <1>7 DEF cube

----------------------------------------------------------------------------
(* Abridged frames.                                                        *)

\* An abridged frame e: a header h that announces what follows, and that, t.
AbridgedAs(e, h, t) ==
    /\ e \in Seq(Nat) /\ h \in Seq(Nat) /\ t \in Seq(Nat)
    /\ Len(e) = Len(h) + Len(t) /\ At(e, 0, h) /\ At(e, Len(h), t)
    /\ Len(h) = AbridgedHeaderSize(h[1]) /\ 4 * AbridgedQuads(h) = Len(t)
    /\ h[1] \in Nat /\ 0 < h[1] /\ h[1] < HighBit

\* encodeAbridgedFrame builds one of the payload and its padding.
LEMMA AbridgedLayout ==
    ASSUME NEW d \in Seq(Nat), Len(d) > 0, Len(d) + 3 < 4 * (Base * Base * Base)
    PROVE  \E h : AbridgedAs(EncodeAbridged(d), h, d \o Zeros(Padding(Len(d))))
<1> DEFINE n == Len(d)
<1> DEFINE q == PaddedQuads(n)
<1> DEFINE p == Padding(n)
<1> DEFINE cube == Base * Base * Base
<1> DEFINE h == AbridgedHeader(q)
<1> DEFINE t == d \o Zeros(p)
<1>1. n \in Nat /\ n > 0 /\ n + 3 < 4 * cube /\ cube \in Nat
  BY FirstBytes
<1>2. p \in 0 .. 3 /\ 4 * q = n + p
  BY <1>1, PaddingFits
<1>3. q \in Nat
  BY <1>1 DEF PaddedQuads, Padding
<1>4. q # 0 /\ q < cube
  <2> HIDE DEF n, q, p, cube
  <2> QED BY <1>1, <1>2, <1>3
<1>5. AbridgedQuads(h) = q /\ Len(h) = AbridgedHeaderSize(h[1])
  BY <1>3, <1>4, HeaderRoundTrip
<1>6. h[1] < HighBit /\ (h[1] = PongPrefix <=> q = 0) /\ \A i \in 1 .. Len(h) : h[i] \in Byte
  BY <1>3, <1>4, HeaderDistinct
<1>7. h \in Seq(Nat) /\ Len(h) \in {1, 4}
  <2>1. CASE q < ExtendedPrefix
    <3>1. h = <<q>>
      BY <2>1 DEF AbridgedHeader
    <3> QED BY <1>3, <3>1
  <2>2. CASE ~(q < ExtendedPrefix)
    <3>1. h = <<ExtendedPrefix, Little3(q)[1], Little3(q)[2], Little3(q)[3]>>
      BY <2>2 DEF AbridgedHeader
    <3>2. \A i \in 1 .. 3 : Little3(q)[i] \in Byte
      BY <1>3, <1>4, LittleEndian
    <3>3. ExtendedPrefix \in Nat /\ Byte \subseteq Nat
      BY FirstBytes DEF Byte
    <3>4. Little3(q)[1] \in Nat /\ Little3(q)[2] \in Nat /\ Little3(q)[3] \in Nat
      <4>1. 1 \in 1 .. 3 /\ 2 \in 1 .. 3 /\ 3 \in 1 .. 3
        OBVIOUS
      <4> QED BY <3>2, <3>3, <4>1, Zenon
    <3> QED BY <3>1, <3>3, <3>4
  <2> QED BY <2>1, <2>2
<1>8. h[1] \in Nat /\ 0 < h[1]
  <2>1. h[1] \in Byte
    BY <1>6, <1>7
  <2>2. h[1] # 0
    BY <1>4, <1>6, FirstBytes
  <2> QED BY <2>1, <2>2, FirstBytes DEF Byte
<1> DEFINE z == Zeros(p)
<1>9. z \in Seq(Nat) /\ Len(z) = p
  <2>1. p \in Nat
    BY <1>2
  <2> QED BY <2>1, ZerosBytes
<1>10. t \in Seq(Nat) /\ Len(t) = n + p
  BY <1>9, AtConcat
<1>11. EncodeAbridged(d) = h \o t
  <2>1. EncodeAbridged(d) = (h \o d) \o z
    BY DEF EncodeAbridged
  <2>2. (h \o d) \o z = h \o (d \o z)
    <3>1. h \in Seq(Nat) /\ d \in Seq(Nat) /\ z \in Seq(Nat)
      BY <1>7, <1>9
    <3> HIDE DEF z, h
    <3> QED BY SMTT(30), <3>1
  <2> QED BY <2>1, <2>2
<1>12. /\ h \o t \in Seq(Nat) /\ Len(h \o t) = Len(h) + Len(t)
       /\ At(h \o t, 0, h) /\ At(h \o t, Len(h), t)
  BY <1>7, <1>10, AtConcat
<1>13. 4 * AbridgedQuads(h) = Len(t)
  BY <1>2, <1>5, <1>10
<1>14. AbridgedAs(h \o t, h, t)
  <2> HIDE DEF h, t
  <2> QED BY <1>5, <1>6, <1>7, <1>8, <1>10, <1>12, <1>13 DEF AbridgedAs
<1>15. AbridgedAs(EncodeAbridged(d), h, t)
  <2> HIDE DEF h, t
  <2> QED BY <1>11, <1>14
<1> QED BY <1>15

\* What readFrameOnce finds at the head of a stream that starts with it.
LEMMA AbridgedRead ==
    ASSUME NEW e, NEW h, NEW t, AbridgedAs(e, h, t), NEW s \in Seq(Nat), Agree(s, e)
    PROVE  /\ e \in Seq(Nat) /\ Len(e) > 0
           /\ HasFrame(s) <=> Len(t) <= MaxFrame /\ Len(s) >= Len(e)
           /\ Oversize(s) => Len(t) > MaxFrame
           /\ Len(t) > MaxFrame /\ Len(s) >= Len(e) => Oversize(s)
           /\ HasFrame(s) => /\ s[1] # PongPrefix /\ s[1] # RawPrefix /\ ~IsWs(s)
                             /\ HeaderSize(s) + PayloadSize(s) = Len(e)
                             /\ Payload(s) = t
<1> DEFINE first == h[1]
<1>1. /\ e \in Seq(Nat) /\ Len(e) = Len(h) + Len(t)
      /\ At(e, 0, h) /\ At(e, Len(h), t)
      /\ h \in Seq(Nat) /\ t \in Seq(Nat)
      /\ Len(h) = AbridgedHeaderSize(h[1]) /\ 4 * AbridgedQuads(h) = Len(t)
      /\ first \in Nat /\ 0 < first /\ first < HighBit /\ first = h[1]
  BY DEF AbridgedAs
<1> HIDE DEF first
<1>2. /\ Len(h) \in Nat \ {0} /\ Len(t) \in Nat /\ Len(s) \in Nat /\ Len(e) \in Nat /\ MaxFrame \in Nat
      /\ Len(h) = IF first = ExtendedPrefix THEN 4 ELSE 1
  <2>1. Len(h) = IF first = ExtendedPrefix THEN 4 ELSE 1
    BY <1>1 DEF AbridgedHeaderSize
  <2> QED BY <1>1, <2>1, MaxFrameAssumption
<1>3. ASSUME Len(s) > 0
      PROVE  /\ s[1] = first /\ s[1] # PongPrefix /\ s[1] # RawPrefix /\ ~IsWs(s)
             /\ HeaderSize(s) = Len(h)
  <2>1. s[1] = e[1]
    <3>1. 1 \in 1 .. Len(e) /\ 1 <= Len(s)
      BY <1>1, <1>2, <1>3
    <3> QED BY <3>1 DEF Agree
  <2>2. e[0 + 1] = h[1]
    <3>1. 1 \in 1 .. Len(h)
      BY <1>2
    <3> QED BY <1>1, <3>1 DEF At
  <2>3. s[1] = first
    BY <1>1, <2>1, <2>2
  <2>4. s[1] # PongPrefix /\ s[1] # RawPrefix /\ ~IsWs(s)
    BY SMTT(30), <1>1, <2>3, FirstBytes DEF IsWs
  <2>5. HeaderSize(s) = AbridgedHeaderSize(s[1])
    BY <2>4 DEF HeaderSize
  <2> QED BY <1>1, <2>3, <2>4, <2>5
<1>4. ASSUME Len(s) >= Len(h) PROVE PayloadSize(s) = Len(t)
  <2>1. Len(s) > 0 /\ Len(s) >= 0 + Len(h)
    BY <1>2, <1>4
  <2>2. At(s, 0, h)
    BY <1>1, <2>1, AtAgree
  <2>3. ASSUME NEW i \in 1 .. Len(h) PROVE s[i] = h[i]
    <3>1. s[0 + i] = h[i] /\ 0 + i = i
      BY <1>2, <2>2 DEF At
    <3> QED BY <3>1
  <2>4. AbridgedQuads(s) = AbridgedQuads(h)
    <3>1. s[1] = h[1] /\ h[1] = first
      BY <1>1, <1>3, <2>1
    <3>2. CASE first = ExtendedPrefix
      <4>1. s[2] = h[2] /\ s[3] = h[3] /\ s[4] = h[4]
        BY <1>2, <2>3, <3>2
      <4> QED BY <3>1, <3>2, <4>1 DEF AbridgedQuads
    <3>3. CASE first # ExtendedPrefix
      BY <3>1, <3>3 DEF AbridgedQuads
    <3> QED BY <3>2, <3>3
  <2>5. PayloadSize(s) = 4 * AbridgedQuads(s)
    <3>1. s[1] # PongPrefix /\ s[1] # RawPrefix /\ ~IsWs(s)
      BY <1>3, <2>1
    <3> QED BY <3>1 DEF PayloadSize
  <2> QED BY <1>1, <2>4, <2>5
<1>5. /\ Oversize(s) <=> Len(s) >= Len(h) /\ Len(t) > MaxFrame
      /\ HasFrame(s) <=> Len(t) <= MaxFrame /\ Len(s) >= Len(h) + Len(t)
  <2>1. /\ Len(s) >= Len(h) => HeaderSize(s) = Len(h) /\ PayloadSize(s) = Len(t)
        /\ Len(s) > 0 /\ Len(s) < Len(h) => ~(Len(s) >= HeaderSize(s))
    BY <1>2, <1>3, <1>4
  <2> QED BY <1>2, <2>1, Headed
<1>6. ASSUME HasFrame(s)
      PROVE  /\ s[1] # PongPrefix /\ s[1] # RawPrefix /\ ~IsWs(s)
             /\ HeaderSize(s) + PayloadSize(s) = Len(e)
             /\ Payload(s) = t
  <2>1. Len(s) > 0 /\ Len(s) >= Len(h) /\ Len(s) >= Len(h) + Len(t)
    BY <1>2, <1>5, <1>6
  <2>2. HeaderSize(s) = Len(h) /\ PayloadSize(s) = Len(t)
    BY <1>3, <1>4, <2>1
  <2>3. At(s, Len(h), t)
    BY <1>1, <1>2, <2>1, AtAgree
  <2>4. SubSeq(s, Len(h) + 1, Len(h) + Len(t)) = t
    BY <1>1, <1>2, <2>3, AtSlice
  <2>5. Payload(s) = t
    BY <2>2, <2>4 DEF Payload
  <2> QED BY <1>1, <1>3, <2>1, <2>2, <2>5
<1>7. Len(e) > 0 /\ (Len(s) >= Len(e) => Len(s) >= Len(h))
  BY <1>1, <1>2
<1>8. HasFrame(s) <=> Len(t) <= MaxFrame /\ Len(s) >= Len(e)
  BY <1>1, <1>5
<1> QED BY <1>1, <1>5, <1>6, <1>7, <1>8

\* The limit on a frame is a whole number of groups of four.
LEMMA PaddedLimit ==
    ASSUME NEW n \in Nat
    PROVE  n + Padding(n) > MaxFrame <=> n > MaxFrame
<1> DEFINE p == Padding(n)
<1> DEFINE q == PaddedQuads(n)
<1>1. p \in 0 .. 3 /\ 4 * q = n + p
  BY PaddingFits
<1>2. q \in Nat
  BY DEF PaddedQuads, Padding
<1>3. PICK m \in Nat : MaxFrame = 4 * m
  <2>1. MaxFrame \in Nat /\ MaxFrame % 4 = 0
    BY MaxFrameAssumption, BytesAssumption
  <2>2. MaxFrame \div 4 \in Nat /\ MaxFrame = 4 * (MaxFrame \div 4) + (MaxFrame % 4)
    BY <2>1, Division
  <2>3. MaxFrame = 4 * (MaxFrame \div 4)
    BY <2>1, <2>2
  <2> QED BY <2>2, <2>3
<1> HIDE DEF p, q
<1>4. n + p > 4 * m <=> n > 4 * m
  BY <1>1, <1>2, <1>3
<1> QED BY <1>3, <1>4 DEF p

\* A reply: the envelope is found under whatever padding it got.
LEMMA AbridgedFramed ==
    ASSUME NEW d \in Envelopes, NEW f \in Unmarshal(d), NEW x,
           x = [kind |-> IF Len(d) > MaxFrame THEN "long" ELSE "envelope", fields |-> f]
    PROVE  Framed(EncodeAbridged(d), x)
<1> DEFINE e == EncodeAbridged(d)
<1> DEFINE p == Padding(Len(d))
<1> DEFINE t == d \o Zeros(p)
<1>1. d \in Seq(Nat) /\ Len(d) > 0 /\ Len(d) + 3 < 4 * (Base * Base * Base) /\ Unmarshal(d) # {}
  BY EnvelopeBytes
<1>2. Len(d) \in Nat /\ p \in 0 .. 3 /\ p \in Nat
  BY <1>1, PaddingFits
<1>3. Len(t) = Len(d) + p
  BY <1>1, <1>2, Padded
<1>4. Unmarshal(d) = {f}
  BY <1>1, UnmarshalUnique
<1>5. UnmarshalEnvelope(t, TRUE) = {f}
  BY <1>1, <1>2, <1>4, UnmarshalPadded
<1>6. Len(t) > MaxFrame <=> x.kind = "long"
  BY <1>2, <1>3, PaddedLimit
<1>7. x.kind \in {"long", "envelope"} /\ (x.kind # "long" => x = [kind |-> "envelope", fields |-> f])
  OBVIOUS
<1>14. PICK h : AbridgedAs(e, h, t)
  BY <1>1, AbridgedLayout
<1>8. ASSUME NEW s \in Seq(Nat), Agree(s, e)
      PROVE  /\ e \in Seq(Nat) /\ Len(e) > 0
             /\ HasFrame(s) <=> Len(t) <= MaxFrame /\ Len(s) >= Len(e)
             /\ Oversize(s) => Len(t) > MaxFrame
             /\ Len(t) > MaxFrame /\ Len(s) >= Len(e) => Oversize(s)
             /\ HasFrame(s) => /\ s[1] # PongPrefix /\ s[1] # RawPrefix /\ ~IsWs(s)
                               /\ HeaderSize(s) + PayloadSize(s) = Len(e)
                               /\ Payload(s) = t
  BY <1>14, <1>8, AbridgedRead
<1>9. e \in Seq(Nat) /\ Len(e) > 0
  <2>1. <<>> \in Seq(Nat) /\ Agree(<<>>, e)
    BY DEF Agree
  <2> QED BY <1>8, <2>1
<1>10. Len(t) \in Nat /\ MaxFrame \in Nat /\ (Len(t) <= MaxFrame <=> x.kind # "long")
  <2>1. Len(t) \in Nat /\ MaxFrame \in Nat
    BY <1>2, <1>3, MaxFrameAssumption
  <2> HIDE DEF t
  <2> QED BY <1>6, <2>1
<1> HIDE DEF e, t
<1>11. ASSUME NEW s \in Seq(Nat), Agree(s, e), HasFrame(s)
       PROVE  Frame(s) = IF IsDeliverable(x) THEN {x} ELSE {}
  <2>1. x.kind # "long"
    BY <1>8, <1>10, <1>11
  <2>2. x = [kind |-> "envelope", fields |-> f] /\ IsDeliverable(x)
    BY <1>7, <2>1 DEF IsDeliverable
  <2>3. s[1] # PongPrefix /\ s[1] # RawPrefix /\ ~IsWs(s) /\ Payload(s) = t
    BY <1>8, <1>11
  <2>4. Frame(s) = {[kind |-> "envelope", fields |-> g] : g \in UnmarshalEnvelope(Payload(s), TRUE)}
    BY <2>3 DEF Frame
  <2>5. Frame(s) = {[kind |-> "envelope", fields |-> g] : g \in {f}}
    BY <1>5, <2>3, <2>4
  <2> QED BY <2>2, <2>5
<1>12. x.kind # "close"
  BY <1>7
<1>13. Framed(e, x)
  BY <1>8, <1>9, <1>10, <1>11, <1>12 DEF Framed
<1> QED BY <1>13 DEF e

----------------------------------------------------------------------------
(* WebSocket frames on the TCP stream.                                     *)

\* The length l of a frame of n bytes: a byte with the mask bit, and in w more bytes
\* what does not fit into it.
LengthAs(l, w, n, masked) ==
    /\ l \in Seq(Nat) /\ w \in {0, 2, 8} /\ Len(l) = 1 + w
    /\ l[1] \in Nat /\ (l[1] >= HighBit <=> masked)
    /\ w = 0 => l[1] % HighBit = n /\ n # HighBit - 2 /\ n # HighBit - 1
    /\ w = 2 => l[1] % HighBit = HighBit - 2
    /\ w = 8 => l[1] % HighBit = HighBit - 1
    /\ w # 0 => \E u \in Seq(Nat) : Len(u) = w /\ At(l, 1, u) /\ BigEndian(u) = n

\* The low bits of a byte whose high bit is set, or not.
LEMMA LowBits ==
    ASSUME NEW y \in 0 .. HighBit - 1
    PROVE  /\ (0 + y) % HighBit = y /\ ~(0 + y >= HighBit) /\ 0 + y \in Nat
           /\ (HighBit + y) % HighBit = y /\ HighBit + y >= HighBit /\ HighBit + y \in Nat
<1>1. HighBit \in Nat /\ HighBit > 0 /\ y \in Nat /\ y < HighBit
  BY FirstBytes
<1>2. y % HighBit = y
  BY <1>1, OwnRemainder
<1>3. (HighBit * 1 + y) % HighBit = y
  <2>1. 1 \in Nat
    OBVIOUS
  <2> QED BY <1>1, <2>1, Remainder
<1>4. 0 + y = y /\ HighBit * 1 + y = HighBit + y
  BY <1>1
<1>5. (HighBit + y) % HighBit = y
  BY <1>3, <1>4
<1>6. (0 + y) % HighBit = y
  BY <1>2, <1>4
<1>7. ~(0 + y >= HighBit) /\ 0 + y \in Nat /\ HighBit + y >= HighBit /\ HighBit + y \in Nat
  BY <1>1
<1> QED BY <1>5, <1>6, <1>7

\* A byte and a number behind it.
LEMMA Lengthened ==
    ASSUME NEW x \in Nat, NEW u \in Seq(Nat), NEW l, l = <<x>> \o u
    PROVE  l \in Seq(Nat) /\ Len(l) = 1 + Len(u) /\ l[1] = x /\ At(l, 1, u)
<1> DEFINE p == <<x>>
<1>1. p \in Seq(Nat) /\ Len(p) = 1 /\ p[1] = x
  OBVIOUS
<1>2. l = p \o u
  OBVIOUS
<1> HIDE DEF p
<1>3. /\ p \o u \in Seq(Nat) /\ Len(p \o u) = Len(p) + Len(u)
      /\ At(p \o u, 0, p) /\ At(p \o u, Len(p), u)
  BY <1>1, AtConcat
<1>4. l \in Seq(Nat) /\ Len(l) = 1 + Len(u) /\ At(l, 0, p) /\ At(l, 1, u)
  BY <1>1, <1>2, <1>3
<1>5. l[0 + 1] = p[1]
  <2>1. 1 \in 1 .. Len(p)
    BY <1>1
  <2> QED BY <1>4, <2>1 DEF At
<1> QED BY <1>1, <1>4, <1>5

\* The length's bytes announce it, whichever of the three forms it takes.
LEMMA LengthBytes ==
    ASSUME NEW n \in Nat, n < Base * Base * Base * Base, NEW masked \in BOOLEAN,
           NEW bit, bit = IF masked THEN HighBit ELSE 0
    PROVE  \E w : LengthAs(WsLength(n, bit), w, n, masked)
<1> DEFINE l == WsLength(n, bit)
<1> DEFINE bb == Base * Base
<1>1. HighBit \in Nat /\ HighBit >= 3 /\ bit \in Nat /\ bb \in Nat
  BY FirstBytes
<1>2. ASSUME NEW y \in 0 .. HighBit - 1
      PROVE  (bit + y) % HighBit = y /\ (bit + y >= HighBit <=> masked) /\ bit + y \in Nat
  <2>1. /\ (0 + y) % HighBit = y /\ ~(0 + y >= HighBit) /\ 0 + y \in Nat
        /\ (HighBit + y) % HighBit = y /\ HighBit + y >= HighBit /\ HighBit + y \in Nat
    BY LowBits
  <2>2. CASE masked
    <3>1. bit = HighBit
      BY <2>2
    <3> QED BY <2>1, <2>2, <3>1
  <2>3. CASE ~masked
    <3>1. bit = 0
      BY <2>3
    <3> QED BY <2>1, <2>3, <3>1
  <2> QED BY <2>2, <2>3
<1> HIDE DEF bb
<1>3. CASE n < HighBit - 2
  <2>1. l = <<bit + n>>
    <3>1. n < HighBit - 2 /\ ~(n >= HighBit - 2)
      BY <1>1, <1>3
    <3> QED BY <3>1 DEF WsLength
  <2>2. n \in 0 .. HighBit - 1 /\ n # HighBit - 2 /\ n # HighBit - 1
    BY <1>1, <1>3
  <2> DEFINE x == bit + n
  <2>3. x % HighBit = n /\ (x >= HighBit <=> masked) /\ x \in Nat
    BY <1>2, <2>2
  <2>4. l = <<x>>
    BY <2>1
  <2> HIDE DEF l, x
  <2>5. l \in Seq(Nat) /\ Len(l) = 1 + 0 /\ l[1] = x
    BY <2>3, <2>4
  <2>6. LengthAs(l, 0, n, masked)
    BY <2>2, <2>3, <2>5 DEF LengthAs
  <2> QED BY <2>6 DEF l
<1>4. CASE n >= HighBit - 2 /\ n < bb
  <2> DEFINE x == bit + (HighBit - 2)
  <2> DEFINE u == Uint16(n)
  <2>1. l = <<bit + HighBit - 2>> \o u
    <3>1. ~(n < HighBit - 2) /\ n >= HighBit - 2 /\ n < Base * Base
      BY <1>1, <1>4 DEF bb
    <3> QED BY <3>1 DEF WsLength
  <2>2. bit + HighBit - 2 = x
    BY <1>1
  <2>3. u \in Seq(Nat) /\ Len(u) = 2 /\ BigEndian(u) = n
    <3>1. Uint16(n) \in Seq(Byte) /\ Len(Uint16(n)) = 2
      BY Uint16Value
    <3>2. Byte \subseteq Nat
      BY FirstBytes DEF Byte
    <3>3. n < Base * Base
      BY <1>4 DEF bb
    <3>4. BigEndian(Uint16(n)) = n
      BY <3>3, Uint16Value
    <3> QED BY <3>1, <3>2, <3>4, SeqMonotonic
  <2>4. HighBit - 2 \in 0 .. HighBit - 1
    BY <1>1
  <2>5. x % HighBit = HighBit - 2 /\ (x >= HighBit <=> masked) /\ x \in Nat
    BY <1>2, <2>4
  <2>6. l = <<x>> \o u
    BY <2>1, <2>2
  <2> HIDE DEF l, x, u
  <2>7. l \in Seq(Nat) /\ Len(l) = 1 + Len(u) /\ l[1] = x /\ At(l, 1, u)
    BY <2>3, <2>5, <2>6, Lengthened
  <2>8. LengthAs(l, 2, n, masked)
    BY <2>3, <2>5, <2>7 DEF LengthAs
  <2> QED BY <2>8 DEF l
<1>5. CASE ~(n < HighBit - 2) /\ ~(n < bb)
  <2> DEFINE x == bit + (HighBit - 1)
  <2> DEFINE z == Zeros(4)
  <2> DEFINE v == Uint32(n)
  <2> DEFINE u == z \o v
  <2>1. l = <<bit + HighBit - 1>> \o z \o v
    <3>1. ~(n < HighBit - 2) /\ ~(n < Base * Base)
      BY <1>5 DEF bb
    <3> QED BY <3>1 DEF WsLength
  <2>2. bit + HighBit - 1 = x
    BY <1>1
  <2>3. z \in Seq(Nat) /\ Len(z) = 4
    <3>1. 4 \in Nat
      OBVIOUS
    <3> QED BY <3>1, ZerosBytes
  <2>4. v \in Seq(Nat) /\ Len(v) = 4 /\ BigEndian(u) = n
    <3>1. Uint32(n) \in Seq(Byte) /\ Len(Uint32(n)) = 4 /\ BigEndian(Zeros(4) \o Uint32(n)) = n
      BY Uint32Value
    <3>2. Byte \subseteq Nat
      BY FirstBytes DEF Byte
    <3> QED BY <3>1, <3>2, SeqMonotonic
  <2> HIDE DEF z, v
  <2>5. u \in Seq(Nat) /\ Len(u) = 8
    <3>1. v \in Seq(Nat) /\ Len(v) = 4
      BY <2>4
    <3>2. u \in Seq(Nat) /\ Len(u) = Len(z) + Len(v)
      BY <2>3, <3>1, AtConcat
    <3> HIDE DEF u
    <3> QED BY <2>3, <3>1, <3>2
  <2>6. HighBit - 1 \in 0 .. HighBit - 1
    BY <1>1
  <2>7. x % HighBit = HighBit - 1 /\ (x >= HighBit <=> masked) /\ x \in Nat
    BY <1>2, <2>6
  <2>8. l = (<<x>> \o z) \o v
    BY <2>1, <2>2
  <2> HIDE DEF l, x
  <2> DEFINE p == <<x>>
  <2>9. p \in Seq(Nat)
    BY <2>7
  <2>10. (p \o z) \o v = p \o (z \o v)
    <3> HIDE DEF p
    <3> QED BY SMTT(30), <2>3, <2>4, <2>9
  <2>11. l = <<x>> \o u
    BY <2>8, <2>10
  <2> HIDE DEF u
  <2>12. l \in Seq(Nat) /\ Len(l) = 1 + Len(u) /\ l[1] = x /\ At(l, 1, u)
    BY <2>5, <2>7, <2>11, Lengthened
  <2>13. LengthAs(l, 8, n, masked)
    BY <2>4, <2>5, <2>7, <2>12 DEF LengthAs
  <2> QED BY <2>13 DEF l
<1> QED BY <1>1, <1>3, <1>4, <1>5

\* A WebSocket frame e: the opcode, the length l, the key k and the payload t.
WsAs(e, op, l, w, k, t, masked) ==
    /\ e \in Seq(Nat) /\ k \in Seq(Nat) /\ t \in Seq(Nat) /\ masked \in BOOLEAN
    /\ e[1] = HighBit + op /\ LengthAs(l, w, Len(t), masked)
    /\ Len(k) = IF masked THEN 4 ELSE 0
    /\ Len(e) = 2 + w + Len(k) + Len(t)
    /\ At(e, 1, l) /\ At(e, 2 + w, k) /\ At(e, 2 + w + Len(k), t)

\* The key of a frame that is masked, and of one that is not.
KeyOf(masked) == IF masked THEN MaskKey ELSE <<>>
MaskedBy(d, masked) == IF masked THEN Mask(d, MaskKey) ELSE d

\* The bytes of a masked payload.
LEMMA MaskBytes ==
    ASSUME NEW d \in Seq(Nat)
    PROVE  /\ Mask(d, MaskKey) \in Seq(Nat) /\ Len(Mask(d, MaskKey)) = Len(d)
           /\ \A i \in 1 .. Len(d) :
                  /\ ((i - 1) % 4) + 1 \in 1 .. 4
                  /\ Mask(d, MaskKey)[i] = Xor(d[i], MaskKey[((i - 1) % 4) + 1])
<1>1. PICK n \in Nat : n = Len(d)
  OBVIOUS
<1> DEFINE t == Mask(d, MaskKey)
<1>2. t = [i \in 1 .. n |-> Xor(d[i], MaskKey[((i - 1) % 4) + 1])]
  BY <1>1 DEF Mask
<1>3. ASSUME NEW i \in 1 .. n
      PROVE  ((i - 1) % 4) + 1 \in 1 .. 4 /\ Xor(d[i], MaskKey[((i - 1) % 4) + 1]) \in Nat
  <2>1. d[i] \in Nat
    BY <1>1, ElementOfSeq
  <2>2. PICK j \in 1 .. 4 : j = ((i - 1) % 4) + 1
    <3>1. i - 1 \in Nat
      BY <1>1
    <3> QED BY <3>1
  <2>3. MaskKey[j] \in Nat
    BY DEF MaskKey
  <2> QED BY <2>1, <2>2, <2>3, XorTwice
<1> HIDE DEF t
<1>4. t \in [1 .. n -> Nat]
  BY <1>2, <1>3
<1>5. t \in Seq(Nat) /\ Len(t) = n
  BY <1>1, <1>4
<1>6. \A i \in 1 .. n : t[i] = Xor(d[i], MaskKey[((i - 1) % 4) + 1])
  BY <1>2
<1> QED BY <1>1, <1>3, <1>5, <1>6 DEF t

\* The gateway builds one.
LEMMA WsLayout ==
    ASSUME NEW op \in Nat, NEW d \in Seq(Nat), Len(d) < Base * Base * Base * Base, NEW masked \in BOOLEAN
    PROVE  \E l, w : WsAs(EncodeWs(op, d, masked), op, l, w, KeyOf(masked), MaskedBy(d, masked), masked)
<1> DEFINE bit == IF masked THEN HighBit ELSE 0
<1> DEFINE n == Len(d)
<1> DEFINE k == KeyOf(masked)
<1> DEFINE t == MaskedBy(d, masked)
<1>1. k \in Seq(Nat) /\ Len(k) = IF masked THEN 4 ELSE 0
  BY DEF KeyOf, MaskKey
<1>2. t \in Seq(Nat) /\ Len(t) = n
  BY MaskBytes DEF MaskedBy
<1>3. PICK w : LengthAs(WsLength(n, bit), w, n, masked)
  <2>1. n \in Nat /\ n < Base * Base * Base * Base
    OBVIOUS
  <2> QED BY <2>1, LengthBytes
<1> DEFINE l == WsLength(n, bit)
<1>4. LengthAs(l, w, n, masked)
  BY <1>3
<1> DEFINE p == <<HighBit + op>>
<1>5. EncodeWs(op, d, masked) = p \o ((l \o k) \o t)
  <2>1. CASE masked
    <3>1. EncodeWs(op, d, masked) = p \o ((WsLength(n, HighBit) \o MaskKey) \o Mask(d, MaskKey))
      BY <2>1 DEF EncodeWs
    <3>2. k = MaskKey /\ t = Mask(d, MaskKey) /\ bit = HighBit
      BY <2>1 DEF KeyOf, MaskedBy
    <3> QED BY <3>1, <3>2
  <2>2. CASE ~masked
    <3>1. EncodeWs(op, d, masked) = p \o (WsLength(n, 0) \o d)
      BY <2>2 DEF EncodeWs
    <3>2. k = <<>> /\ t = d /\ bit = 0
      BY <2>2 DEF KeyOf, MaskedBy
    <3>3. l \in Seq(Nat)
      BY <1>4 DEF LengthAs
    <3>4. l \o <<>> = l
      <4> HIDE DEF l
      <4> QED BY <3>3
    <3>5. EncodeWs(op, d, masked) = p \o (l \o t)
      BY <3>1, <3>2
    <3>6. l \o k = l
      BY <3>2, <3>4
    <3> QED BY <3>5, <3>6
  <2> QED BY <2>1, <2>2
<1>6. l \in Seq(Nat) /\ w \in {0, 2, 8} /\ Len(l) = 1 + w
  BY <1>4 DEF LengthAs
<1>7. HighBit + op \in Nat
  BY FirstBytes
<1> HIDE DEF l, n, k, t
<1> DEFINE a == l \o k
<1>8. a \in Seq(Nat) /\ Len(a) = Len(l) + Len(k) /\ At(a, 0, l) /\ At(a, Len(l), k)
  BY <1>1, <1>6, AtConcat
<1> HIDE DEF a
<1> DEFINE b == a \o t
<1>9. b \in Seq(Nat) /\ Len(b) = Len(a) + Len(t) /\ At(b, 0, a) /\ At(b, Len(a), t)
  BY <1>2, <1>8, AtConcat
<1>10. Len(l) \in Nat /\ Len(k) \in Nat /\ Len(a) \in Nat /\ Len(t) \in Nat /\ Len(b) \in Nat
  BY <1>1, <1>2, <1>6, <1>8, <1>9
<1> HIDE DEF b
<1>11. At(b, 0, l)
  <2>1. 0 = 0 + 0
    OBVIOUS
  <2> QED BY <1>6, <1>8, <1>9, <2>1, AtWithin
<1>12. At(b, Len(l), k)
  <2>1. Len(l) = 0 + Len(l)
    BY <1>10
  <2> QED BY <1>1, <1>8, <1>9, <1>10, <2>1, AtWithin
<1> DEFINE e == EncodeWs(op, d, masked)
<1>13. e = <<HighBit + op>> \o b
  BY <1>5 DEF a, b
<1> HIDE DEF e
<1>14. e \in Seq(Nat) /\ Len(e) = 1 + Len(b) /\ e[1] = HighBit + op /\ At(e, 1, b)
  BY <1>7, <1>9, <1>13, Lengthened
<1>15. At(e, 1, l)
  <2>1. 1 = 1 + 0
    OBVIOUS
  <2> QED BY <1>6, <1>9, <1>11, <1>14, <2>1, AtWithin
<1>16. At(e, 2 + w, k)
  <2>1. 2 + w = 1 + Len(l)
    BY <1>6
  <2> QED BY <1>1, <1>9, <1>10, <1>12, <1>14, <2>1, AtWithin
<1>17. At(e, 2 + w + Len(k), t)
  <2>1. 2 + w + Len(k) = 1 + Len(a)
    BY <1>6, <1>8, <1>10
  <2> QED BY <1>2, <1>9, <1>10, <1>14, <2>1, AtWithin
<1>18. Len(e) = 2 + w + Len(k) + Len(t)
  BY <1>6, <1>8, <1>9, <1>10, <1>14
<1>19. WsAs(e, op, l, w, k, t, masked)
  <2>1. LengthAs(l, w, Len(t), masked)
    BY <1>2, <1>4
  <2> QED BY <1>1, <1>2, <1>14, <1>15, <1>16, <1>17, <1>18, <2>1 DEF WsAs
<1> QED BY <1>19 DEF e, k, t

\* What readFrameOnce finds at the head of a stream that starts with one.
LEMMA WsRead ==
    ASSUME NEW op \in Nat, HighBit + op < RawPrefix, NEW e, NEW l, NEW w, NEW k, NEW t, NEW masked,
           WsAs(e, op, l, w, k, t, masked), NEW s \in Seq(Nat), Agree(s, e)
    PROVE  /\ e \in Seq(Nat) /\ Len(e) > 0
           /\ HasFrame(s) <=> Len(t) <= MaxFrame /\ Len(s) >= Len(e)
           /\ Oversize(s) => Len(t) > MaxFrame
           /\ Len(t) > MaxFrame /\ Len(s) >= Len(e) => Oversize(s)
           /\ HasFrame(s) => /\ s[1] = HighBit + op /\ s[1] # PongPrefix /\ s[1] # RawPrefix /\ IsWs(s)
                             /\ HeaderSize(s) + PayloadSize(s) = Len(e) /\ HeaderSize(s) = 2 + w + Len(k)
                             /\ Payload(s) = t /\ PayloadSize(s) = Len(t) /\ (Masked(s) <=> masked)
                             /\ At(s, 2 + w, k)
<1> DEFINE hs == 2 + w + Len(k)
<1> DEFINE second == l[1]
<1>1. /\ e \in Seq(Nat) /\ k \in Seq(Nat) /\ t \in Seq(Nat) /\ masked \in BOOLEAN
      /\ e[1] = HighBit + op /\ LengthAs(l, w, Len(t), masked)
      /\ Len(k) = IF masked THEN 4 ELSE 0
      /\ Len(e) = hs + Len(t)
      /\ At(e, 1, l) /\ At(e, 2 + w, k) /\ At(e, hs, t)
  BY DEF WsAs
<1>2. /\ l \in Seq(Nat) /\ w \in {0, 2, 8} /\ Len(l) = 1 + w
      /\ second \in Nat /\ (second >= HighBit <=> masked) /\ second = l[1]
      /\ w = 0 => second % HighBit = Len(t) /\ second % HighBit # HighBit - 2 /\ second % HighBit # HighBit - 1
      /\ w = 2 => second % HighBit = HighBit - 2
      /\ w = 8 => second % HighBit = HighBit - 1
      /\ w # 0 => \E u \in Seq(Nat) : Len(u) = w /\ At(l, 1, u) /\ BigEndian(u) = Len(t)
  BY <1>1 DEF LengthAs
<1>3. HighBit \in Nat /\ HighBit >= 3 /\ RawPrefix \in Nat /\ PongPrefix = 0 /\ MaxFrame \in Nat
  BY FirstBytes, MaxFrameAssumption
<1> HIDE DEF hs, second
<1>4. hs \in Nat /\ hs >= 2 /\ hs = 2 + w + Len(k) /\ Len(k) \in Nat /\ Len(t) \in Nat /\ Len(s) \in Nat
  <2>1. Len(k) \in Nat /\ Len(t) \in Nat /\ Len(s) \in Nat
    BY <1>1
  <2>2. w \in Nat
    BY <1>2
  <2>3. hs = 2 + w + Len(k)
    BY DEF hs
  <2> QED BY <2>1, <2>2, <2>3
<1>5. ASSUME Len(s) > 0
      PROVE  s[1] = HighBit + op /\ s[1] # PongPrefix /\ s[1] # RawPrefix /\ IsWs(s)
  <2>1. s[1] = e[1]
    <3>1. 1 \in 1 .. Len(e) /\ 1 <= Len(s)
      BY <1>1, <1>4, <1>5
    <3> QED BY <3>1 DEF Agree
  <2>2. s[1] = HighBit + op
    BY <1>1, <2>1
  <2> QED BY <1>3, <2>2 DEF IsWs
<1>6. ASSUME Len(s) > 1
      PROVE  s[2] = second /\ WsLengthSize(s) = w /\ (Masked(s) <=> masked) /\ HeaderSize(s) = hs
  <2>1. s[2] = e[2]
    <3>1. Len(e) = hs + Len(t)
      BY <1>1
    <3>2. 2 \in 1 .. Len(e) /\ 2 <= Len(s)
      BY <1>4, <1>6, <3>1
    <3> QED BY <3>2 DEF Agree
  <2>2. e[1 + 1] = l[1]
    <3>1. 1 \in 1 .. Len(l)
      BY <1>2
    <3> QED BY <1>1, <3>1 DEF At
  <2>3. s[2] = second
    BY <1>2, <2>1, <2>2
  <2>4. Masked(s) <=> masked
    BY <1>2, <2>3 DEF Masked
  <2>5. WsLengthSize(s) = w
    <3> DEFINE low == second % HighBit
    <3>1. s[2] % HighBit = low
      BY <2>3
    <3>2. HighBit - 2 # HighBit - 1
      BY <1>3
    <3> HIDE DEF low
    <3>3. /\ w = 0 => low # HighBit - 2 /\ low # HighBit - 1
          /\ w = 2 => low = HighBit - 2
          /\ w = 8 => low = HighBit - 1
      BY <1>2 DEF low
    <3>4. CASE w = 0
      BY <3>1, <3>3, <3>4 DEF WsLengthSize
    <3>5. CASE w = 2
      BY <3>1, <3>2, <3>3, <3>5 DEF WsLengthSize
    <3>6. CASE w = 8
      BY <3>1, <3>2, <3>3, <3>6 DEF WsLengthSize
    <3> QED BY <1>2, <3>4, <3>5, <3>6
  <2>6. HeaderSize(s) = 2 + w + (IF masked THEN 4 ELSE 0)
    <3>1. IsWs(s) /\ s[1] # PongPrefix /\ s[1] # RawPrefix /\ Len(s) # 1
      BY <1>4, <1>5, <1>6
    <3>2. HeaderSize(s) = 2 + WsLengthSize(s) + (IF Masked(s) THEN 4 ELSE 0)
      BY <1>6, <3>1 DEF HeaderSize
    <3> QED BY <2>4, <2>5, <3>2
  <2>7. HeaderSize(s) = hs
    BY <1>1, <1>4, <2>6
  <2> QED BY <2>3, <2>4, <2>5, <2>7
<1>7. ASSUME Len(s) >= hs PROVE HeaderSize(s) = hs /\ PayloadSize(s) = Len(t)
  <2>1. Len(s) > 1 /\ Len(s) > 0
    BY <1>4, <1>7
  <2>2. IsWs(s) /\ s[1] # PongPrefix /\ s[1] # RawPrefix
    BY <1>5, <2>1
  <2>3. s[2] = second /\ WsLengthSize(s) = w /\ HeaderSize(s) = hs
    BY <1>6, <2>1
  <2>4. PayloadSize(s) = IF w = 0 THEN s[2] % HighBit ELSE BigEndian(SubSeq(s, 3, 2 + w))
    BY <2>2, <2>3 DEF PayloadSize
  <2>5. CASE w = 0
    BY <1>2, <2>3, <2>4, <2>5
  <2>6. CASE w # 0
    <3>1. PICK u \in Seq(Nat) : Len(u) = w /\ At(l, 1, u) /\ BigEndian(u) = Len(t)
      BY <1>2, <2>6
    <3>2. At(e, 2, u)
      <4>1. 2 = 1 + 1
        OBVIOUS
      <4> QED BY <1>1, <1>2, <3>1, <4>1, AtWithin
    <3>3. At(s, 2, u)
      <4>1. Len(s) >= 2 + Len(u)
        BY <1>2, <1>4, <1>7, <3>1
      <4> QED BY <1>1, <3>2, <4>1, AtAgree
    <3>4. SubSeq(s, 2 + 1, 2 + Len(u)) = u
      BY <3>3, AtSlice
    <3>5. SubSeq(s, 3, 2 + w) = u
      BY <3>1, <3>4
    <3> QED BY <2>3, <2>4, <2>6, <3>1, <3>5
  <2> QED BY <2>5, <2>6
<1>8. ASSUME Len(s) > 0, Len(s) < hs PROVE ~(Len(s) >= HeaderSize(s))
  <2>1. CASE Len(s) > 1
    <3>1. HeaderSize(s) = hs
      BY <1>6, <2>1
    <3> QED BY <1>4, <1>8, <3>1
  <2>2. CASE ~(Len(s) > 1)
    <3>1. Len(s) = 1
      <4>1. PICK n \in Nat : n = Len(s)
        BY <1>4
      <4>2. n > 0 /\ ~(n > 1)
        BY <1>8, <2>2, <4>1
      <4>3. n = 1
        BY <4>2
      <4> QED BY <4>1, <4>3
    <3>2. IsWs(s) /\ s[1] # PongPrefix /\ s[1] # RawPrefix
      BY <1>5, <1>8
    <3>3. ~(Len(s) > 1)
      BY <2>2
    <3>4. HeaderSize(s) = 2
      BY <3>1, <3>2, <3>3 DEF HeaderSize
    <3> QED BY <3>1, <3>4
  <2> QED BY <2>1, <2>2
<1>9. /\ Oversize(s) <=> Len(s) >= hs /\ Len(t) > MaxFrame
      /\ HasFrame(s) <=> Len(t) <= MaxFrame /\ Len(s) >= hs + Len(t)
  <2>1. hs \in Nat \ {0}
    BY <1>4
  <2> QED BY <1>4, <1>7, <1>8, <2>1, Headed
<1>10. ASSUME HasFrame(s)
       PROVE  /\ s[1] = HighBit + op /\ s[1] # PongPrefix /\ s[1] # RawPrefix /\ IsWs(s)
              /\ HeaderSize(s) + PayloadSize(s) = Len(e) /\ HeaderSize(s) = hs
              /\ Payload(s) = t /\ PayloadSize(s) = Len(t) /\ (Masked(s) <=> masked)
              /\ At(s, 2 + w, k)
  <2>1. Len(s) >= hs + Len(t) /\ Len(s) >= hs /\ Len(s) > 1 /\ Len(s) > 0
    BY <1>4, <1>9, <1>10
  <2>2. HeaderSize(s) = hs /\ PayloadSize(s) = Len(t)
    BY <1>7, <2>1
  <2>3. At(s, hs, t)
    BY <1>1, <1>4, <2>1, AtAgree
  <2>4. SubSeq(s, hs + 1, hs + Len(t)) = t
    BY <1>1, <1>4, <2>3, AtSlice
  <2>5. Payload(s) = t
    BY <2>2, <2>4 DEF Payload
  <2>6. At(s, 2 + w, k)
    <3>1. 2 + w \in Nat /\ Len(s) >= (2 + w) + Len(k)
      BY <1>2, <1>4, <2>1
    <3> QED BY <1>1, <3>1, AtAgree
  <2>7. HeaderSize(s) + PayloadSize(s) = Len(e)
    BY <1>1, <2>2
  <2> QED BY <1>5, <1>6, <2>1, <2>2, <2>5, <2>6, <2>7
<1>11. Len(e) > 0 /\ (Len(s) >= Len(e) => Len(s) >= hs)
  BY SMTT(30), <1>1, <1>4
<1>12. HasFrame(s) <=> Len(t) <= MaxFrame /\ Len(s) >= Len(e)
  BY <1>1, <1>9
<1> QED BY <1>1, <1>4, <1>9, <1>10, <1>11, <1>12

\* The key that is in front of the payload takes its mask off.
LEMMA Unmasked ==
    ASSUME NEW d \in Seq(Nat), NEW masked \in BOOLEAN, NEW s \in Seq(Nat), NEW w \in Nat,
           At(s, 2 + w, KeyOf(masked)), Payload(s) = MaskedBy(d, masked), PayloadSize(s) = Len(d),
           Masked(s) <=> masked, HeaderSize(s) = 2 + w + Len(KeyOf(masked))
    PROVE  Unmask(s) = d
<1>1. CASE ~masked
  <2>1. Unmask(s) = Payload(s)
    BY <1>1 DEF Unmask
  <2> QED BY <1>1, <2>1 DEF MaskedBy
<1>2. CASE masked
  <2> DEFINE t == Mask(d, MaskKey)
  <2> DEFINE k == MaskKey
  <2>1. Payload(s) = t /\ At(s, 2 + w, k) /\ Len(k) = 4 /\ HeaderSize(s) = 6 + w
    <3>1. KeyOf(masked) = k /\ MaskedBy(d, masked) = t
      BY <1>2 DEF KeyOf, MaskedBy
    <3>2. Len(k) = 4
      BY DEF MaskKey
    <3>3. HeaderSize(s) = 2 + w + 4
      BY <3>1, <3>2
    <3> QED BY <3>1, <3>2, <3>3
  <2>2. \A i \in 1 .. Len(d) : ((i - 1) % 4) + 1 \in 1 .. 4 /\ t[i] = Xor(d[i], k[((i - 1) % 4) + 1])
    BY MaskBytes
  <2>3. \A j \in 1 .. 4 : k[j] \in Nat
    BY DEF MaskKey
  <2>4. PICK n \in Nat : n = Len(d)
    OBVIOUS
  <2>5. Unmask(s) = [i \in 1 .. n |-> Xor(t[i], s[HeaderSize(s) - 3 + ((i - 1) % 4)])]
    BY <1>2, <2>1, <2>4 DEF Unmask
  <2> HIDE DEF t, k
  <2>6. ASSUME NEW i \in 1 .. n PROVE Xor(t[i], s[HeaderSize(s) - 3 + ((i - 1) % 4)]) = d[i]
    <3>1. PICK j \in 1 .. 4 : j = ((i - 1) % 4) + 1
      BY <2>2, <2>4
    <3>2. t[i] = Xor(d[i], k[j])
      BY <2>2, <2>4, <3>1
    <3>3. s[(2 + w) + j] = k[j]
      BY <2>1 DEF At
    <3>4. HeaderSize(s) - 3 + ((i - 1) % 4) = (2 + w) + j
      <4>1. ((i - 1) % 4) = j - 1
        <5>1. (i - 1) % 4 \in Int
          BY <2>4
        <5> QED BY <3>1, <5>1
      <4> QED BY SMTT(30), <2>1, <4>1
    <3>5. d[i] \in Nat /\ k[j] \in Nat
      BY <2>3, <2>4, ElementOfSeq
    <3>6. Xor(Xor(d[i], k[j]), k[j]) = d[i]
      BY <3>5, XorTwice
    <3> QED BY <3>2, <3>3, <3>4, <3>6
  <2>7. Unmask(s) = [i \in 1 .. n |-> d[i]]
    BY <2>5, <2>6
  <2>8. d = [i \in 1 .. n |-> d[i]]
    BY <2>4
  <2> QED BY <2>7, <2>8
<1> QED BY <1>1, <1>2

\* The opcode is in the low bits of the first byte.
LEMMA OpcodeBits ==
    ASSUME NEW op \in Ops
    PROVE  op \in Nat /\ HighBit + op < RawPrefix /\ (HighBit + op) % OpMod = op
<1>1. OpMod \in Nat /\ OpMod > 0 /\ HighBit % OpMod = 0 /\ op \in 0 .. OpMod - 1 /\ HighBit + op < RawPrefix
  BY OpsAssumption
<1>2. HighBit \in Nat
  BY FirstBytes
<1>3. HighBit \div OpMod \in Nat /\ HighBit = OpMod * (HighBit \div OpMod) + (HighBit % OpMod)
  BY <1>1, <1>2, Division
<1>4. PICK m \in Nat : HighBit = OpMod * m + (HighBit % OpMod)
  BY <1>3
<1>5. HighBit = OpMod * m
  BY <1>1, <1>2, <1>4
<1>6. (OpMod * m + op) % OpMod = op
  BY <1>1, Remainder
<1> QED BY <1>1, <1>5, <1>6

\* A push or a control frame: masked or not, of any length, an envelope is delivered
\* and a control frame is not.
LEMMA WsFramed ==
    ASSUME NEW op \in Ops, NEW d \in Envelopes, NEW masked \in BOOLEAN, NEW f \in Unmarshal(d),
           NEW what,
           what = (CASE op \in {OpText, OpBinary} -> "envelope" [] op = OpClose -> "close"
                     [] OTHER -> "ping"),
           NEW x, x = [kind |-> IF Len(d) > MaxFrame THEN "long" ELSE what, fields |-> f]
    PROVE  Framed(EncodeWs(op, d, masked), x)
<1> DEFINE k == KeyOf(masked)
<1> DEFINE t == MaskedBy(d, masked)
<1> DEFINE e == EncodeWs(op, d, masked)
<1>1. d \in Seq(Nat) /\ Unmarshal(d) # {} /\ Len(d) \in Nat /\ Len(d) < Base * Base * Base * Base
  <2>1. d \in Seq(Nat) /\ Unmarshal(d) # {} /\ Len(d) + 6 < 4 * (Base * Base * Base)
    BY EnvelopeBytes
  <2>2. PICK n \in Nat : n = Len(d)
    BY <2>1
  <2> DEFINE cube == Base * Base * Base
  <2>3. cube \in Nat /\ Base \in Nat /\ Base >= 6
    BY FirstBytes
  <2>4. Base * Base * Base * Base = cube * Base
    BY FirstBytes
  <2>5. n + 6 < 4 * cube
    BY <2>1, <2>2
  <2> HIDE DEF cube
  <2>6. 4 * cube <= cube * Base
    BY <2>3
  <2>7. n < cube * Base
    BY <2>3, <2>5, <2>6
  <2> QED BY <2>1, <2>2, <2>4, <2>7
<1>2. op \in Nat /\ HighBit + op < RawPrefix /\ (HighBit + op) % OpMod = op
  BY OpcodeBits
<1>3. PICK l, w : WsAs(e, op, l, w, k, t, masked)
  BY <1>1, <1>2, WsLayout
<1>4. Len(t) = Len(d)
  BY <1>1, MaskBytes DEF MaskedBy
<1>5. w \in Nat
  BY SMTT(30), <1>3 DEF WsAs, LengthAs
<1>6. ASSUME NEW s \in Seq(Nat), Agree(s, e)
      PROVE  /\ e \in Seq(Nat) /\ Len(e) > 0
             /\ HasFrame(s) <=> Len(t) <= MaxFrame /\ Len(s) >= Len(e)
             /\ Oversize(s) => Len(t) > MaxFrame
             /\ Len(t) > MaxFrame /\ Len(s) >= Len(e) => Oversize(s)
             /\ HasFrame(s) => /\ s[1] = HighBit + op /\ s[1] # PongPrefix /\ s[1] # RawPrefix /\ IsWs(s)
                               /\ HeaderSize(s) + PayloadSize(s) = Len(e) /\ HeaderSize(s) = 2 + w + Len(k)
                               /\ Payload(s) = t /\ PayloadSize(s) = Len(t) /\ (Masked(s) <=> masked)
                               /\ At(s, 2 + w, k)
  <2> HIDE DEF e, k, t
  <2> QED BY <1>2, <1>3, <1>6, WsRead
<1>7. e \in Seq(Nat) /\ Len(e) > 0
  <2>1. <<>> \in Seq(Nat) /\ Agree(<<>>, e)
    BY DEF Agree
  <2> QED BY <1>6, <2>1
<1>8. Unmarshal(d) = {f}
  BY <1>1, UnmarshalUnique
<1> HIDE DEF e
<1>9. ASSUME NEW s \in Seq(Nat), Agree(s, e), HasFrame(s) PROVE Unmask(s) = d /\ Opcode(s) = op
  <2>1. /\ At(s, 2 + w, k) /\ Payload(s) = t /\ PayloadSize(s) = Len(d) /\ (Masked(s) <=> masked)
        /\ HeaderSize(s) = 2 + w + Len(k) /\ s[1] = HighBit + op
    BY <1>4, <1>6, <1>9
  <2>2. Unmask(s) = d
    BY <1>1, <1>5, <2>1, Unmasked
  <2>3. Opcode(s) = op
    BY <1>2, <2>1 DEF Opcode
  <2> QED BY <2>2, <2>3
<1>10. Len(t) \in Nat /\ MaxFrame \in Nat /\ Len(t) = Len(d)
  BY <1>1, <1>4, MaxFrameAssumption
<1> HIDE DEF t, k
<1>11. OpClose \notin {OpText, OpBinary}
  BY OpsAssumption
<1>12. /\ what \in {"envelope", "close", "ping"}
       /\ what = "envelope" <=> op \in {OpText, OpBinary}
       /\ what = "close" <=> op = OpClose
  <2>1. CASE op \in {OpText, OpBinary}
    BY <1>11, <2>1
  <2>2. CASE op = OpClose
    BY <1>11, <2>2
  <2>3. CASE op \notin {OpText, OpBinary} /\ op # OpClose
    BY <2>3
  <2> QED BY <2>1, <2>2, <2>3
<1>13. /\ x.kind = IF Len(t) > MaxFrame THEN "long" ELSE what
       /\ Len(t) <= MaxFrame => x = [kind |-> what, fields |-> f]
  BY <1>10
<1>14. Len(t) > MaxFrame <=> x.kind = "long"
  BY <1>12, <1>13
<1>15. Len(t) <= MaxFrame <=> x.kind # "long"
  BY <1>10, <1>14
<1>16. ASSUME NEW s \in Seq(Nat), Agree(s, e), HasFrame(s)
       PROVE  /\ HeaderSize(s) + PayloadSize(s) = Len(e)
              /\ Frame(s) = IF IsDeliverable(x) THEN {x} ELSE {}
              /\ IsWs(s) /\ Opcode(s) = OpClose <=> x.kind = "close"
  <2>1. /\ Len(t) <= MaxFrame /\ s[1] # PongPrefix /\ s[1] # RawPrefix /\ IsWs(s)
        /\ HeaderSize(s) + PayloadSize(s) = Len(e)
    BY <1>6, <1>16
  <2>2. Unmask(s) = d /\ Opcode(s) = op
    BY <1>9, <1>16
  <2>3. x = [kind |-> what, fields |-> f] /\ x.kind = what
    BY <1>13, <2>1
  <2>4. Frame(s) = IF op \in {OpText, OpBinary}
                   THEN {[kind |-> "envelope", fields |-> g] : g \in UnmarshalEnvelope(d, FALSE)}
                   ELSE {}
    BY <2>1, <2>2 DEF Frame
  <2>5. UnmarshalEnvelope(d, FALSE) = {f}
    BY <1>1, <1>8, UnmarshalPlain
  <2>6. IsDeliverable(x) <=> what = "envelope"
    BY <1>12, <2>3 DEF IsDeliverable
  <2>7. Frame(s) = IF IsDeliverable(x) THEN {x} ELSE {}
    <3>1. CASE what = "envelope"
      <4>1. Frame(s) = {[kind |-> "envelope", fields |-> g] : g \in {f}}
        BY <1>12, <2>4, <2>5, <3>1
      <4> QED BY <2>3, <2>6, <3>1, <4>1
    <3>2. CASE what # "envelope"
      BY <1>12, <2>4, <2>6, <3>2
    <3> QED BY <3>1, <3>2
  <2>8. IsWs(s) /\ Opcode(s) = OpClose <=> x.kind = "close"
    BY <1>12, <2>1, <2>2, <2>3
  <2> QED BY <2>1, <2>7, <2>8
<1>17. Framed(e, x)
  BY <1>6, <1>7, <1>14, <1>15, <1>16 DEF Framed
<1> QED BY <1>17 DEF e

----------------------------------------------------------------------------
(* What the gateway finds.                                                 *)

\* The history that a frame of the SDK leaves, and what the gateway makes of it.
Uplink(e, y) ==
    /\ e \in Seq(Nat) /\ Len(e) > 0
    /\ \A s \in Seq(Nat) : Agree(s, e) /\ HasFrame(s) =>
            /\ Len(s) >= Len(e) /\ HeaderSize(s) + PayloadSize(s) = Len(e)
            /\ s[1] = PongPrefix <=> y.kind = "ping"
            /\ y.kind = "token" => TrimAbridgedPadding(Payload(s)) = y.token
            /\ y.kind = "ping" => /\ BigEndian(SubSeq(s, 2, 3)) = y.cid
                                  /\ Framed(SubSeq(s, 1, 3), [kind |-> "pong", cid |-> y.cid])
            /\ y.kind = "envelope" => Unmarshal(TrimAbridgedPadding(Payload(s))) = {y.fields}

\* A payload that does not end in zero is what is left when the padding is trimmed.
LEMMA TrimmedUplink ==
    ASSUME NEW d \in Seq(Nat), Len(d) > 0, Last(d) # 0, Len(d) + 3 < 4 * (Base * Base * Base),
           NEW e, e = EncodeAbridged(d), NEW s \in Seq(Nat), Agree(s, e)
    PROVE  /\ e \in Seq(Nat) /\ Len(e) > 0
           /\ HasFrame(s) => /\ Len(s) >= Len(e) /\ HeaderSize(s) + PayloadSize(s) = Len(e)
                             /\ s[1] # PongPrefix /\ TrimAbridgedPadding(Payload(s)) = d
<1> DEFINE p == Padding(Len(d))
<1> DEFINE t == d \o Zeros(p)
<1>1. p \in 0 .. 3
  <2>1. Len(d) \in Nat
    OBVIOUS
  <2> QED BY <2>1, PaddingFits
<1>2. TrimAbridgedPadding(t) = d
  <2>1. d # <<>>
    OBVIOUS
  <2> QED BY <1>1, <2>1, TrimPadded
<1>3. PICK h : AbridgedAs(EncodeAbridged(d), h, t)
  BY AbridgedLayout
<1>4. AbridgedAs(e, h, t)
  BY <1>3
<1> HIDE DEF t
<1>5. /\ e \in Seq(Nat) /\ Len(e) > 0
      /\ HasFrame(s) => /\ Len(s) >= Len(e) /\ HeaderSize(s) + PayloadSize(s) = Len(e)
                        /\ s[1] # PongPrefix /\ Payload(s) = t
  BY <1>4, AbridgedRead
<1> QED BY <1>2, <1>5

\* The token.
LEMMA TokenUplink ==
    ASSUME NEW token \in Tokens
    PROVE  Uplink(EncodeAbridged(token), [kind |-> "token", token |-> token])
<1> DEFINE e == EncodeAbridged(token)
<1>1. token \in Seq(Nat) /\ Len(token) > 0 /\ Last(token) # 0 /\ Len(token) + 3 < 4 * (Base * Base * Base)
  <2>1. token \in Seq(Byte) /\ token # <<>> /\ Last(token) # 0 /\ Len(token) + 6 < 4 * (Base * Base * Base)
    BY PayloadAssumption DEF Fits
  <2>2. Byte \subseteq Nat
    BY FirstBytes DEF Byte
  <2>3. token \in Seq(Nat)
    BY <2>1, <2>2, SeqMonotonic
  <2>4. PICK n \in Nat : n = Len(token)
    BY <2>3
  <2>5. n > 0
    BY <2>1, <2>3, <2>4
  <2>6. PICK limit \in Nat : limit = 4 * (Base * Base * Base)
    BY FirstBytes
  <2>7. n + 6 < limit
    BY <2>1, <2>4, <2>6
  <2>8. n + 3 < limit
    BY <2>7
  <2> QED BY <2>1, <2>3, <2>4, <2>5, <2>6, <2>8
<1>2. ASSUME NEW s \in Seq(Nat), Agree(s, e)
      PROVE  /\ e \in Seq(Nat) /\ Len(e) > 0
             /\ HasFrame(s) => /\ Len(s) >= Len(e) /\ HeaderSize(s) + PayloadSize(s) = Len(e)
                               /\ s[1] # PongPrefix /\ TrimAbridgedPadding(Payload(s)) = token
  BY <1>1, <1>2, TrimmedUplink
<1>3. e \in Seq(Nat) /\ Len(e) > 0
  <2>1. <<>> \in Seq(Nat) /\ Agree(<<>>, e)
    BY DEF Agree
  <2> QED BY <1>2, <2>1
<1> HIDE DEF e
<1>4. Uplink(e, [kind |-> "token", token |-> token])
  BY <1>2, <1>3 DEF Uplink
<1> QED BY <1>4 DEF e

\* An envelope, guarded against the trimming: its known fields.
LEMMA EnvelopeUplink ==
    ASSUME NEW d \in Envelopes, NEW f \in Unmarshal(d)
    PROVE  Uplink(EncodeAbridged(Guarded(d)), [kind |-> "envelope", fields |-> f])
<1> DEFINE g == Guarded(d)
<1> DEFINE e == EncodeAbridged(g)
<1>1. d \in Seq(Nat) /\ d # <<>> /\ Unmarshal(d) = {f} /\ Len(d) + 6 < 4 * (Base * Base * Base)
  <2>1. d \in Seq(Nat) /\ Len(d) > 0 /\ Len(d) + 6 < 4 * (Base * Base * Base) /\ Unmarshal(d) # {}
    BY EnvelopeBytes
  <2>2. Unmarshal(d) = {f}
    BY <2>1, UnmarshalUnique
  <2> QED BY <2>1, <2>2
<1>2. /\ g \in Seq(Nat) /\ g # <<>> /\ Last(g) # 0 /\ Len(g) \in {Len(d), Len(d) + 3}
      /\ Unmarshal(g) = {f}
  BY <1>1, GuardedSound
<1> HIDE DEF g
<1>3. Len(g) > 0 /\ Len(g) + 3 < 4 * (Base * Base * Base)
  <2>1. PICK n \in Nat : n = Len(g)
    BY <1>2
  <2>2. PICK m \in Nat : m = Len(d)
    BY <1>1
  <2>3. n # 0
    BY <1>2, <2>1
  <2>4. PICK limit \in Nat : limit = 4 * (Base * Base * Base)
    BY FirstBytes
  <2>5. m + 6 < limit /\ n \in {m, m + 3}
    BY <1>1, <1>2, <2>1, <2>2, <2>4
  <2>6. n > 0 /\ n + 3 < limit
    BY <2>3, <2>5
  <2> QED BY <2>1, <2>4, <2>6
<1>4. ASSUME NEW s \in Seq(Nat), Agree(s, e)
      PROVE  /\ e \in Seq(Nat) /\ Len(e) > 0
             /\ HasFrame(s) => /\ Len(s) >= Len(e) /\ HeaderSize(s) + PayloadSize(s) = Len(e)
                               /\ s[1] # PongPrefix /\ TrimAbridgedPadding(Payload(s)) = g
  BY <1>2, <1>3, <1>4, TrimmedUplink
<1>5. e \in Seq(Nat) /\ Len(e) > 0
  <2>1. <<>> \in Seq(Nat) /\ Agree(<<>>, e)
    BY DEF Agree
  <2> QED BY <1>4, <2>1
<1> HIDE DEF e
<1>6. Uplink(e, [kind |-> "envelope", fields |-> f])
  BY <1>2, <1>4, <1>5 DEF Uplink
<1> QED BY <1>6 DEF e, g

\* A ping: its cid, cut to 16 bits, and the bytes that answer it.
LEMMA PingUplink ==
    ASSUME NEW c \in Nat
    PROVE  Uplink(<<PongPrefix>> \o Uint16(c), [kind |-> "ping", cid |-> c % (Base * Base)])
<1> DEFINE e == <<PongPrefix>> \o Uint16(c)
<1> DEFINE r == c % (Base * Base)
<1>1. ASSUME NEW s \in Seq(Nat), Agree(s, e)
      PROVE  /\ e \in Seq(Nat) /\ Len(e) = 3
             /\ HasFrame(s) <=> Len(s) >= 3
             /\ Len(s) > 0 => s[1] = PongPrefix /\ HeaderSize(s) = 3 /\ PayloadSize(s) = 0
             /\ Len(s) >= 3 => SubSeq(s, 2, 3) = Uint16(c) /\ SubSeq(s, 1, 3) = e
  BY <1>1, PongHeader
<1>2. e \in Seq(Nat) /\ Len(e) = 3 /\ Len(e) > 0
  <2>1. <<>> \in Seq(Nat) /\ Agree(<<>>, e)
    BY DEF Agree
  <2>2. e \in Seq(Nat) /\ Len(e) = 3
    BY <1>1, <2>1
  <2> QED BY <2>2
<1>3. Framed(e, [kind |-> "pong", cid |-> r])
  BY PongFramed
<1>4. BigEndian(Uint16(c)) = r
  BY Uint16Value
<1> HIDE DEF e, r
<1>5. ASSUME NEW s \in Seq(Nat), Agree(s, e), HasFrame(s)
      PROVE  /\ Len(s) >= Len(e) /\ HeaderSize(s) + PayloadSize(s) = Len(e)
             /\ s[1] = PongPrefix
             /\ BigEndian(SubSeq(s, 2, 3)) = r
             /\ Framed(SubSeq(s, 1, 3), [kind |-> "pong", cid |-> r])
  <2>1. Len(s) >= 3 /\ Len(s) > 0
    <3>1. Len(s) \in Nat /\ Len(s) >= 3
      BY <1>1, <1>5
    <3> QED BY <3>1
  <2>2. /\ s[1] = PongPrefix /\ HeaderSize(s) = 3 /\ PayloadSize(s) = 0
        /\ SubSeq(s, 2, 3) = Uint16(c) /\ SubSeq(s, 1, 3) = e
    BY <1>1, <1>5, <2>1
  <2>3. HeaderSize(s) + PayloadSize(s) = Len(e) /\ Len(s) >= Len(e)
    BY <1>2, <2>1, <2>2
  <2> QED BY <1>3, <1>4, <2>2, <2>3
<1>6. Uplink(e, [kind |-> "ping", cid |-> r])
  BY <1>2, <1>5 DEF Uplink
<1> QED BY <1>6 DEF e, r

----------------------------------------------------------------------------
(* A stream of frames: F[1] to F[m] were put on it, F[1] to F[n] were      *)
(* taken off it, and s is what is left of the others; c[i] bytes are in    *)
(* the first i frames.                                                     *)

Conveys(s, F, c, n, m) ==
    /\ s \in Seq(Nat) /\ n \in Nat /\ m \in Nat /\ n <= m
    /\ \A i \in 0 .. m : c[i] \in Nat
    /\ \A i \in 1 .. m : F[i] \in Seq(Nat) /\ Len(F[i]) > 0 /\ c[i] = c[i - 1] + Len(F[i])
    /\ \A i, k \in 0 .. m : i <= k => c[i] <= c[k]
    /\ Len(s) + c[n] <= c[m]
    /\ \A i \in n + 1 .. m : \A j \in 1 .. Len(F[i]) : \A q \in 1 .. Len(s) :
           q + c[n] = c[i - 1] + j => s[q] = F[i][j]

\* Nothing is cut off.
Whole(s, c, n, m) == Len(s) + c[n] = c[m]

\* An empty stream.
LEMMA ConveysNothing ==
    ASSUME NEW F
    PROVE  Conveys(<<>>, F, [i \in 0 .. 0 |-> 0], 0, 0) /\ Whole(<<>>, [i \in 0 .. 0 |-> 0], 0, 0)
<1> DEFINE c == [i \in 0 .. 0 |-> 0]
<1>1. c[0] = 0 /\ \A i \in 0 .. 0 : i = 0
  OBVIOUS
<1> HIDE DEF c
<1>2. Whole(<<>>, c, 0, 0)
  BY <1>1 DEF Whole
<1>3. Conveys(<<>>, F, c, 0, 0)
  BY <1>1 DEF Conveys
<1> QED BY <1>2, <1>3 DEF c

\* The stream starts with the next frame.
LEMMA ConveysHead ==
    ASSUME NEW s, NEW F, NEW c, NEW n, NEW m, Conveys(s, F, c, n, m), n < m
    PROVE  /\ n + 1 \in 1 .. m /\ F[n + 1] \in Seq(Nat) /\ Agree(s, F[n + 1])
           /\ Whole(s, c, n, m) => Len(s) >= Len(F[n + 1])
<1>1. /\ s \in Seq(Nat) /\ n \in Nat /\ m \in Nat
      /\ \A i \in 0 .. m : c[i] \in Nat
      /\ \A i \in 1 .. m : F[i] \in Seq(Nat) /\ Len(F[i]) > 0 /\ c[i] = c[i - 1] + Len(F[i])
      /\ \A i, k \in 0 .. m : i <= k => c[i] <= c[k]
      /\ \A i \in n + 1 .. m : \A j \in 1 .. Len(F[i]) : \A q \in 1 .. Len(s) :
             q + c[n] = c[i - 1] + j => s[q] = F[i][j]
  BY DEF Conveys
<1> DEFINE i == n + 1
<1>2. i \in 1 .. m /\ i \in n + 1 .. m /\ i - 1 = n /\ n \in 0 .. m /\ i \in 0 .. m /\ m \in 0 .. m /\ i <= m
  BY <1>1
<1> HIDE DEF i
<1>3. F[i] \in Seq(Nat) /\ c[n] \in Nat /\ Len(F[i]) \in Nat /\ Len(s) \in Nat
  BY <1>1, <1>2
<1>4. ASSUME NEW j \in 1 .. Len(F[i]), j <= Len(s) PROVE s[j] = F[i][j]
  <2>1. j \in 1 .. Len(s)
    BY <1>3, <1>4
  <2>2. j + c[n] = c[i - 1] + j
    BY <1>2, <1>3
  <2> QED BY <1>1, <1>2, <2>1, <2>2
<1>5. Agree(s, F[i])
  BY <1>4 DEF Agree
<1>6. ASSUME Whole(s, c, n, m) PROVE Len(s) >= Len(F[i])
  <2>1. c[i] = c[n] + Len(F[i]) /\ c[i] <= c[m] /\ c[m] \in Nat
    BY <1>1, <1>2
  <2>2. Len(s) + c[n] = c[m]
    BY <1>6 DEF Whole
  <2> QED BY <1>3, <2>1, <2>2
<1> QED BY <1>2, <1>3, <1>5, <1>6 DEF i

\* No frame is left.
LEMMA ConveysEnd ==
    ASSUME NEW s, NEW F, NEW c, NEW n, NEW m, Conveys(s, F, c, n, m)
    PROVE  /\ s \in Seq(Nat) /\ n \in Nat /\ m \in Nat /\ n <= m
           /\ n = m => s = <<>>
           /\ s = <<>> /\ Whole(s, c, n, m) => n = m
<1>1. s \in Seq(Nat) /\ n \in Nat /\ m \in Nat /\ n <= m /\ Len(s) + c[n] <= c[m] /\ \A i \in 0 .. m : c[i] \in Nat
  BY DEF Conveys
<1>2. c[n] \in Nat /\ c[m] \in Nat /\ Len(s) \in Nat
  BY <1>1
<1>3. ASSUME n = m PROVE s = <<>>
  <2>1. Len(s) = 0
    BY <1>1, <1>2, <1>3
  <2> QED BY <1>1, <2>1
<1>4. ASSUME s = <<>>, Whole(s, c, n, m) PROVE n = m
  <2> SUFFICES ASSUME n < m PROVE FALSE
    BY <1>1
  <2>1. n + 1 \in 1 .. m /\ F[n + 1] \in Seq(Nat) /\ Len(s) >= Len(F[n + 1])
    BY <1>4, ConveysHead
  <2>2. Len(F[n + 1]) > 0
    BY <2>1 DEF Conveys
  <2>3. Len(s) = 0
    BY <1>4
  <2> QED BY <2>1, <2>2, <2>3
<1> QED BY <1>1, <1>3, <1>4

\* A frame is taken off it.
LEMMA ConveysRest ==
    ASSUME NEW s, NEW F, NEW c, NEW n, NEW m, Conveys(s, F, c, n, m), n < m,
           Len(s) >= Len(F[n + 1])
    PROVE  /\ Conveys(SubSeq(s, Len(F[n + 1]) + 1, Len(s)), F, c, n + 1, m)
           /\ Whole(s, c, n, m) => Whole(SubSeq(s, Len(F[n + 1]) + 1, Len(s)), c, n + 1, m)
<1> DEFINE k == Len(F[n + 1])
<1>1. /\ s \in Seq(Nat) /\ n \in Nat /\ m \in Nat
      /\ \A i \in 0 .. m : c[i] \in Nat
      /\ \A i \in 1 .. m : F[i] \in Seq(Nat) /\ Len(F[i]) > 0 /\ c[i] = c[i - 1] + Len(F[i])
      /\ \A i, h \in 0 .. m : i <= h => c[i] <= c[h]
      /\ Len(s) + c[n] <= c[m]
      /\ \A i \in n + 1 .. m : \A j \in 1 .. Len(F[i]) : \A q \in 1 .. Len(s) :
             q + c[n] = c[i - 1] + j => s[q] = F[i][j]
  BY DEF Conveys
<1>2. /\ n \in 0 .. m /\ m \in 0 .. m /\ n + 1 \in 1 .. m /\ n + 1 \in 0 .. m
      /\ (n + 1) - 1 = n /\ n + 1 \in Nat /\ n + 1 <= m
  BY <1>1
<1>3. c[n + 1] = c[n] + k /\ k \in Nat /\ c[n] \in Nat /\ c[m] \in Nat /\ Len(s) \in Nat /\ k <= Len(s)
  <2>1. c[n + 1] = c[(n + 1) - 1] + k /\ F[n + 1] \in Seq(Nat)
    BY <1>1, <1>2
  <2>2. k \in Nat /\ Len(s) \in Nat
    BY <1>1, <2>1
  <2>3. c[n] \in Nat /\ c[m] \in Nat
    BY <1>1, <1>2
  <2>4. c[n + 1] = c[n] + k
    BY <1>2, <2>1
  <2> QED BY <2>2, <2>3, <2>4
<1> HIDE DEF k
<1> DEFINE r == SubSeq(s, k + 1, Len(s))
<1>4. r \in Seq(Nat) /\ Len(r) = Len(s) - k /\ \A q \in 1 .. Len(s) - k : r[q] = s[q + k]
  <2>1. k + 1 \in Int /\ Len(s) \in Int /\ \A i \in k + 1 .. Len(s) : s[i] \in Nat
    <3>1. ASSUME NEW i \in k + 1 .. Len(s) PROVE s[i] \in Nat
      <4>1. i \in 1 .. Len(s)
        BY <1>3
      <4> QED BY <1>1, <4>1, ElementOfSeq
    <3> QED BY <1>3, <3>1
  <2>2. /\ r \in Seq(Nat) /\ Len(r) = (IF k + 1 <= Len(s) THEN Len(s) - (k + 1) + 1 ELSE 0)
        /\ \A q \in 1 .. Len(s) - (k + 1) + 1 : r[q] = s[(k + 1) + q - 1]
    BY <2>1, SubSeqProperties
  <2> HIDE DEF r
  <2>3. Len(r) = Len(s) - k /\ Len(s) - (k + 1) + 1 = Len(s) - k
    BY <1>3, <2>2
  <2>4. ASSUME NEW q \in 1 .. Len(s) - k PROVE r[q] = s[q + k]
    <3>1. q \in 1 .. Len(s) - (k + 1) + 1 /\ (k + 1) + q - 1 = q + k
      BY <1>3, <2>3
    <3> QED BY <2>2, <3>1
  <2> QED BY <2>2, <2>3, <2>4
<1> HIDE DEF r
<1>5. Len(r) + c[n + 1] = Len(s) + c[n] /\ Len(r) \in Nat
  BY <1>3, <1>4
<1>6. Len(r) + c[n + 1] <= c[m]
  BY <1>1, <1>5
<1>7. Whole(s, c, n, m) => Whole(r, c, n + 1, m)
  BY <1>5 DEF Whole
<1>8. ASSUME NEW i \in (n + 1) + 1 .. m, NEW j \in 1 .. Len(F[i]), NEW q \in 1 .. Len(r),
             q + c[n + 1] = c[i - 1] + j
      PROVE  r[q] = F[i][j]
  <2>1. i \in n + 1 .. m /\ i \in 1 .. m /\ i - 1 \in 0 .. m
    <3>1. n \in Nat /\ m \in Nat /\ i \in Int /\ n + 2 <= i /\ i <= m
      BY <1>1
    <3> QED BY <3>1
  <2>2. Len(F[i]) \in Nat /\ c[i - 1] \in Nat
    <3>1. F[i] \in Seq(Nat)
      BY <1>1, <2>1
    <3>2. c[i - 1] \in Nat
      BY <1>1, <2>1
    <3> QED BY <3>1, <3>2
  <2>3. q + k \in 1 .. Len(s) /\ (q + k) + c[n] = c[i - 1] + j
    BY SMTT(30), <1>3, <1>4, <1>8, <2>2
  <2>4. s[q + k] = F[i][j]
    BY <1>1, <2>1, <2>3
  <2>5. r[q] = s[q + k]
    BY <1>4
  <2> QED BY <2>4, <2>5
<1>9. Conveys(r, F, c, n + 1, m)
  BY <1>1, <1>2, <1>4, <1>6, <1>8 DEF Conveys
<1> QED BY <1>7, <1>9 DEF r, k

\* The end of it is lost.
LEMMA ConveysCut ==
    ASSUME NEW s, NEW F, NEW c, NEW n, NEW m, Conveys(s, F, c, n, m), NEW k \in 0 .. Len(s)
    PROVE  Conveys(SubSeq(s, 1, Len(s) - k), F, c, n, m)
<1>1. /\ s \in Seq(Nat) /\ n \in Nat /\ m \in Nat /\ n <= m
      /\ \A i \in 0 .. m : c[i] \in Nat
      /\ \A i \in 1 .. m : F[i] \in Seq(Nat) /\ Len(F[i]) > 0 /\ c[i] = c[i - 1] + Len(F[i])
      /\ \A i, h \in 0 .. m : i <= h => c[i] <= c[h]
      /\ Len(s) + c[n] <= c[m]
      /\ \A i \in n + 1 .. m : \A j \in 1 .. Len(F[i]) : \A q \in 1 .. Len(s) :
             q + c[n] = c[i - 1] + j => s[q] = F[i][j]
  BY DEF Conveys
<1> DEFINE r == SubSeq(s, 1, Len(s) - k)
<1>2. r \in Seq(Nat) /\ Len(r) = Len(s) - k /\ \A q \in 1 .. Len(r) : r[q] = s[q]
  <2>1. Len(s) - k \in 0 .. Len(s) /\ Len(s) \in Nat
    BY <1>1
  <2>2. 1 \in Int /\ Len(s) - k \in Int /\ \A i \in 1 .. Len(s) - k : s[i] \in Nat
    <3>1. 1 \in Int /\ Len(s) - k \in Int
      BY <2>1
    <3>2. ASSUME NEW i \in 1 .. Len(s) - k PROVE s[i] \in Nat
      <4>1. i \in 1 .. Len(s)
        BY <2>1
      <4>2. s \in Seq(Nat)
        BY <1>1
      <4> QED BY <4>1, <4>2, ElementOfSeq
    <3> QED BY <3>1, <3>2
  <2>3. /\ r \in Seq(Nat) /\ Len(r) = (IF 1 <= Len(s) - k THEN (Len(s) - k) - 1 + 1 ELSE 0)
        /\ \A q \in 1 .. (Len(s) - k) - 1 + 1 : r[q] = s[1 + q - 1]
    BY <2>2, SubSeqProperties
  <2> HIDE DEF r
  <2>4. Len(r) = Len(s) - k /\ (Len(s) - k) - 1 + 1 = Len(s) - k
    BY <2>1, <2>3
  <2>5. ASSUME NEW q \in 1 .. Len(r) PROVE r[q] = s[q]
    <3>1. q \in 1 .. (Len(s) - k) - 1 + 1 /\ 1 + q - 1 = q
      BY <2>1, <2>4
    <3> QED BY <2>3, <3>1
  <2> QED BY <2>3, <2>4, <2>5
<1> HIDE DEF r
<1>3. c[n] \in Nat /\ c[m] \in Nat /\ Len(s) \in Nat
  <2>1. n \in 0 .. m /\ m \in 0 .. m
    BY <1>1
  <2> QED BY <1>1, <2>1
<1>4. Len(r) + c[n] <= c[m]
  BY <1>1, <1>2, <1>3
<1>5. ASSUME NEW i \in n + 1 .. m, NEW j \in 1 .. Len(F[i]), NEW q \in 1 .. Len(r), q + c[n] = c[i - 1] + j
      PROVE  r[q] = F[i][j]
  <2>1. q \in 1 .. Len(s)
    BY <1>2, <1>3
  <2> QED BY <1>1, <1>2, <1>5, <2>1
<1>6. Conveys(r, F, c, n, m)
  BY <1>1, <1>2, <1>4, <1>5 DEF Conveys
<1> QED BY <1>6 DEF r

\* A frame is put on it.
LEMMA ConveysMore ==
    ASSUME NEW s, NEW F, NEW c, NEW n, NEW m, Conveys(s, F, c, n, m), Whole(s, c, n, m),
           NEW e \in Seq(Nat), Len(e) > 0
    PROVE  \E G, d : /\ Conveys(s \o e, G, d, n, m + 1) /\ Whole(s \o e, d, n, m + 1)
                     /\ G[m + 1] = e /\ \A i \in 1 .. m : G[i] = F[i]
<1>1. /\ s \in Seq(Nat) /\ n \in Nat /\ m \in Nat /\ n <= m
      /\ \A i \in 0 .. m : c[i] \in Nat
      /\ \A i \in 1 .. m : F[i] \in Seq(Nat) /\ Len(F[i]) > 0 /\ c[i] = c[i - 1] + Len(F[i])
      /\ \A i, h \in 0 .. m : i <= h => c[i] <= c[h]
      /\ \A i \in n + 1 .. m : \A j \in 1 .. Len(F[i]) : \A q \in 1 .. Len(s) :
             q + c[n] = c[i - 1] + j => s[q] = F[i][j]
  BY DEF Conveys
<1>2. Len(s) + c[n] = c[m]
  BY DEF Whole
<1> DEFINE G == [i \in 1 .. m + 1 |-> IF i = m + 1 THEN e ELSE F[i]]
<1> DEFINE d == [i \in 0 .. m + 1 |-> IF i = m + 1 THEN c[m] + Len(e) ELSE c[i]]
<1>3. /\ G[m + 1] = e /\ \A i \in 1 .. m : G[i] = F[i]
      /\ d[m + 1] = c[m] + Len(e) /\ \A i \in 0 .. m : d[i] = c[i]
  <2>1. m + 1 \in 1 .. m + 1 /\ m + 1 \in 0 .. m + 1
    BY <1>1
  <2>2. \A i \in 1 .. m : i \in 1 .. m + 1 /\ i # m + 1
    BY <1>1
  <2>3. \A i \in 0 .. m : i \in 0 .. m + 1 /\ i # m + 1
    BY <1>1
  <2> QED BY <2>1, <2>2, <2>3
<1> HIDE DEF G, d
<1> DEFINE r == s \o e
<1>4. /\ r \in Seq(Nat) /\ Len(r) = Len(s) + Len(e)
      /\ \A q \in 1 .. Len(s) + Len(e) : r[q] = IF q <= Len(s) THEN s[q] ELSE e[q - Len(s)]
  BY <1>1, ConcatProperties
<1> HIDE DEF r
<1>5. /\ Len(e) \in Nat /\ Len(s) \in Nat /\ c[m] \in Nat /\ c[n] \in Nat
      /\ d[n] = c[n] /\ d[m] = c[m] /\ m + 1 \in Nat /\ n <= m + 1
  <2>1. n \in 0 .. m /\ m \in 0 .. m
    BY <1>1
  <2>2. Len(e) \in Nat /\ Len(s) \in Nat /\ m + 1 \in Nat /\ n <= m + 1
    BY <1>1
  <2> QED BY <1>1, <1>3, <2>1, <2>2
<1>6. \A i \in 0 .. m + 1 : d[i] \in Nat
  <2> TAKE i \in 0 .. m + 1
  <2>1. CASE i = m + 1
    BY <1>3, <1>5, <2>1
  <2>2. CASE i # m + 1
    <3>1. i \in 0 .. m
      BY <1>1, <2>2
    <3> QED BY <1>1, <1>3, <3>1
  <2> QED BY <2>1, <2>2
<1>7. \A i \in 1 .. m + 1 : G[i] \in Seq(Nat) /\ Len(G[i]) > 0 /\ d[i] = d[i - 1] + Len(G[i])
  <2> TAKE i \in 1 .. m + 1
  <2>1. CASE i = m + 1
    <3>1. i - 1 = m
      BY <1>1, <2>1
    <3> QED BY <1>3, <1>5, <2>1, <3>1
  <2>2. CASE i # m + 1
    <3>1. i \in 1 .. m /\ i \in 0 .. m /\ i - 1 \in 0 .. m
      BY <1>1, <2>2
    <3>2. G[i] = F[i] /\ d[i] = c[i] /\ d[i - 1] = c[i - 1]
      BY <1>3, <3>1
    <3> QED BY <1>1, <3>1, <3>2
  <2> QED BY <2>1, <2>2
<1>8. \A i, h \in 0 .. m + 1 : i <= h => d[i] <= d[h]
  <2> SUFFICES ASSUME NEW i \in 0 .. m + 1, NEW h \in 0 .. m + 1, i <= h PROVE d[i] <= d[h]
    OBVIOUS
  <2>1. CASE h = m + 1
    <3>1. CASE i = m + 1
      BY <1>3, <1>5, <2>1, <3>1
    <3>2. CASE i # m + 1
      <4>1. i \in 0 .. m /\ m \in 0 .. m /\ i <= m
        BY <1>1, <3>2
      <4>2. c[i] <= c[m] /\ c[i] \in Nat /\ d[i] = c[i]
        BY <1>1, <1>3, <4>1
      <4> QED BY <1>3, <1>5, <2>1, <4>2
    <3> QED BY <3>1, <3>2
  <2>2. CASE h # m + 1
    <3>1. h \in 0 .. m /\ i \in 0 .. m
      BY <1>1, <2>2
    <3> QED BY <1>1, <1>3, <3>1
  <2> QED BY <2>1, <2>2
<1>9. Len(r) + d[n] = d[m + 1]
  BY <1>2, <1>3, <1>4, <1>5
<1>10. ASSUME NEW i \in n + 1 .. m + 1, NEW j \in 1 .. Len(G[i]), NEW q \in 1 .. Len(r), q + d[n] = d[i - 1] + j
       PROVE  r[q] = G[i][j]
  <2>1. CASE i = m + 1
    <3>1. i - 1 = m /\ G[i] = e
      BY <1>1, <1>3, <2>1
    <3>2. q + c[n] = c[m] + j /\ j \in 1 .. Len(e)
      BY <1>5, <1>10, <3>1
    <3>3. q = Len(s) + j
      <4> DEFINE z == Len(s)
      <4> DEFINE a == c[n]
      <4> DEFINE b == c[m]
      <4>1. q \in Int /\ j \in Int /\ z \in Nat /\ a \in Nat /\ b \in Nat
        BY <1>5, <3>2
      <4>2. q + a = b + j /\ z + a = b
        BY <1>2, <3>2
      <4> HIDE DEF z, a, b
      <4>3. q = z + j
        BY <4>1, <4>2
      <4> QED BY <4>3 DEF z
    <3>4. q \in 1 .. Len(s) + Len(e) /\ ~(q <= Len(s)) /\ q - Len(s) = j
      BY <1>5, <3>2, <3>3
    <3> QED BY <1>4, <3>1, <3>4
  <2>2. CASE i # m + 1
    <3>1. i \in n + 1 .. m /\ i \in 1 .. m /\ i - 1 \in 0 .. m /\ i \in 0 .. m /\ m \in 0 .. m /\ i <= m
      BY <1>1, <2>2
    <3>2. G[i] = F[i] /\ d[i - 1] = c[i - 1] /\ c[i] = c[i - 1] + Len(F[i]) /\ F[i] \in Seq(Nat) /\ c[i - 1] \in Nat
      BY <1>1, <1>3, <3>1
    <3>3. c[i] <= c[m]
      BY <1>1, <3>1
    <3>4. Len(F[i]) \in Nat /\ j \in 1 .. Len(F[i]) /\ q + c[n] = c[i - 1] + j
      BY <1>5, <1>10, <3>2
    <3>5. q <= Len(s)
      <4> DEFINE a == c[i - 1]
      <4> DEFINE b == Len(F[i])
      <4> DEFINE z == Len(s)
      <4>1. a \in Nat /\ b \in Nat /\ c[i] = a + b /\ j <= b /\ j \in Nat /\ q \in Nat /\ z \in Nat
        BY <1>4, <1>5, <3>2, <3>4
      <4>2. q + c[n] = a + j /\ a + b <= c[m] /\ z + c[n] = c[m]
        BY <1>2, <3>2, <3>3, <3>4
      <4> HIDE DEF a, b, z
      <4>3. q <= z
        BY <1>5, <4>1, <4>2
      <4> QED BY <4>3 DEF z
    <3>6. q \in 1 .. Len(s) /\ q \in 1 .. Len(s) + Len(e)
      BY <1>4, <1>5, <3>5
    <3>7. s[q] = F[i][j]
      BY <1>1, <3>1, <3>4, <3>6
    <3> QED BY <1>4, <3>2, <3>5, <3>6, <3>7
  <2> QED BY <2>1, <2>2
<1>11. Whole(r, d, n, m + 1)
  BY <1>9 DEF Whole
<1>12. Len(r) + d[n] <= d[m + 1]
  <2>1. d[m + 1] \in Nat
    BY <1>3, <1>5
  <2> QED BY <1>9, <2>1
<1>13. Conveys(r, G, d, n, m + 1)
  BY <1>1, <1>4, <1>5, <1>6, <1>7, <1>8, <1>10, <1>12 DEF Conveys
<1> QED BY <1>3, <1>11, <1>13 DEF r

----------------------------------------------------------------------------
(* The histories.                                                          *)

\* What SetToSeq makes of the sets the model gives it.
LEMMA FewToSeq ==
    /\ SetToSeq({}) = <<>>
    /\ \A x : SetToSeq({x}) = <<x>>
<1>1. SetToSeq({}) = <<>>
  <2>1. Cardinality({}) = 0
    BY FS_EmptySet
  <2>2. <<>> \in [1 .. 0 -> {}] /\ IsInjective(<<>>)
    BY DEF IsInjective
  <2>3. \A f \in [1 .. 0 -> {}] : f = <<>>
    OBVIOUS
  <2>4. SetToSeq({}) = CHOOSE f \in [1 .. 0 -> {}] : IsInjective(f)
    BY <2>1 DEF SetToSeq
  <2> QED BY <2>2, <2>3, <2>4
<1>2. ASSUME NEW x PROVE SetToSeq({x}) = <<x>>
  <2>1. Cardinality({x}) = 1
    BY FS_Singleton
  <2>2. <<x>> \in [1 .. 1 -> {x}] /\ IsInjective(<<x>>)
    BY DEF IsInjective
  <2>3. \A f \in [1 .. 1 -> {x}] : f = <<x>>
    OBVIOUS
  <2>4. SetToSeq({x}) = CHOOSE f \in [1 .. 1 -> {x}] : IsInjective(f)
    BY <2>1 DEF SetToSeq
  <2> QED BY <2>2, <2>3, <2>4
<1> QED BY <1>1, <1>2

\* What is delivered grows by what the next frame becomes.
LEMMA DeliverNext ==
    ASSUME NEW X, NEW s \in Seq(X), NEW n \in Nat, n + 1 <= Len(s)
    PROVE  DeliverableOf(SubSeq(s, 1, n + 1)) =
               DeliverableOf(SubSeq(s, 1, n)) \o
                   SetToSeq(IF IsDeliverable(s[n + 1]) THEN {s[n + 1]} ELSE {})
<1> DEFINE a == DeliverableOf(SubSeq(s, 1, n))
<1> DEFINE b == DeliverableOf(SubSeq(s, 1, n + 1))
<1> DEFINE x == s[n + 1]
<1>1. n \in 0 .. Len(s) /\ n + 1 \in 1 .. Len(s)
  OBVIOUS
<1>2. a \in Seq(X) /\ x \in X
  BY <1>1, DeliverableGrows, ElementOfSeq
<1>3. b = IF IsDeliverable(x) THEN Append(a, x) ELSE a
  BY DeliverableStep
<1> HIDE DEF a, b, x
<1>4. Append(a, x) = a \o <<x>> /\ a \o <<>> = a
  BY <1>2
<1>5. b = a \o SetToSeq(IF IsDeliverable(x) THEN {x} ELSE {})
  BY <1>3, <1>4, FewToSeq
<1> QED BY <1>5 DEF a, b, x

\* What is sent later does not change what was before it.
LEMMA EarlierSame ==
    ASSUME NEW X, NEW s \in Seq(X), NEW x \in X, NEW n \in 0 .. Len(s)
    PROVE  /\ Append(s, x) \in Seq(X) /\ Len(Append(s, x)) = Len(s) + 1
           /\ \A i \in 1 .. Len(s) : Append(s, x)[i] = s[i]
           /\ Append(s, x)[Len(s) + 1] = x
           /\ SubSeq(Append(s, x), 1, n) = SubSeq(s, 1, n)
<1> DEFINE t == Append(s, x)
<1>1. /\ t \in Seq(X) /\ Len(t) = Len(s) + 1
      /\ \A i \in 1 .. Len(s) : t[i] = s[i]
      /\ t[Len(s) + 1] = x
  BY AppendProperties
<1> HIDE DEF t
<1>2. SubSeq(t, 1, n) = SubSeq(s, 1, n)
  BY <1>1
<1> QED BY <1>1, <1>2 DEF t

----------------------------------------------------------------------------
(* The invariant.                                                          *)

\* The known fields of what may be sent.
Fields == UNION {Unmarshal(d) : d \in Envelopes}

\* The entries of sent, and of written and received.
Shown ==
    Chunks \cup [kind : {"envelope", "close", "ping", "long"}, fields : Fields] \cup [kind : {"pong"}, cid : Nat]
Told ==
    [kind : {"token"}, token : Tokens] \cup [kind : {"envelope"}, fields : Fields] \cup [kind : {"ping"}, cid : Nat]

Histories ==
    /\ kind \in {"tcp", "websocket"}
    /\ sent \in Seq(Shown) /\ written \in Seq(Told) /\ received \in Seq(Told)

\* The gateway has made of the first of what was written what it should.
Answered ==
    /\ Len(received) <= Len(written)
    /\ \A i \in 1 .. Len(received) : received[i] = Cropped(written[i])
    /\ Len(written) > 0
    /\ \A i \in 1 .. Len(written) : written[i].kind = "token" <=> i = 1

\* readLoop ends for a reason.
Stopped == ~reading => cut \/ \E i \in 1 .. Len(sent) : sent[i].kind \in {"close", "long"}

\* What is on its way to readLoop: the frames of what was sent, the first n of which
\* it has read.
TcpDown ==
    \E n, F, c :
        /\ Conveys(down, F, c, n, Len(sent)) /\ (~cut => Whole(down, c, n, Len(sent)))
        /\ \A i \in 1 .. Len(sent) : Framed(F[i], sent[i])
        /\ got = DeliverableOf(SubSeq(sent, 1, n))

\* What is on its way to the gateway; the handshake's prefix is in front of the token.
TcpUp ==
    \E F, c, s :
        /\ up = IF received = <<>> THEN <<HandshakePrefix>> \o s ELSE s
        /\ Conveys(s, F, c, Len(received), Len(written)) /\ Whole(s, c, Len(received), Len(written))
        /\ \A i \in 1 .. Len(written) : Uplink(F[i], Cropped(written[i]))

\* A WebSocket message, and what it becomes.
Delivers(m, x) ==
    /\ IsDeliverable(x)
    /\ (IF Len(m) > 0 /\ m[1] = RawPrefix
        THEN IF Len(m) < 7 THEN <<>> ELSE <<Chunk(m, 7)>>
        ELSE SetToSeq({[kind |-> "envelope", fields |-> f] : f \in UnmarshalEnvelope(m, FALSE)})) = <<x>>

\* On the WebSocket: the messages that readLoop has not read, the first n being read.
WsDown ==
    \E n \in 0 .. Len(sent) :
        /\ down \in Seq(Seq(Nat)) /\ Len(down) <= Len(sent) - n /\ (~cut => Len(down) = Len(sent) - n)
        /\ \A j \in 1 .. Len(down) : Delivers(down[j], sent[n + j])
        /\ got = DeliverableOf(SubSeq(sent, 1, n))

\* The messages that the gateway has not read.
WsUp ==
    /\ up \in Seq(Seq(Nat)) /\ Len(received) + Len(up) = Len(written) /\ Len(received) > 0
    /\ \A j \in 1 .. Len(up) : \E f : /\ Unmarshal(up[j]) = {f}
                                      /\ written[Len(received) + j] = [kind |-> "envelope", fields |-> f]

\* The inductive invariant.
IInv ==
    /\ Histories /\ Answered /\ Stopped
    /\ kind = "tcp" => TcpDown /\ TcpUp
    /\ kind = "websocket" => WsDown /\ WsUp

----------------------------------------------------------------------------
(* The steps.                                                             *)

\* The handshake of dialTCP is on its way, and nothing else.
LEMMA InitHolds == Init => IInv
<1> SUFFICES ASSUME Init PROVE IInv
  OBVIOUS
<1>1. PICK token \in Tokens :
          /\ up = IF kind = "tcp" THEN <<HandshakePrefix>> \o EncodeAbridged(token) ELSE <<>>
          /\ written = <<[kind |-> "token", token |-> token]>>
          /\ received = IF kind = "tcp" THEN <<>> ELSE <<[kind |-> "token", token |-> token]>>
  BY DEF Init
<1> DEFINE y == [kind |-> "token", token |-> token]
<1>2. /\ kind \in {"tcp", "websocket"} /\ down = <<>> /\ cut = FALSE /\ reading = TRUE
      /\ sent = <<>> /\ got = <<>>
  BY DEF Init
<1>3. y \in Told /\ y.kind = "token" /\ Cropped(y) = y
  BY DEF Told, Cropped
<1>4. written = <<y>> /\ (kind = "tcp" => received = <<>>) /\ (kind = "websocket" => received = <<y>>)
  BY <1>1, <1>2
<1>5. Uplink(EncodeAbridged(token), y)
  BY TokenUplink
<1> HIDE DEF y
<1>6. written \in Seq(Told) /\ Len(written) = 1 /\ written[1] = y
  BY <1>3, <1>4
<1>7. received \in Seq(Told) /\ Len(received) <= 1 /\ (Len(received) = 1 => received[1] = y) /\ Len(received) \in Nat
  <2>1. CASE kind = "tcp"
    BY <1>4, <2>1
  <2>2. CASE kind = "websocket"
    <3>1. received = <<y>> /\ y \in Told
      BY <1>3, <1>4, <2>2
    <3>2. received \in Seq(Told) /\ Len(received) = 1 /\ received[1] = y
      BY <3>1
    <3> QED BY <3>2
  <2> QED BY <1>2, <2>1, <2>2
<1>8. sent \in Seq(Shown) /\ Len(sent) = 0
  BY <1>2
<1>9. Histories
  BY <1>2, <1>6, <1>7, <1>8 DEF Histories
<1>10. Answered
  <2>1. ASSUME NEW i \in 1 .. Len(received) PROVE received[i] = Cropped(written[i])
    <3>1. i = 1 /\ Len(received) = 1
      <4>1. PICK n \in Nat : n = Len(received)
        BY <1>7
      <4>2. n <= 1 /\ i \in 1 .. n
        BY <1>7, <4>1
      <4>3. i = 1 /\ n = 1
        BY <4>2
      <4> QED BY <4>1, <4>3
    <3> QED BY <1>3, <1>6, <1>7, <3>1
  <2>2. ASSUME NEW i \in 1 .. Len(written) PROVE written[i].kind = "token" <=> i = 1
    <3>1. i = 1
      BY <1>6
    <3> QED BY <1>3, <1>6, <3>1
  <2>3. Len(received) <= Len(written) /\ Len(written) > 0
    BY <1>6, <1>7
  <2> QED BY <2>1, <2>2, <2>3 DEF Answered
<1>11. Stopped
  BY <1>2 DEF Stopped
<1>12. got = DeliverableOf(SubSeq(sent, 1, 0))
  BY <1>2, <1>8, DeliverableEnds
<1> DEFINE zero == [i \in 0 .. 0 |-> 0]
<1>13. \A F : Conveys(<<>>, F, zero, 0, 0) /\ Whole(<<>>, zero, 0, 0)
  BY ConveysNothing
<1> HIDE DEF zero
<1>14. TcpDown
  <2>1. Conveys(down, <<>>, zero, 0, Len(sent)) /\ Whole(down, zero, 0, Len(sent))
    BY <1>2, <1>8, <1>13
  <2>2. \A i \in 1 .. Len(sent) : Framed(<<>>[i], sent[i])
    BY <1>8
  <2> QED BY <1>12, <2>1, <2>2 DEF TcpDown
<1>15. ASSUME kind = "tcp" PROVE TcpUp
  <2> DEFINE e == EncodeAbridged(token)
  <2>1. Uplink(e, y)
    BY <1>5
  <2>2. up = <<HandshakePrefix>> \o e /\ received = <<>>
    BY <1>1, <1>15
  <2> HIDE DEF e
  <2>3. e \in Seq(Nat) /\ Len(e) > 0
    BY <2>1 DEF Uplink
  <2>4. PICK G, d : Conveys(<<>> \o e, G, d, 0, 0 + 1) /\ Whole(<<>> \o e, d, 0, 0 + 1) /\ G[0 + 1] = e
    <3>1. PICK m \in Nat : m = 0
      OBVIOUS
    <3>2. PICK s : s = <<>>
      OBVIOUS
    <3>3. Conveys(s, <<>>, zero, m, m) /\ Whole(s, zero, m, m)
      BY <1>13, <3>1, <3>2
    <3>4. \E G, d : Conveys(s \o e, G, d, m, m + 1) /\ Whole(s \o e, d, m, m + 1) /\ G[m + 1] = e
      BY <2>3, <3>3, ConveysMore
    <3> QED BY <3>1, <3>2, <3>4
  <2>5. <<>> \o e = e /\ 0 + 1 = 1
    BY <2>3
  <2>6. Conveys(e, G, d, Len(received), Len(written)) /\ Whole(e, d, Len(received), Len(written))
    <3>1. Len(received) = 0 /\ Len(written) = 0 + 1
      BY <1>6, <2>2
    <3> QED BY <2>4, <2>5, <3>1
  <2>7. ASSUME NEW i \in 1 .. Len(written) PROVE Uplink(G[i], Cropped(written[i]))
    <3>1. i = 1
      BY <1>6
    <3>2. G[1] = e
      BY <2>4, <2>5
    <3> QED BY <1>3, <1>6, <2>1, <3>1, <3>2
  <2>8. up = IF received = <<>> THEN <<HandshakePrefix>> \o e ELSE e
    BY <2>2
  <2> QED BY <2>6, <2>7, <2>8 DEF TcpUp
<1>16. ASSUME kind = "websocket" PROVE WsUp /\ WsDown
  <2>1. up = <<>> /\ Len(received) = 1
    BY <1>1, <1>4, <1>16
  <2>2. up \in Seq(Seq(Nat)) /\ Len(up) = 0
    BY <2>1
  <2>3. WsUp
    BY <1>6, <2>1, <2>2 DEF WsUp
  <2>4. down \in Seq(Seq(Nat)) /\ Len(down) = 0
    BY <1>2
  <2>5. 0 \in 0 .. Len(sent) /\ Len(down) = Len(sent) - 0
    BY <1>8, <2>4
  <2>6. Len(down) <= Len(sent) - 0 /\ \A j \in 1 .. Len(down) : Delivers(down[j], sent[0 + j])
    BY <1>8, <2>4
  <2>7. WsDown
    BY <1>12, <2>4, <2>5, <2>6 DEF WsDown
  <2> QED BY <2>3, <2>7
<1> QED BY <1>9, <1>10, <1>11, <1>14, <1>15, <1>16 DEF IInv

\* A stream on which there is a frame, or the announcement of one, is not empty.
LEMMA EmptyStream ==
    ASSUME NEW s \in Seq(Nat), HasFrame(s) \/ Oversize(s)
    PROVE  s # <<>>
<1>1. Len(s) > 0
  BY DEF HasFrame, Oversize, HasHeader
<1> QED BY <1>1

\* The parts that a step leaves alone.
LEMMA PartsSame ==
    /\ Histories /\ UNCHANGED <<kind, sent, written, received>> => Histories'
    /\ Answered /\ UNCHANGED <<written, received>> => Answered'
    /\ Stopped /\ UNCHANGED <<reading, cut, sent>> => Stopped'
    /\ TcpDown /\ UNCHANGED <<down, cut, sent, got>> => TcpDown'
    /\ TcpUp /\ UNCHANGED <<up, received, written>> => TcpUp'
    /\ WsDown /\ UNCHANGED <<down, cut, sent, got>> => WsDown'
    /\ WsUp /\ UNCHANGED <<up, received, written>> => WsUp'
<1>1. Histories /\ UNCHANGED <<kind, sent, written, received>> => Histories'
  BY DEF Histories
<1>2. Answered /\ UNCHANGED <<written, received>> => Answered'
  BY DEF Answered
<1>3. Stopped /\ UNCHANGED <<reading, cut, sent>> => Stopped'
  BY DEF Stopped
<1>4. TcpDown /\ UNCHANGED <<down, cut, sent, got>> => TcpDown'
  BY DEF TcpDown
<1>5. TcpUp /\ UNCHANGED <<up, received, written>> => TcpUp'
  BY DEF TcpUp
<1>6. WsDown /\ UNCHANGED <<down, cut, sent, got>> => WsDown'
  BY DEF WsDown
<1>7. WsUp /\ UNCHANGED <<up, received, written>> => WsUp'
  BY DEF WsUp
<1> QED BY <1>1, <1>2, <1>3, <1>4, <1>5, <1>6, <1>7

\* readFrameOnce takes the frame at the head of the stream for what it is.
LEMMA ReadFrameStep == IInv /\ ReadFrame => IInv'
<1> SUFFICES ASSUME IInv, ReadFrame PROVE IInv'
  OBVIOUS
<1>1. /\ Histories /\ Answered /\ Stopped /\ kind = "tcp" /\ TcpDown /\ TcpUp /\ sent \in Seq(Shown)
      /\ reading /\ HasFrame(down)
      /\ got' = got \o SetToSeq(Frame(down)) /\ down' = Rest(down)
      /\ reading' = ~(IsWs(down) /\ Opcode(down) = OpClose)
      /\ UNCHANGED <<kind, up, cut, written, received, sent>>
  BY DEF IInv, ReadFrame, Histories
<1>2. PICK n, F, c :
          /\ Conveys(down, F, c, n, Len(sent)) /\ (~cut => Whole(down, c, n, Len(sent)))
          /\ \A i \in 1 .. Len(sent) : Framed(F[i], sent[i])
          /\ got = DeliverableOf(SubSeq(sent, 1, n))
  BY <1>1 DEF TcpDown
<1>3. PICK m \in Nat : m = Len(sent)
  BY <1>1
<1>4. Conveys(down, F, c, n, m) /\ (~cut => Whole(down, c, n, m))
  BY <1>2, <1>3
<1>5. down \in Seq(Nat) /\ n \in Nat /\ n <= m /\ (n = m => down = <<>>)
  BY <1>4, ConveysEnd
<1>6. n < m
  <2>1. down # <<>>
    BY <1>1, <1>5, EmptyStream
  <2> QED BY <1>5, <2>1
<1>7. n + 1 \in 1 .. m /\ Agree(down, F[n + 1])
  BY <1>4, <1>6, ConveysHead
<1> DEFINE e == F[n + 1]
<1> DEFINE x == sent[n + 1]
<1>8. Framed(e, x)
  BY <1>2, <1>3, <1>7
<1>9. /\ Len(down) >= Len(e)
      /\ HeaderSize(down) + PayloadSize(down) = Len(e)
      /\ Frame(down) = IF IsDeliverable(x) THEN {x} ELSE {}
      /\ IsWs(down) /\ Opcode(down) = OpClose <=> x.kind = "close"
  <2> HIDE DEF e, x
  <2>1. Agree(down, e)
    BY <1>7 DEF e
  <2> QED BY <1>1, <1>5, <1>8, <2>1 DEF Framed
<1>10. down' = SubSeq(down, Len(F[n + 1]) + 1, Len(down))
  <2>1. Rest(down) = SubSeq(down, Len(e) + 1, Len(down))
    BY <1>9 DEF Rest
  <2> QED BY <1>1, <2>1
<1>11. Conveys(down', F, c, n + 1, m) /\ (Whole(down, c, n, m) => Whole(down', c, n + 1, m))
  BY <1>4, <1>6, <1>9, <1>10, ConveysRest
<1>12. got' = DeliverableOf(SubSeq(sent, 1, n + 1))
  <2>1. n + 1 <= Len(sent)
    BY <1>3, <1>5, <1>6
  <2>2. DeliverableOf(SubSeq(sent, 1, n + 1)) =
            DeliverableOf(SubSeq(sent, 1, n)) \o SetToSeq(IF IsDeliverable(x) THEN {x} ELSE {})
    BY <1>1, <1>5, <2>1, DeliverNext
  <2> HIDE DEF x
  <2> QED BY <1>1, <1>2, <1>9, <2>2
<1>13. TcpDown'
  <2>1. Conveys(down', F, c, n + 1, Len(sent')) /\ (~cut' => Whole(down', c, n + 1, Len(sent')))
    BY <1>1, <1>3, <1>4, <1>11
  <2>2. \A i \in 1 .. Len(sent') : Framed(F[i], sent'[i])
    BY <1>1, <1>2
  <2>3. got' = DeliverableOf(SubSeq(sent', 1, n + 1))
    BY <1>1, <1>12
  <2> QED BY <2>1, <2>2, <2>3 DEF TcpDown
<1>14. Stopped'
  <2> SUFFICES ASSUME ~reading' PROVE \E i \in 1 .. Len(sent') : sent'[i].kind \in {"close", "long"}
    BY DEF Stopped
  <2>1. x.kind = "close"
    <3> HIDE DEF x
    <3> QED BY <1>1, <1>9
  <2>2. n + 1 \in 1 .. Len(sent') /\ sent'[n + 1].kind \in {"close", "long"}
    BY <1>1, <1>3, <1>7, <2>1
  <2> QED BY <2>2
<1>15. Histories' /\ Answered' /\ TcpUp'
  BY <1>1, PartsSame
<1>16. kind' = "tcp"
  BY <1>1
<1> QED BY <1>13, <1>14, <1>15, <1>16 DEF IInv

\* It gives up at a frame that was announced as too long, or where the stream ends.
LEMMA ReadFailsStep == IInv /\ ReadFails => IInv'
<1> SUFFICES ASSUME IInv, ReadFails PROVE IInv'
  OBVIOUS
<1>1. /\ Histories /\ Answered /\ sent \in Seq(Shown)
      /\ kind = "tcp" => TcpDown /\ TcpUp
      /\ kind = "websocket" => WsDown /\ WsUp
      /\ (kind = "tcp" /\ Oversize(down)) \/ cut
      /\ UNCHANGED <<kind, up, down, cut, written, received, sent, got>>
  BY DEF IInv, ReadFails, Histories
<1>2. ASSUME kind = "tcp", Oversize(down) PROVE \E i \in 1 .. Len(sent) : sent[i].kind = "long"
  <2>1. PICK n, F, c :
            /\ Conveys(down, F, c, n, Len(sent)) /\ (~cut => Whole(down, c, n, Len(sent)))
            /\ \A i \in 1 .. Len(sent) : Framed(F[i], sent[i])
            /\ got = DeliverableOf(SubSeq(sent, 1, n))
    BY <1>1, <1>2 DEF TcpDown
  <2>2. PICK m \in Nat : m = Len(sent)
    BY <1>1
  <2>3. Conveys(down, F, c, n, m)
    BY <2>1, <2>2
  <2>4. down \in Seq(Nat) /\ n \in Nat /\ n <= m /\ (n = m => down = <<>>)
    BY <2>3, ConveysEnd
  <2>5. n < m
    <3>1. down # <<>>
      BY <1>2, <2>4, EmptyStream
    <3> QED BY <2>4, <3>1
  <2>6. n + 1 \in 1 .. m /\ Agree(down, F[n + 1])
    BY <2>3, <2>5, ConveysHead
  <2>7. Framed(F[n + 1], sent[n + 1])
    BY <2>1, <2>2, <2>6
  <2>8. sent[n + 1].kind = "long"
    BY <1>2, <2>4, <2>6, <2>7 DEF Framed
  <2> QED BY <2>2, <2>6, <2>8
<1>3. Stopped'
  BY <1>1, <1>2 DEF Stopped
<1>4. Histories' /\ Answered' /\ (kind = "tcp" => TcpDown' /\ TcpUp') /\ (kind = "websocket" => WsDown' /\ WsUp')
  BY <1>1, PartsSame
<1>5. kind' = kind
  BY <1>1
<1> QED BY <1>3, <1>4, <1>5 DEF IInv

\* wsConn.readFrame takes a message for what it is.
LEMMA WsReadFrameStep == IInv /\ WsReadFrame => IInv'
<1> SUFFICES ASSUME IInv, WsReadFrame PROVE IInv'
  OBVIOUS
<1>1. /\ Histories /\ Answered /\ Stopped /\ kind = "websocket" /\ WsDown /\ WsUp /\ sent \in Seq(Shown)
      /\ down # <<>>
      /\ got' = got \o
             (IF Len(Head(down)) > 0 /\ Head(down)[1] = RawPrefix
              THEN IF Len(Head(down)) < 7 THEN <<>> ELSE <<Chunk(Head(down), 7)>>
              ELSE SetToSeq({[kind |-> "envelope", fields |-> f] : f \in UnmarshalEnvelope(Head(down), FALSE)}))
      /\ down' = Tail(down)
      /\ UNCHANGED <<kind, up, cut, reading, written, received, sent>>
  BY DEF IInv, WsReadFrame, Histories
<1>2. PICK n \in 0 .. Len(sent) :
          /\ down \in Seq(Seq(Nat)) /\ Len(down) <= Len(sent) - n /\ (~cut => Len(down) = Len(sent) - n)
          /\ \A j \in 1 .. Len(down) : Delivers(down[j], sent[n + j])
          /\ got = DeliverableOf(SubSeq(sent, 1, n))
  BY <1>1 DEF WsDown
<1>3. PICK m \in Nat : m = Len(sent)
  BY <1>1
<1>4. PICK k \in Nat : k = Len(down)
  BY <1>2
<1>5. k > 0
  BY <1>1, <1>2, <1>4
<1>6. n \in Nat /\ k <= m - n /\ (~cut => k = m - n) /\ n + 1 \in 0 .. m /\ n + 1 <= m
  BY <1>2, <1>3, <1>4, <1>5
<1>7. Head(down) = down[1] /\ 1 \in 1 .. Len(down)
  BY <1>1, <1>2, <1>4, <1>5
<1>8. Delivers(Head(down), sent[n + 1])
  BY <1>2, <1>7
<1>9. got' = got \o <<sent[n + 1]>> /\ IsDeliverable(sent[n + 1])
  BY <1>1, <1>8 DEF Delivers
<1>10. got' = DeliverableOf(SubSeq(sent, 1, n + 1))
  <2>1. n + 1 <= Len(sent)
    BY <1>3, <1>6
  <2>2. DeliverableOf(SubSeq(sent, 1, n + 1)) =
            DeliverableOf(SubSeq(sent, 1, n)) \o
                SetToSeq(IF IsDeliverable(sent[n + 1]) THEN {sent[n + 1]} ELSE {})
    BY <1>1, <1>6, <2>1, DeliverNext
  <2>3. SetToSeq({sent[n + 1]}) = <<sent[n + 1]>>
    BY FewToSeq
  <2> QED BY <1>2, <1>9, <2>2, <2>3
<1>11. /\ down' \in Seq(Seq(Nat)) /\ Len(down') = k - 1
       /\ \A j \in 1 .. k - 1 : down'[j] = down[j + 1]
  BY <1>1, <1>2, <1>4, HeadTailProperties
<1>12. WsDown'
  <2>1. n + 1 \in 0 .. Len(sent') /\ Len(down') <= Len(sent') - (n + 1) /\ (~cut' => Len(down') = Len(sent') - (n + 1))
    <3>1. Len(sent') = m /\ Len(down') = k - 1 /\ cut' = cut
      BY <1>1, <1>3, <1>11
    <3>2. n + 1 \in 0 .. m /\ k - 1 <= m - (n + 1) /\ (~cut => k - 1 = m - (n + 1))
      BY <1>6
    <3> QED BY <3>1, <3>2
  <2>2. ASSUME NEW j \in 1 .. Len(down') PROVE Delivers(down'[j], sent'[(n + 1) + j])
    <3>1. j \in 1 .. k - 1 /\ j + 1 \in 1 .. k /\ n + (j + 1) = (n + 1) + j
      BY <1>6, <1>11
    <3>2. Delivers(down[j + 1], sent[n + (j + 1)])
      BY <1>2, <1>4, <3>1
    <3> QED BY <1>1, <1>11, <3>1, <3>2
  <2>3. got' = DeliverableOf(SubSeq(sent', 1, n + 1))
    BY <1>1, <1>10
  <2> QED BY <1>11, <2>1, <2>2, <2>3 DEF WsDown
<1>13. Histories' /\ Answered' /\ Stopped' /\ WsUp'
  BY <1>1, PartsSame
<1>14. kind' = "websocket"
  BY <1>1
<1> QED BY <1>12, <1>13, <1>14 DEF IInv

\* An entry is added to what was sent.
LEMMA SentMore ==
    ASSUME sent \in Seq(Shown), NEW x \in Shown, sent' = Append(sent, x)
    PROVE  /\ sent' \in Seq(Shown) /\ Len(sent') = Len(sent) + 1
           /\ \A i \in 1 .. Len(sent) : sent'[i] = sent[i]
           /\ sent'[Len(sent) + 1] = x
           /\ \A n \in 0 .. Len(sent) : SubSeq(sent', 1, n) = SubSeq(sent, 1, n)
           /\ Stopped /\ UNCHANGED <<reading, cut>> => Stopped'
<1>1. /\ sent' \in Seq(Shown) /\ Len(sent') = Len(sent) + 1
      /\ \A i \in 1 .. Len(sent) : sent'[i] = sent[i]
      /\ sent'[Len(sent) + 1] = x
  BY AppendProperties
<1>2. \A n \in 0 .. Len(sent) : SubSeq(sent', 1, n) = SubSeq(sent, 1, n)
  BY EarlierSame
<1>3. ASSUME Stopped, UNCHANGED <<reading, cut>> PROVE Stopped'
  <2> SUFFICES ASSUME ~reading', ~cut' PROVE \E i \in 1 .. Len(sent') : sent'[i].kind \in {"close", "long"}
    BY DEF Stopped
  <2>1. PICK i \in 1 .. Len(sent) : sent[i].kind \in {"close", "long"}
    BY <1>3 DEF Stopped
  <2>2. i \in 1 .. Len(sent') /\ sent'[i] = sent[i]
    <3>1. Len(sent) \in Nat
      OBVIOUS
    <3> QED BY <1>1, <3>1
  <2> QED BY <2>1, <2>2
<1> QED BY <1>1, <1>2, <1>3

\* The gateway puts a frame behind what is on its way to readLoop.
LEMMA DownMore ==
    ASSUME sent \in Seq(Shown), TcpDown, ~cut, NEW x \in Shown, NEW e, Framed(e, x),
           down' = down \o e, sent' = Append(sent, x), got' = got
    PROVE  TcpDown'
<1>1. PICK n, F, c :
          /\ Conveys(down, F, c, n, Len(sent)) /\ Whole(down, c, n, Len(sent))
          /\ \A i \in 1 .. Len(sent) : Framed(F[i], sent[i])
          /\ got = DeliverableOf(SubSeq(sent, 1, n))
  BY DEF TcpDown
<1>2. PICK m \in Nat : m = Len(sent)
  OBVIOUS
<1>3. Conveys(down, F, c, n, m) /\ Whole(down, c, n, m)
  BY <1>1, <1>2
<1>4. n \in Nat /\ n <= m
  BY <1>3, ConveysEnd
<1>5. e \in Seq(Nat) /\ Len(e) > 0
  BY DEF Framed
<1>6. PICK G, d : /\ Conveys(down \o e, G, d, n, m + 1) /\ Whole(down \o e, d, n, m + 1)
                  /\ G[m + 1] = e /\ \A i \in 1 .. m : G[i] = F[i]
  <2>1. PICK s : s = down
    OBVIOUS
  <2>2. Conveys(s, F, c, n, m) /\ Whole(s, c, n, m)
    BY <1>3, <2>1
  <2>3. \E G, d : /\ Conveys(s \o e, G, d, n, m + 1) /\ Whole(s \o e, d, n, m + 1)
                  /\ G[m + 1] = e /\ \A i \in 1 .. m : G[i] = F[i]
    BY <1>5, <2>2, ConveysMore
  <2> QED BY <2>1, <2>3
<1>7. /\ Len(sent') = m + 1 /\ sent'[m + 1] = x
      /\ \A i \in 1 .. m : sent'[i] = sent[i]
      /\ SubSeq(sent', 1, n) = SubSeq(sent, 1, n)
  <2>1. n \in 0 .. Len(sent)
    BY <1>2, <1>4
  <2> QED BY <1>2, <2>1, SentMore
<1>8. Conveys(down', G, d, n, Len(sent')) /\ Whole(down', d, n, Len(sent'))
  BY <1>6, <1>7
<1>9. ASSUME NEW i \in 1 .. Len(sent') PROVE Framed(G[i], sent'[i])
  <2>1. CASE i = m + 1
    BY <1>6, <1>7, <2>1
  <2>2. CASE i # m + 1
    <3>1. i \in 1 .. m
      BY <1>7, <2>2
    <3> QED BY <1>1, <1>2, <1>6, <1>7, <3>1
  <2> QED BY <2>1, <2>2
<1>10. got' = DeliverableOf(SubSeq(sent', 1, n))
  BY <1>1, <1>7
<1> QED BY <1>8, <1>9, <1>10 DEF TcpDown

\* So does a message.
LEMMA MessageMore ==
    ASSUME sent \in Seq(Shown), WsDown, ~cut, NEW x \in Shown, NEW e \in Seq(Nat), Delivers(e, x),
           down' = Append(down, e), sent' = Append(sent, x), got' = got
    PROVE  WsDown'
<1>1. PICK n \in 0 .. Len(sent) :
          /\ down \in Seq(Seq(Nat)) /\ Len(down) = Len(sent) - n
          /\ \A j \in 1 .. Len(down) : Delivers(down[j], sent[n + j])
          /\ got = DeliverableOf(SubSeq(sent, 1, n))
  BY DEF WsDown
<1>2. PICK m \in Nat : m = Len(sent)
  OBVIOUS
<1>3. n \in Nat /\ n <= m /\ Len(down) = m - n
  BY <1>1, <1>2
<1>4. /\ Len(sent') = m + 1 /\ sent'[m + 1] = x
      /\ \A i \in 1 .. m : sent'[i] = sent[i]
      /\ SubSeq(sent', 1, n) = SubSeq(sent, 1, n)
  BY <1>2, SentMore
<1>5. /\ down' \in Seq(Seq(Nat)) /\ Len(down') = (m - n) + 1
      /\ \A j \in 1 .. m - n : down'[j] = down[j]
      /\ down'[(m - n) + 1] = e
  BY <1>1, <1>3, AppendProperties
<1>6. n \in 0 .. Len(sent') /\ Len(down') = Len(sent') - n /\ Len(down') <= Len(sent') - n
  <2>1. n \in 0 .. m + 1 /\ (m - n) + 1 = (m + 1) - n
    BY <1>3
  <2> QED BY <1>3, <1>4, <1>5, <2>1
<1>7. ASSUME NEW j \in 1 .. Len(down') PROVE Delivers(down'[j], sent'[n + j])
  <2>1. CASE j = (m - n) + 1
    <3>1. n + j = m + 1
      BY <1>3, <2>1
    <3> QED BY <1>4, <1>5, <2>1, <3>1
  <2>2. CASE j # (m - n) + 1
    <3>1. j \in 1 .. m - n /\ n + j \in 1 .. m
      <4>1. PICK k \in Nat : k = m - n
        BY <1>3
      <4>2. Len(down') = k + 1 /\ j # k + 1
        BY <1>5, <2>2, <4>1
      <4>3. j \in 1 .. k
        BY <4>1, <4>2
      <4> QED BY <1>3, <4>1, <4>3
    <3> QED BY <1>1, <1>3, <1>4, <1>5, <3>1
  <2> QED BY <2>1, <2>2
<1>8. got' = DeliverableOf(SubSeq(sent', 1, n))
  BY <1>1, <1>4
<1> QED BY <1>5, <1>6, <1>7, <1>8 DEF WsDown

\* A step of the gateway that sends x.
LEMMA SendStep ==
    ASSUME IInv, ~cut, NEW x \in Shown, sent' = Append(sent, x),
           kind = "tcp" => \E e : Framed(e, x) /\ down' = down \o e,
           kind = "websocket" => \E e \in Seq(Nat) : Delivers(e, x) /\ down' = Append(down, e),
           UNCHANGED <<kind, up, cut, reading, written, received, got>>
    PROVE  IInv'
<1>1. /\ Histories /\ Answered /\ Stopped /\ sent \in Seq(Shown)
      /\ kind = "tcp" => TcpDown /\ TcpUp
      /\ kind = "websocket" => WsDown /\ WsUp
  BY DEF IInv, Histories
<1>2. sent' \in Seq(Shown) /\ Stopped'
  BY <1>1, SentMore
<1>3. Histories'
  BY <1>1, <1>2 DEF Histories
<1>4. Answered' /\ (kind = "tcp" => TcpUp') /\ (kind = "websocket" => WsUp')
  BY <1>1, PartsSame
<1>5. ASSUME kind = "tcp" PROVE TcpDown'
  <2>1. PICK e : Framed(e, x) /\ down' = down \o e
    BY <1>5
  <2> QED BY <1>1, <1>5, <2>1, DownMore
<1>6. ASSUME kind = "websocket" PROVE WsDown'
  <2>1. PICK e \in Seq(Nat) : Delivers(e, x) /\ down' = Append(down, e)
    BY <1>6
  <2> QED BY <1>1, <1>6, <2>1, MessageMore
<1>7. kind' = kind
  OBVIOUS
<1> QED BY <1>2, <1>3, <1>4, <1>5, <1>6, <1>7 DEF IInv

\* An envelope is not taken for a chunk: no field has that tag.
LEMMA NoChunk ==
    ASSUME NEW d \in Seq(Nat), Len(d) > 0, Unmarshal(d) # {}
    PROVE  d[1] # RawPrefix
<1> SUFFICES ASSUME d[1] = RawPrefix PROVE FALSE
  OBVIOUS
<1>1. PICK f : Unmarshal(d) = f[1] /\ \A i \in 1 .. Len(d) + 1 : f[i] = From(f, d, i)
  BY UnmarshalStep
<1>2. d[1] # 1 /\ d[1] # 2 /\ d[1] # 3
  BY FirstBytes
<1>3. FieldSize(d, 1) = Len(d) + 1
  BY <1>2 DEF FieldSize
<1>4. PICK n \in Nat : n = Len(d) /\ n > 0
  OBVIOUS
<1>5. FieldEnd(d, 1) > Len(d) + 1 /\ ~(1 > Len(d)) /\ 1 \in 1 .. Len(d) + 1
  <2>1. FieldEnd(d, 1) = 1 + (n + 1)
    BY <1>3, <1>4 DEF FieldEnd
  <2> QED BY <1>4, <2>1
<1>6. From(f, d, 1) = {}
  BY <1>5 DEF From
<1> QED BY <1>1, <1>5, <1>6

\* A chunk on the WebSocket.
LEMMA ChunkDelivers ==
    ASSUME NEW x \in Chunks
    PROVE  ChunkHeader(x) \o x.body \in Seq(Nat) /\ Delivers(ChunkHeader(x) \o x.body, x)
<1> DEFINE h == ChunkHeader(x)
<1> DEFINE t == x.body
<1> DEFINE e == h \o t
<1>1. /\ h \in Seq(Nat) /\ Len(h) = 7 /\ h[1] = RawPrefix /\ t \in Seq(Nat) /\ Len(t) \in Nat
      /\ x = [kind |-> "chunk", cid |-> x.cid, code |-> x.code, fin |-> x.fin, body |-> x.body]
  BY ChunkFields
<1> HIDE DEF h
<1>2. e \in Seq(Nat) /\ Len(e) = 7 + Len(t) /\ At(e, 0, h) /\ At(e, 7, t)
  <2> HIDE DEF t
  <2>1. /\ h \o t \in Seq(Nat) /\ Len(h \o t) = Len(h) + Len(t)
        /\ At(h \o t, 0, h) /\ At(h \o t, Len(h), t)
    BY <1>1, AtConcat
  <2> QED BY <1>1, <2>1
<1> HIDE DEF e
<1>3. e[1] = RawPrefix
  <2>1. e[0 + 1] = h[1]
    <3>1. 1 \in 1 .. Len(h)
      BY <1>1
    <3> QED BY <1>2, <3>1 DEF At
  <2> QED BY <1>1, <2>1
<1>4. Chunk(e, 7) = x
  <2>1. At(e, 0, ChunkHeader(x)) /\ At(e, 7, x.body) /\ Len(e) = 7 + Len(x.body)
    BY <1>2 DEF h
  <2> QED BY <1>2, <2>1, ChunkRead
<1>5. Len(e) > 0 /\ ~(Len(e) < 7)
  <2> HIDE DEF t
  <2> QED BY <1>1, <1>2
<1>6. IsDeliverable(x)
  BY <1>1 DEF IsDeliverable
<1>7. Delivers(e, x)
  BY <1>3, <1>4, <1>5, <1>6 DEF Delivers
<1> QED BY <1>2, <1>7 DEF e, h

\* An envelope on the WebSocket.
LEMMA ReplyDelivers ==
    ASSUME NEW d \in Envelopes, NEW f \in Unmarshal(d)
    PROVE  d \in Seq(Nat) /\ Delivers(d, [kind |-> "envelope", fields |-> f])
<1> DEFINE x == [kind |-> "envelope", fields |-> f]
<1>1. d \in Seq(Nat) /\ Len(d) > 0 /\ Unmarshal(d) # {}
  BY EnvelopeBytes
<1>2. UnmarshalEnvelope(d, FALSE) = {f}
  BY <1>1, UnmarshalUnique, UnmarshalPlain
<1>3. d[1] # RawPrefix
  BY <1>1, NoChunk
<1>4. {[kind |-> "envelope", fields |-> g] : g \in UnmarshalEnvelope(d, FALSE)} = {x}
  BY <1>2
<1>5. IsDeliverable(x)
  BY DEF IsDeliverable
<1> HIDE DEF x
<1>6. SetToSeq({x}) = <<x>>
  BY FewToSeq
<1>7. Delivers(d, x)
  BY <1>3, <1>4, <1>5, <1>6 DEF Delivers
<1> QED BY <1>1, <1>7 DEF x

\* The gateway sends a chunk.
LEMMA GatewayChunkStep ==
    ASSUME IInv, NEW x \in Chunks, GatewayChunk(x)
    PROVE  IInv'
<1>1. /\ ~cut /\ sent' = Append(sent, x)
      /\ down' = IF kind = "tcp" THEN down \o (ChunkHeader(x) \o Uint32(Len(x.body)) \o x.body)
                 ELSE Append(down, ChunkHeader(x) \o x.body)
      /\ UNCHANGED <<kind, up, cut, reading, written, received, got>>
  BY DEF GatewayChunk, May
<1>2. x \in Shown
  BY DEF Shown
<1>3. Framed(ChunkHeader(x) \o Uint32(Len(x.body)) \o x.body, x)
  BY ChunkFramed
<1>4. ChunkHeader(x) \o x.body \in Seq(Nat) /\ Delivers(ChunkHeader(x) \o x.body, x)
  BY ChunkDelivers
<1> DEFINE e == ChunkHeader(x) \o Uint32(Len(x.body)) \o x.body
<1> DEFINE m == ChunkHeader(x) \o x.body
<1> HIDE DEF e, m
<1>5. Framed(e, x) /\ m \in Seq(Nat) /\ Delivers(m, x) /\ down' = IF kind = "tcp" THEN down \o e ELSE Append(down, m)
  BY <1>1, <1>3, <1>4 DEF e, m
<1>6. kind = "tcp" => \E b : Framed(b, x) /\ down' = down \o b
  BY <1>5
<1>7. kind = "websocket" => \E b \in Seq(Nat) : Delivers(b, x) /\ down' = Append(down, b)
  BY <1>5
<1> QED BY <1>1, <1>2, <1>6, <1>7, SendStep

\* The gateway answers with an envelope.
LEMMA GatewayReplyStep ==
    ASSUME IInv, NEW data \in Envelopes, GatewayReply(data)
    PROVE  IInv'
<1>1. /\ ~cut /\ Sent("envelope", data)
      /\ down' = IF kind = "tcp" THEN down \o EncodeAbridged(data) ELSE Append(down, data)
      /\ UNCHANGED <<kind, up, cut, reading, written, received, got>>
  BY DEF GatewayReply, May
<1>2. PICK f \in Unmarshal(data) :
          sent' = Append(sent, [kind |-> IF kind = "tcp" /\ Len(data) > MaxFrame THEN "long" ELSE "envelope",
                                fields |-> f])
  BY <1>1 DEF Sent
<1> DEFINE x == [kind |-> IF kind = "tcp" /\ Len(data) > MaxFrame THEN "long" ELSE "envelope", fields |-> f]
<1>3. x \in Shown
  <2>1. f \in Fields
    BY DEF Fields
  <2> QED BY <2>1 DEF Shown
<1>4. sent' = Append(sent, x)
  BY <1>2
<1>5. ASSUME kind = "tcp" PROVE Framed(EncodeAbridged(data), x)
  <2>1. x = [kind |-> IF Len(data) > MaxFrame THEN "long" ELSE "envelope", fields |-> f]
    BY <1>5
  <2> HIDE DEF x
  <2> QED BY <2>1, AbridgedFramed
<1>6. ASSUME kind = "websocket" PROVE data \in Seq(Nat) /\ Delivers(data, x)
  <2>1. x = [kind |-> "envelope", fields |-> f]
    BY <1>6
  <2> HIDE DEF x
  <2> QED BY <2>1, ReplyDelivers
<1> HIDE DEF x
<1>7. kind = "tcp" => \E e : Framed(e, x) /\ down' = down \o e
  BY <1>1, <1>5
<1>8. kind = "websocket" => \E e \in Seq(Nat) : Delivers(e, x) /\ down' = Append(down, e)
  BY <1>1, <1>6
<1> QED BY <1>1, <1>3, <1>4, <1>7, <1>8, SendStep

\* The gateway pushes an envelope, or sends a control frame.
LEMMA GatewayPushStep ==
    ASSUME IInv, NEW op \in Ops, NEW data \in Envelopes, NEW masked \in BOOLEAN, GatewayPush(op, data, masked)
    PROVE  IInv'
<1> DEFINE what == CASE op \in {OpText, OpBinary} -> "envelope" [] op = OpClose -> "close" [] OTHER -> "ping"
<1>1. /\ ~cut /\ kind = "tcp" /\ Sent(what, data)
      /\ down' = down \o EncodeWs(op, data, masked)
      /\ UNCHANGED <<kind, up, cut, reading, written, received, got>>
  BY DEF GatewayPush, May
<1>2. what \in {"envelope", "close", "ping"}
  <2>1. CASE op \in {OpText, OpBinary}
    BY <2>1, OpsAssumption
  <2>2. CASE op = OpClose
    BY <2>2, OpsAssumption
  <2>3. CASE op \notin {OpText, OpBinary} /\ op # OpClose
    BY <2>3
  <2> QED BY <2>1, <2>2, <2>3
<1>3. PICK w : w = what
  OBVIOUS
<1>4. PICK f \in Unmarshal(data) :
          sent' = Append(sent, [kind |-> IF kind = "tcp" /\ Len(data) > MaxFrame THEN "long" ELSE w, fields |-> f])
  <2> HIDE DEF what
  <2> QED BY <1>1, <1>3 DEF Sent
<1> DEFINE x == [kind |-> IF Len(data) > MaxFrame THEN "long" ELSE w, fields |-> f]
<1>5. x \in Shown
  <2>1. f \in Fields
    BY DEF Fields
  <2>2. w \in {"envelope", "close", "ping"}
    BY <1>2, <1>3
  <2> QED BY <2>1, <2>2 DEF Shown
<1>6. sent' = Append(sent, x)
  BY <1>1, <1>4
<1>7. Framed(EncodeWs(op, data, masked), x)
  <2> HIDE DEF x
  <2>1. x = [kind |-> IF Len(data) > MaxFrame THEN "long" ELSE w, fields |-> f]
    BY DEF x
  <2> QED BY <1>3, <2>1, WsFramed
<1> HIDE DEF x
<1>8. kind = "tcp" => \E e : Framed(e, x) /\ down' = down \o e
  BY <1>1, <1>7
<1>9. kind = "websocket" => \E e \in Seq(Nat) : Delivers(e, x) /\ down' = Append(down, e)
  BY <1>1
<1> QED BY <1>1, <1>5, <1>6, <1>8, <1>9, SendStep

\* Cutting a cid to 16 bits leaves an entry an entry of its kind.
LEMMA CroppedTold ==
    ASSUME NEW y \in Told
    PROVE  /\ Cropped(y) \in Told /\ Cropped(y).kind = y.kind
           /\ y.kind = "ping" => y.cid \in Nat /\ Cropped(y) = [kind |-> "ping", cid |-> y.cid % (Base * Base)]
           /\ y.kind # "ping" => Cropped(y) = y
<1>1. CASE y \in [kind : {"ping"}, cid : Nat]
  <2>1. y.kind = "ping" /\ y.cid \in Nat /\ y = [kind |-> "ping", cid |-> y.cid]
    BY <1>1
  <2> DEFINE r == y.cid % (Base * Base)
  <2>2. Cropped(y) = [kind |-> "ping", cid |-> r]
    BY <2>1 DEF Cropped
  <2>3. r \in Nat
    <3>1. PICK b \in Nat : b = Base * Base /\ b > 0
      BY FirstBytes
    <3>2. y.cid % b \in 0 .. b - 1
      BY <2>1, <3>1, Division
    <3> QED BY <3>1, <3>2
  <2> HIDE DEF r
  <2>4. [kind |-> "ping", cid |-> r] \in Told
    BY <2>3 DEF Told
  <2>5. Cropped(y).kind = y.kind
    BY <2>1, <2>2
  <2>6. y.kind = "ping" => y.cid \in Nat /\ Cropped(y) = [kind |-> "ping", cid |-> y.cid % (Base * Base)]
    BY <2>1, <2>2 DEF r
  <2> QED BY <2>1, <2>2, <2>4, <2>5, <2>6
<1>2. CASE y \notin [kind : {"ping"}, cid : Nat]
  <2>1. y.kind # "ping"
    BY <1>2 DEF Told
  <2> QED BY <2>1 DEF Cropped
<1> QED BY <1>1, <1>2

\* An entry is added to what was written.
LEMMA WrittenMore ==
    ASSUME Histories, Answered, NEW y \in Told, y.kind # "token", written' = Append(written, y),
           UNCHANGED <<kind, sent, received>>
    PROVE  /\ Histories' /\ Answered'
           /\ Len(written') = Len(written) + 1
           /\ \A i \in 1 .. Len(written) : written'[i] = written[i]
           /\ written'[Len(written) + 1] = y
<1>1. written \in Seq(Told)
  BY DEF Histories
<1>2. PICK m \in Nat : m = Len(written)
  BY <1>1
<1>3. /\ written' \in Seq(Told) /\ Len(written') = m + 1
      /\ \A i \in 1 .. m : written'[i] = written[i]
      /\ written'[m + 1] = y
  BY <1>1, <1>2, AppendProperties
<1>4. /\ Len(received) <= m /\ Len(received) \in Nat
      /\ \A i \in 1 .. Len(received) : received[i] = Cropped(written[i])
      /\ m > 0
      /\ \A i \in 1 .. m : written[i].kind = "token" <=> i = 1
  BY <1>2 DEF Answered, Histories
<1>5. Histories'
  BY <1>3 DEF Histories
<1>6. ASSUME NEW i \in 1 .. Len(received') PROVE received'[i] = Cropped(written'[i])
  <2>1. i \in 1 .. Len(received) /\ i \in 1 .. m
    BY <1>4
  <2> QED BY <1>3, <1>4, <2>1
<1>7. ASSUME NEW i \in 1 .. m + 1 PROVE written'[i].kind = "token" <=> i = 1
  <2>1. CASE i = m + 1
    BY <1>3, <1>4, <2>1
  <2>2. CASE i # m + 1
    <3>1. i \in 1 .. m
      BY <2>2
    <3> QED BY <1>3, <1>4, <3>1
  <2> QED BY <2>1, <2>2
<1>8. Len(received') <= m + 1 /\ m + 1 > 0
  BY <1>4
<1>9. Answered'
  BY <1>3, <1>6, <1>7, <1>8 DEF Answered
<1> QED BY <1>2, <1>3, <1>5, <1>9

\* A frame is put behind what is on its way to the gateway.
LEMMA UpMore ==
    ASSUME Histories, Answered, TcpUp, NEW y \in Told, y.kind # "token", NEW e, Uplink(e, Cropped(y)),
           up' = up \o e, written' = Append(written, y), UNCHANGED <<kind, sent, received>>
    PROVE  TcpUp'
<1>1. PICK F, c, s :
          /\ up = IF received = <<>> THEN <<HandshakePrefix>> \o s ELSE s
          /\ Conveys(s, F, c, Len(received), Len(written)) /\ Whole(s, c, Len(received), Len(written))
          /\ \A i \in 1 .. Len(written) : Uplink(F[i], Cropped(written[i]))
  BY DEF TcpUp
<1>2. PICK n, m : n = Len(received) /\ m = Len(written)
  OBVIOUS
<1>3. Conveys(s, F, c, n, m) /\ Whole(s, c, n, m)
  BY <1>1, <1>2
<1>4. s \in Seq(Nat) /\ n \in Nat /\ m \in Nat
  BY <1>3, ConveysEnd
<1>5. e \in Seq(Nat) /\ Len(e) > 0
  BY DEF Uplink
<1>6. PICK G, d : /\ Conveys(s \o e, G, d, n, m + 1) /\ Whole(s \o e, d, n, m + 1)
                  /\ G[m + 1] = e /\ \A i \in 1 .. m : G[i] = F[i]
  BY <1>3, <1>5, ConveysMore
<1>7. Len(written') = m + 1 /\ written'[m + 1] = y /\ \A i \in 1 .. m : written'[i] = written[i]
  BY <1>2, WrittenMore
<1>8. up' = IF received' = <<>> THEN <<HandshakePrefix>> \o (s \o e) ELSE s \o e
  <2>1. (<<HandshakePrefix>> \o s) \o e = <<HandshakePrefix>> \o (s \o e)
    <3>1. PICK X : X = Nat \cup {HandshakePrefix}
      OBVIOUS
    <3>2. Nat \subseteq X /\ HandshakePrefix \in X
      BY <3>1
    <3>3. s \in Seq(X) /\ e \in Seq(X)
      BY <1>4, <1>5, <3>2, SeqMonotonic
    <3>4. <<HandshakePrefix>> \in Seq(X)
      BY <3>2
    <3>5. PICK p : p = <<HandshakePrefix>>
      OBVIOUS
    <3>6. (p \o s) \o e = p \o (s \o e)
      BY <3>3, <3>4, <3>5
    <3> QED BY <3>5, <3>6
  <2>2. CASE received = <<>>
    BY <1>1, <2>1, <2>2
  <2>3. CASE received # <<>>
    BY <1>1, <2>3
  <2> QED BY <2>2, <2>3
<1>9. Conveys(s \o e, G, d, Len(received'), Len(written')) /\ Whole(s \o e, d, Len(received'), Len(written'))
  BY <1>2, <1>6, <1>7
<1>10. ASSUME NEW i \in 1 .. Len(written') PROVE Uplink(G[i], Cropped(written'[i]))
  <2>1. CASE i = m + 1
    BY <1>6, <1>7, <2>1
  <2>2. CASE i # m + 1
    <3>1. i \in 1 .. m
      BY <1>4, <1>7, <2>2
    <3> QED BY <1>1, <1>2, <1>6, <1>7, <3>1
  <2> QED BY <2>1, <2>2
<1> QED BY <1>8, <1>9, <1>10 DEF TcpUp

\* So is a message.
LEMMA UpMessageMore ==
    ASSUME Histories, Answered, WsUp, NEW y \in Told, y.kind # "token", NEW e \in Seq(Nat),
           NEW f, Unmarshal(e) = {f}, y = [kind |-> "envelope", fields |-> f],
           up' = Append(up, e), written' = Append(written, y), UNCHANGED <<kind, sent, received>>
    PROVE  WsUp'
<1>1. /\ up \in Seq(Seq(Nat)) /\ Len(received) + Len(up) = Len(written) /\ Len(received) > 0
      /\ \A j \in 1 .. Len(up) : \E g : /\ Unmarshal(up[j]) = {g}
                                        /\ written[Len(received) + j] = [kind |-> "envelope", fields |-> g]
  BY DEF WsUp
<1>2. PICK n \in Nat, k \in Nat : n = Len(received) /\ k = Len(up)
  BY <1>1 DEF Histories
<1>3. n > 0 /\ Len(written) = n + k
  BY <1>1, <1>2
<1>4. /\ Len(written') = (n + k) + 1 /\ written'[(n + k) + 1] = y
      /\ \A i \in 1 .. n + k : written'[i] = written[i]
  BY <1>3, WrittenMore
<1>5. /\ up' \in Seq(Seq(Nat)) /\ Len(up') = k + 1 /\ up'[k + 1] = e
      /\ \A j \in 1 .. k : up'[j] = up[j]
  BY <1>1, <1>2, AppendProperties
<1>6. Len(received') + Len(up') = Len(written') /\ Len(received') > 0
  BY <1>2, <1>3, <1>4, <1>5
<1>7. ASSUME NEW j \in 1 .. k + 1
      PROVE  \E g : /\ Unmarshal(up'[j]) = {g}
                    /\ written'[n + j] = [kind |-> "envelope", fields |-> g]
  <2>1. CASE j = k + 1
    <3>1. n + j = (n + k) + 1
      BY <2>1
    <3> QED BY <1>4, <1>5, <2>1, <3>1
  <2>2. CASE j # k + 1
    <3>1. j \in 1 .. k /\ n + j \in 1 .. n + k
      BY <2>2
    <3>2. \E g : Unmarshal(up[j]) = {g} /\ written[n + j] = [kind |-> "envelope", fields |-> g]
      BY <1>1, <1>2, <3>1
    <3> QED BY <1>4, <1>5, <3>1, <3>2
  <2> QED BY <2>1, <2>2
<1>8. Len(received') = n
  BY <1>2
<1>9. \A j \in 1 .. Len(up') : \E g : /\ Unmarshal(up'[j]) = {g}
                                      /\ written'[Len(received') + j] = [kind |-> "envelope", fields |-> g]
  BY <1>5, <1>7, <1>8
<1>10. up' \in Seq(Seq(Nat))
  BY <1>5
<1> QED BY <1>6, <1>9, <1>10 DEF WsUp

\* writeEnvelope.
LEMMA WriteEnvelopeStep ==
    ASSUME IInv, NEW data \in Envelopes, WriteEnvelope(data)
    PROVE  IInv'
<1>1. /\ Histories /\ Answered /\ Stopped
      /\ kind = "tcp" => TcpDown /\ TcpUp
      /\ kind = "websocket" => WsDown /\ WsUp
  BY DEF IInv
<1>2. /\ up' = IF kind = "tcp" THEN up \o EncodeAbridged(Guarded(data)) ELSE Append(up, data)
      /\ UNCHANGED <<kind, down, cut, reading, received, sent, got>>
  BY DEF WriteEnvelope
<1>3. PICK f \in Unmarshal(data) : written' = Append(written, [kind |-> "envelope", fields |-> f])
  BY DEF WriteEnvelope
<1> DEFINE y == [kind |-> "envelope", fields |-> f]
<1>4. y \in Told /\ y.kind # "token" /\ Cropped(y) = y
  <2>1. f \in Fields
    BY DEF Fields
  <2> QED BY <2>1 DEF Told, Cropped
<1>5. data \in Seq(Nat) /\ Unmarshal(data) = {f}
  BY EnvelopeBytes, UnmarshalUnique
<1>6. Uplink(EncodeAbridged(Guarded(data)), y)
  BY EnvelopeUplink
<1>7. PICK z : z = y
  OBVIOUS
<1>8. z = [kind |-> "envelope", fields |-> f] /\ written' = Append(written, z)
  BY <1>3, <1>7
<1> HIDE DEF y
<1>9. Histories' /\ Answered'
  BY <1>1, <1>2, <1>4, <1>7, <1>8, WrittenMore
<1>10. ASSUME kind = "tcp" PROVE TcpUp'
  <2>1. PICK e : e = EncodeAbridged(Guarded(data))
    OBVIOUS
  <2>2. Uplink(e, Cropped(z)) /\ up' = up \o e
    BY <1>2, <1>4, <1>6, <1>7, <1>10, <2>1
  <2> QED BY <1>1, <1>2, <1>4, <1>7, <1>8, <1>10, <2>2, UpMore
<1>11. ASSUME kind = "websocket" PROVE WsUp'
  BY <1>1, <1>2, <1>4, <1>5, <1>7, <1>8, <1>11, UpMessageMore
<1>12. Stopped' /\ (kind = "tcp" => TcpDown') /\ (kind = "websocket" => WsDown')
  BY <1>1, <1>2, PartsSame
<1>13. kind' = kind
  BY <1>2
<1>14. kind = "tcp" => kind # "websocket"
  OBVIOUS
<1> QED BY <1>9, <1>10, <1>11, <1>12, <1>13 DEF IInv

\* writePing.
LEMMA WritePingStep ==
    ASSUME IInv, NEW cid \in Cids, WritePing(cid)
    PROVE  IInv'
<1>1. /\ Histories /\ Answered /\ Stopped /\ kind = "tcp" /\ TcpDown /\ TcpUp
  BY DEF IInv, WritePing
<1>2. /\ up' = up \o (<<PongPrefix>> \o Uint16(cid))
      /\ UNCHANGED <<kind, down, cut, reading, received, sent, got>>
  BY DEF WritePing
<1>3. PICK y : y = [kind |-> "ping", cid |-> cid]
  OBVIOUS
<1>4. written' = Append(written, y)
  BY <1>3 DEF WritePing
<1>5. cid \in Nat
  BY ChunkAssumption
<1>6. y \in Told /\ y.kind # "token" /\ y.kind = "ping" /\ y.cid = cid
  BY <1>3, <1>5 DEF Told
<1>7. Cropped(y) = [kind |-> "ping", cid |-> cid % (Base * Base)]
  BY <1>6, CroppedTold
<1>8. Uplink(<<PongPrefix>> \o Uint16(cid), Cropped(y))
  BY <1>5, <1>7, PingUplink
<1>9. Histories' /\ Answered'
  BY <1>1, <1>2, <1>4, <1>6, WrittenMore
<1>10. PICK e : e = <<PongPrefix>> \o Uint16(cid)
  OBVIOUS
<1>11. TcpUp'
  <2>1. Uplink(e, Cropped(y)) /\ up' = up \o e
    BY <1>2, <1>8, <1>10
  <2> QED BY <1>1, <1>2, <1>4, <1>6, <2>1, UpMore
<1>12. Stopped' /\ TcpDown'
  BY <1>1, <1>2, PartsSame
<1>13. kind' = "tcp"
  BY <1>1, <1>2
<1> QED BY <1>9, <1>11, <1>12, <1>13 DEF IInv

\* The gateway has made of the next entry of written what it should.
LEMMA ReceivedMore ==
    ASSUME Histories, Answered, Len(received) < Len(written),
           received' = Append(received, Cropped(written[Len(received) + 1])), written' = written
    PROVE  received' \in Seq(Told) /\ Len(received') = Len(received) + 1 /\ Answered'
<1>1. received \in Seq(Told) /\ written \in Seq(Told)
  BY DEF Histories
<1>2. PICK n \in Nat, m \in Nat : n = Len(received) /\ m = Len(written)
  BY <1>1
<1>3. n < m /\ n + 1 \in 1 .. m /\ n + 1 <= m
  BY <1>2
<1>4. /\ \A i \in 1 .. n : received[i] = Cropped(written[i])
      /\ m > 0
      /\ \A i \in 1 .. m : written[i].kind = "token" <=> i = 1
  BY <1>2 DEF Answered
<1> DEFINE y == Cropped(written[n + 1])
<1>5. y \in Told
  <2>1. written[n + 1] \in Told
    BY <1>1, <1>2, <1>3, ElementOfSeq
  <2> QED BY <2>1, CroppedTold
<1>6. received' = Append(received, y)
  BY <1>2
<1> HIDE DEF y
<1>7. /\ received' \in Seq(Told) /\ Len(received') = n + 1
      /\ \A i \in 1 .. n : received'[i] = received[i]
      /\ received'[n + 1] = y
  BY <1>1, <1>2, <1>5, <1>6, AppendProperties
<1>8. ASSUME NEW i \in 1 .. n + 1 PROVE received'[i] = Cropped(written[i])
  <2>1. CASE i = n + 1
    BY <1>7, <2>1 DEF y
  <2>2. CASE i # n + 1
    <3>1. i \in 1 .. n
      BY <2>2
    <3> QED BY <1>4, <1>7, <3>1
  <2> QED BY <2>1, <2>2
<1>9. Len(written') = m /\ Len(received') = n + 1
  BY <1>2, <1>7
<1>10. Answered'
  BY <1>3, <1>4, <1>8, <1>9 DEF Answered
<1> QED BY <1>2, <1>7, <1>10

\* What the gateway makes of the frame e that is next for it on TCP.
LEMMA GatewayTakes ==
    ASSUME Histories, Answered, GatewayReads, NEW s \in Seq(Nat),
           s = (IF received = <<>> THEN Tail(up) ELSE up), Len(received) < Len(written),
           NEW e, Uplink(e, Cropped(written[Len(received) + 1])), Agree(s, e)
    PROVE  /\ Len(s) >= Len(e) /\ up' = SubSeq(s, Len(e) + 1, Len(s))
           /\ received' = Append(received, Cropped(written[Len(received) + 1]))
           /\ \/ UNCHANGED <<down, sent>>
              \/ /\ ~cut
                 /\ \E b, x : x \in Shown /\ Framed(b, x) /\ down' = down \o b /\ sent' = Append(sent, x)
<1>1. /\ HasFrame(s) /\ up' = Rest(s)
      /\ CASE received = <<>> ->
                  /\ received' = <<[kind |-> "token", token |-> TrimAbridgedPadding(Payload(s))]>>
                  /\ UNCHANGED <<down, sent>>
           [] received # <<>> /\ s[1] = PongPrefix ->
                  /\ received' = Append(received, [kind |-> "ping", cid |-> BigEndian(SubSeq(s, 2, 3))])
                  /\ down' = IF cut THEN down ELSE down \o SubSeq(s, 1, 3)
                  /\ sent' = IF cut THEN sent
                             ELSE Append(sent, [kind |-> "pong", cid |-> BigEndian(SubSeq(s, 2, 3))])
           [] OTHER ->
                  /\ received' = received \o SetToSeq({[kind |-> "envelope", fields |-> f] :
                                          f \in Unmarshal(TrimAbridgedPadding(Payload(s)))})
                  /\ UNCHANGED <<down, sent>>
  BY DEF GatewayReads
<1>2. PICK n \in Nat, m \in Nat : n = Len(received) /\ m = Len(written)
  BY DEF Histories
<1>3. received \in Seq(Told) /\ written[n + 1] \in Told /\ n + 1 \in 1 .. m
  <2>1. written \in Seq(Told) /\ received \in Seq(Told) /\ n + 1 \in 1 .. m
    BY <1>2 DEF Histories
  <2> QED BY <1>2, <2>1, ElementOfSeq
<1>4. PICK y : y = Cropped(written[n + 1])
  OBVIOUS
<1>5. /\ y \in Told /\ (y.kind = "token" <=> n = 0) /\ (received = <<>> <=> n = 0)
  <2>1. y \in Told /\ y.kind = written[n + 1].kind
    BY <1>3, <1>4, CroppedTold
  <2>2. written[n + 1].kind = "token" <=> n + 1 = 1
    BY <1>2, <1>3 DEF Answered
  <2>3. received = <<>> <=> n = 0
    BY <1>2, <1>3
  <2>4. n + 1 = 1 <=> n = 0
    OBVIOUS
  <2> QED BY <2>1, <2>2, <2>3, <2>4
<1>6. /\ Len(s) >= Len(e) /\ HeaderSize(s) + PayloadSize(s) = Len(e)
      /\ s[1] = PongPrefix <=> y.kind = "ping"
      /\ y.kind = "token" => TrimAbridgedPadding(Payload(s)) = y.token
      /\ y.kind = "ping" => /\ BigEndian(SubSeq(s, 2, 3)) = y.cid
                            /\ Framed(SubSeq(s, 1, 3), [kind |-> "pong", cid |-> y.cid])
      /\ y.kind = "envelope" => Unmarshal(TrimAbridgedPadding(Payload(s))) = {y.fields}
  BY <1>1, <1>2, <1>4 DEF Uplink
<1>7. up' = SubSeq(s, Len(e) + 1, Len(s))
  BY <1>1, <1>6 DEF Rest
<1>8. CASE y.kind = "token"
  <2>1. y = [kind |-> "token", token |-> y.token]
    BY <1>5, <1>8 DEF Told
  <2>2. received = <<>> /\ received' = <<[kind |-> "token", token |-> y.token]>> /\ UNCHANGED <<down, sent>>
    BY <1>1, <1>5, <1>6, <1>8
  <2>3. received' = Append(received, y)
    BY <2>1, <2>2
  <2> QED BY <1>2, <1>4, <1>6, <1>7, <2>2, <2>3
<1>9. CASE y.kind = "ping"
  <2>1. y = [kind |-> "ping", cid |-> y.cid] /\ y.cid \in Nat
    BY <1>5, <1>9 DEF Told
  <2>2. PICK x : x = [kind |-> "pong", cid |-> y.cid]
    OBVIOUS
  <2>3. received # <<>> /\ s[1] = PongPrefix
    BY <1>5, <1>6, <1>9
  <2>4. /\ received' = Append(received, [kind |-> "ping", cid |-> BigEndian(SubSeq(s, 2, 3))])
        /\ down' = IF cut THEN down ELSE down \o SubSeq(s, 1, 3)
        /\ sent' = IF cut THEN sent ELSE Append(sent, [kind |-> "pong", cid |-> BigEndian(SubSeq(s, 2, 3))])
    BY <1>1, <2>3
  <2>5. /\ received' = Append(received, y)
        /\ sent' = IF cut THEN sent ELSE Append(sent, x)
    BY <1>6, <1>9, <2>1, <2>2, <2>4
  <2>6. x \in Shown
    BY <2>1, <2>2 DEF Shown
  <2>7. Framed(SubSeq(s, 1, 3), x)
    BY <1>6, <1>9, <2>2
  <2>8. \/ UNCHANGED <<down, sent>>
        \/ /\ ~cut
           /\ \E b, z : z \in Shown /\ Framed(b, z) /\ down' = down \o b /\ sent' = Append(sent, z)
    BY <2>4, <2>5, <2>6, <2>7
  <2> QED BY <1>2, <1>4, <1>6, <1>7, <2>5, <2>8
<1>10. CASE y.kind \notin {"token", "ping"}
  <2>1. y = [kind |-> "envelope", fields |-> y.fields] /\ y.kind = "envelope"
    BY <1>5, <1>10 DEF Told
  <2>2. received # <<>> /\ s[1] # PongPrefix
    BY <1>5, <1>6, <1>10
  <2>3. /\ received' = received \o SetToSeq({[kind |-> "envelope", fields |-> f] :
                                    f \in Unmarshal(TrimAbridgedPadding(Payload(s)))})
        /\ UNCHANGED <<down, sent>>
    BY <1>1, <2>2
  <2>4. {[kind |-> "envelope", fields |-> f] : f \in Unmarshal(TrimAbridgedPadding(Payload(s)))} = {y}
    <3>1. Unmarshal(TrimAbridgedPadding(Payload(s))) = {y.fields}
      BY <1>6, <2>1
    <3> QED BY <2>1, <3>1
  <2>5. received' = received \o <<y>>
    BY <2>3, <2>4, FewToSeq
  <2>6. received' = Append(received, y)
    BY <1>3, <1>5, <2>5
  <2> QED BY <1>2, <1>4, <1>6, <1>7, <2>3, <2>6
<1> QED BY <1>8, <1>9, <1>10

\* The gateway reads a frame.
LEMMA GatewayReadsStep == IInv /\ GatewayReads => IInv'
<1> SUFFICES ASSUME IInv, GatewayReads PROVE IInv'
  OBVIOUS
<1>1. /\ Histories /\ Answered /\ Stopped /\ kind = "tcp" /\ TcpDown /\ TcpUp
      /\ sent \in Seq(Shown) /\ received \in Seq(Told) /\ written \in Seq(Told)
      /\ UNCHANGED <<kind, cut, reading, written, got>>
  BY DEF IInv, GatewayReads, Histories
<1>2. HasFrame(IF received = <<>> THEN Tail(up) ELSE up)
  BY DEF GatewayReads
<1>3. PICK F, c, s :
          /\ up = IF received = <<>> THEN <<HandshakePrefix>> \o s ELSE s
          /\ Conveys(s, F, c, Len(received), Len(written)) /\ Whole(s, c, Len(received), Len(written))
          /\ \A i \in 1 .. Len(written) : Uplink(F[i], Cropped(written[i]))
  BY <1>1 DEF TcpUp
<1>4. PICK n, m : n = Len(received) /\ m = Len(written)
  OBVIOUS
<1>5. Conveys(s, F, c, n, m) /\ Whole(s, c, n, m)
  BY <1>3, <1>4
<1>6. s \in Seq(Nat) /\ n \in Nat /\ m \in Nat /\ n <= m /\ (n = m => s = <<>>)
  BY <1>5, ConveysEnd
<1>7. s = IF received = <<>> THEN Tail(up) ELSE up
  <2>1. Tail(<<HandshakePrefix>> \o s) = s
    <3>1. PICK X : X = Nat \cup {HandshakePrefix}
      OBVIOUS
    <3>2. Nat \subseteq X /\ HandshakePrefix \in X
      BY <3>1
    <3>3. s \in Seq(X)
      BY <1>6, <3>2, SeqMonotonic
    <3> QED BY <3>2, <3>3
  <2>2. CASE received = <<>>
    BY <1>3, <2>1, <2>2
  <2>3. CASE received # <<>>
    BY <1>3, <2>3
  <2> QED BY <2>2, <2>3
<1>8. HasFrame(s)
  BY <1>2, <1>7
<1>9. n < m
  <2>1. s # <<>>
    BY <1>6, <1>8, EmptyStream
  <2> QED BY <1>6, <2>1
<1>10. n + 1 \in 1 .. m /\ Agree(s, F[n + 1])
  BY <1>5, <1>9, ConveysHead
<1>11. Uplink(F[n + 1], Cropped(written[n + 1]))
  BY <1>3, <1>4, <1>10
<1>12. /\ Len(s) >= Len(F[n + 1]) /\ up' = SubSeq(s, Len(F[n + 1]) + 1, Len(s))
       /\ received' = Append(received, Cropped(written[n + 1]))
       /\ \/ UNCHANGED <<down, sent>>
          \/ /\ ~cut
             /\ \E b, x : x \in Shown /\ Framed(b, x) /\ down' = down \o b /\ sent' = Append(sent, x)
  <2>1. PICK e : e = F[n + 1]
    OBVIOUS
  <2>2. Agree(s, e) /\ Uplink(e, Cropped(written[Len(received) + 1])) /\ Len(received) < Len(written)
    BY <1>4, <1>9, <1>10, <1>11, <2>1
  <2>3. /\ Len(s) >= Len(e) /\ up' = SubSeq(s, Len(e) + 1, Len(s))
        /\ received' = Append(received, Cropped(written[Len(received) + 1]))
        /\ \/ UNCHANGED <<down, sent>>
           \/ /\ ~cut
              /\ \E b, x : x \in Shown /\ Framed(b, x) /\ down' = down \o b /\ sent' = Append(sent, x)
    BY <1>1, <1>6, <1>7, <2>2, GatewayTakes
  <2> QED BY <1>4, <2>1, <2>3
<1>13. received' \in Seq(Told) /\ Len(received') = n + 1 /\ Answered'
  BY <1>1, <1>4, <1>9, <1>12, ReceivedMore
<1>14. TcpUp'
  <2>1. Conveys(up', F, c, n + 1, m) /\ Whole(up', c, n + 1, m)
    BY <1>5, <1>9, <1>12, ConveysRest
  <2>2. received' # <<>>
    BY <1>6, <1>13
  <2>3. Len(written') = m /\ \A i \in 1 .. Len(written') : Uplink(F[i], Cropped(written'[i]))
    BY <1>1, <1>3, <1>4
  <2>4. Conveys(up', F, c, Len(received'), Len(written')) /\ Whole(up', c, Len(received'), Len(written'))
    BY <1>13, <2>1, <2>3
  <2>5. up' = IF received' = <<>> THEN <<HandshakePrefix>> \o up' ELSE up'
    BY <2>2
  <2> QED BY <2>3, <2>4, <2>5 DEF TcpUp
<1>15. sent' \in Seq(Shown) /\ Stopped' /\ TcpDown'
  <2>1. CASE UNCHANGED <<down, sent>>
    BY <1>1, <2>1, PartsSame
  <2>2. CASE ~cut /\ \E b, x : x \in Shown /\ Framed(b, x) /\ down' = down \o b /\ sent' = Append(sent, x)
    <3>1. PICK b, x : x \in Shown /\ Framed(b, x) /\ down' = down \o b /\ sent' = Append(sent, x)
      BY <2>2
    <3>2. TcpDown'
      BY <1>1, <2>2, <3>1, DownMore
    <3>3. sent' \in Seq(Shown) /\ Stopped'
      BY <1>1, <3>1, SentMore
    <3> QED BY <3>2, <3>3
  <2> QED BY <1>12, <2>1, <2>2
<1>16. Histories'
  BY <1>1, <1>13, <1>15 DEF Histories
<1>17. kind' = "tcp"
  BY <1>1
<1> QED BY <1>13, <1>14, <1>15, <1>16, <1>17 DEF IInv

\* The gateway reads a message.
LEMMA GatewayReadsMessageStep == IInv /\ GatewayReadsMessage => IInv'
<1> SUFFICES ASSUME IInv, GatewayReadsMessage PROVE IInv'
  OBVIOUS
<1>1. /\ Histories /\ Answered /\ Stopped /\ kind = "websocket" /\ WsDown /\ WsUp
      /\ sent \in Seq(Shown) /\ received \in Seq(Told) /\ written \in Seq(Told)
      /\ up # <<>> /\ up' = Tail(up)
      /\ received' = received \o SetToSeq({[kind |-> "envelope", fields |-> f] : f \in Unmarshal(Head(up))})
      /\ UNCHANGED <<kind, down, cut, reading, written, sent, got>>
  BY DEF IInv, GatewayReadsMessage, Histories
<1>2. /\ up \in Seq(Seq(Nat)) /\ Len(received) + Len(up) = Len(written) /\ Len(received) > 0
      /\ \A j \in 1 .. Len(up) : \E f : /\ Unmarshal(up[j]) = {f}
                                        /\ written[Len(received) + j] = [kind |-> "envelope", fields |-> f]
  BY <1>1 DEF WsUp
<1>3. PICK n \in Nat, k \in Nat : n = Len(received) /\ k = Len(up)
  BY <1>1, <1>2
<1>4. n > 0 /\ k > 0 /\ Len(written) = n + k /\ n < n + k
  <2>1. k # 0
    BY <1>1, <1>2, <1>3
  <2> QED BY <1>2, <1>3, <2>1
<1>5. Head(up) = up[1] /\ 1 \in 1 .. Len(up)
  BY <1>1, <1>2, <1>3, <1>4
<1>6. PICK f : Unmarshal(Head(up)) = {f} /\ written[n + 1] = [kind |-> "envelope", fields |-> f]
  BY <1>2, <1>3, <1>5
<1>7. PICK y : y = [kind |-> "envelope", fields |-> f]
  OBVIOUS
<1>8. Cropped(written[n + 1]) = y
  BY <1>6, <1>7 DEF Cropped
<1>9. received' = Append(received, y)
  <2>1. {[kind |-> "envelope", fields |-> g] : g \in Unmarshal(Head(up))} = {y}
    BY <1>6, <1>7
  <2>2. received' = received \o <<y>>
    BY <1>1, <2>1, FewToSeq
  <2>3. y \in Told
    <3>1. written[n + 1] \in Told
      <4>1. n + 1 \in 1 .. Len(written)
        BY <1>4
      <4> QED BY <1>1, <4>1, ElementOfSeq
    <3> QED BY <1>6, <1>7, <3>1
  <2> QED BY <1>1, <2>2, <2>3
<1>10. received' \in Seq(Told) /\ Len(received') = n + 1 /\ Answered'
  BY <1>1, <1>3, <1>4, <1>8, <1>9, ReceivedMore
<1>11. /\ up' \in Seq(Seq(Nat)) /\ Len(up') = k - 1
       /\ \A j \in 1 .. k - 1 : up'[j] = up[j + 1]
  BY <1>1, <1>2, <1>3, HeadTailProperties
<1>12. WsUp'
  <2>1. Len(received') + Len(up') = Len(written') /\ Len(received') > 0
    <3>1. Len(received') = n + 1 /\ Len(up') = k - 1 /\ Len(written') = n + k
      BY <1>1, <1>4, <1>10, <1>11
    <3>2. (n + 1) + (k - 1) = n + k /\ n + 1 > 0
      BY <1>4
    <3> QED BY <3>1, <3>2
  <2>2. ASSUME NEW j \in 1 .. Len(up')
        PROVE  \E g : /\ Unmarshal(up'[j]) = {g}
                      /\ written'[Len(received') + j] = [kind |-> "envelope", fields |-> g]
    <3>1. j \in 1 .. k - 1 /\ j + 1 \in 1 .. k /\ n + (j + 1) = (n + 1) + j
      BY <1>4, <1>11
    <3>2. \E g : Unmarshal(up[j + 1]) = {g} /\ written[n + (j + 1)] = [kind |-> "envelope", fields |-> g]
      BY <1>2, <1>3, <3>1
    <3> QED BY <1>1, <1>10, <1>11, <3>1, <3>2
  <2> QED BY <1>11, <2>1, <2>2 DEF WsUp
<1>13. Histories'
  BY <1>1, <1>10 DEF Histories
<1>14. Stopped' /\ WsDown'
  BY <1>1, PartsSame
<1>15. kind' = "websocket"
  BY <1>1
<1> QED BY <1>10, <1>12, <1>13, <1>14, <1>15 DEF IInv

\* The connection is lost, and with it the end of what was on its way to readLoop.
LEMMA CutStep == IInv /\ Cut => IInv'
<1> SUFFICES ASSUME IInv, Cut PROVE IInv'
  OBVIOUS
<1>1. /\ Histories /\ Answered /\ sent \in Seq(Shown)
      /\ kind = "tcp" => TcpDown /\ TcpUp
      /\ kind = "websocket" => WsDown /\ WsUp
      /\ cut' = TRUE
      /\ UNCHANGED <<kind, up, reading, written, received, sent, got>>
  BY DEF IInv, Cut, Histories
<1>2. PICK lost \in Nat : lost <= Len(down) /\ down' = SubSeq(down, 1, Len(down) - lost)
  <2>1. \A k \in 0 .. MaxLost : k \in Nat
    BY BoundsAssumption
  <2> QED BY <2>1 DEF Cut
<1>3. Stopped'
  BY <1>1 DEF Stopped
<1>4. Histories' /\ Answered' /\ (kind = "tcp" => TcpUp') /\ (kind = "websocket" => WsUp')
  BY <1>1, PartsSame
<1>5. ASSUME kind = "tcp" PROVE TcpDown'
  <2>1. PICK n, F, c :
            /\ Conveys(down, F, c, n, Len(sent))
            /\ \A i \in 1 .. Len(sent) : Framed(F[i], sent[i])
            /\ got = DeliverableOf(SubSeq(sent, 1, n))
    BY <1>1, <1>5 DEF TcpDown
  <2>2. PICK s, m : s = down /\ m = Len(sent)
    OBVIOUS
  <2>3. Conveys(s, F, c, n, m)
    BY <2>1, <2>2
  <2>4. lost \in 0 .. Len(s)
    <3>1. s \in Seq(Nat)
      BY <2>3, ConveysEnd
    <3> QED BY <1>2, <2>2, <3>1
  <2>5. Conveys(SubSeq(s, 1, Len(s) - lost), F, c, n, m)
    BY <2>3, <2>4, ConveysCut
  <2>6. Conveys(down', F, c, n, Len(sent')) /\ cut'
    BY <1>1, <1>2, <2>2, <2>5
  <2>7. \A i \in 1 .. Len(sent') : Framed(F[i], sent'[i])
    BY <1>1, <2>1
  <2>8. got' = DeliverableOf(SubSeq(sent', 1, n))
    BY <1>1, <2>1
  <2> QED BY <2>6, <2>7, <2>8 DEF TcpDown
<1>6. ASSUME kind = "websocket" PROVE WsDown'
  <2>1. PICK n \in 0 .. Len(sent) :
            /\ down \in Seq(Seq(Nat)) /\ Len(down) <= Len(sent) - n
            /\ \A j \in 1 .. Len(down) : Delivers(down[j], sent[n + j])
            /\ got = DeliverableOf(SubSeq(sent, 1, n))
    BY <1>1, <1>6 DEF WsDown
  <2>2. PICK m \in Nat, k \in Nat : m = Len(sent) /\ k = Len(down)
    BY <1>1, <2>1
  <2>3. PICK h \in Nat : h = k - lost /\ h <= k
    BY <1>2, <2>2
  <2>4. /\ down' \in Seq(Seq(Nat)) /\ Len(down') = h
        /\ \A j \in 1 .. h : down'[j] = down[j]
    <3>1. down' = SubSeq(down, 1, h)
      BY <1>2, <2>2, <2>3
    <3>2. 1 \in Int /\ h \in Int /\ \A i \in 1 .. h : down[i] \in Seq(Nat)
      BY <2>1, <2>2, <2>3, ElementOfSeq
    <3>3. /\ SubSeq(down, 1, h) \in Seq(Seq(Nat))
          /\ Len(SubSeq(down, 1, h)) = (IF 1 <= h THEN h - 1 + 1 ELSE 0)
          /\ \A i \in 1 .. h - 1 + 1 : SubSeq(down, 1, h)[i] = down[1 + i - 1]
      BY <3>2, SubSeqProperties
    <3>4. h - 1 + 1 = h
      OBVIOUS
    <3>5. ASSUME NEW j \in 1 .. h PROVE down'[j] = down[j]
      <4>1. 1 + j - 1 = j
        OBVIOUS
      <4> QED BY <3>1, <3>3, <3>4, <4>1
    <3>6. Len(down') = h
      <4>1. CASE h = 0
        BY <3>1, <3>3, <4>1
      <4>2. CASE h # 0
        BY <3>1, <3>3, <4>2
      <4> QED BY <4>1, <4>2
    <3> QED BY <3>1, <3>3, <3>5, <3>6
  <2>5. n \in 0 .. Len(sent') /\ Len(down') <= Len(sent') - n
    BY <1>1, <2>1, <2>2, <2>3, <2>4
  <2>6. ASSUME NEW j \in 1 .. Len(down') PROVE Delivers(down'[j], sent'[n + j])
    <3>1. j \in 1 .. h /\ j \in 1 .. Len(down)
      BY <2>2, <2>3, <2>4
    <3> QED BY <1>1, <2>1, <2>4, <3>1
  <2>7. got' = DeliverableOf(SubSeq(sent', 1, n)) /\ cut'
    BY <1>1, <2>1
  <2> QED BY <2>4, <2>5, <2>6, <2>7 DEF WsDown
<1>7. kind' = kind
  BY <1>1
<1> QED BY <1>3, <1>4, <1>5, <1>6, <1>7 DEF IInv

\* A step of anything else changes nothing on the wire.
LEMMA StutterStep == IInv /\ UNCHANGED vars => IInv'
<1> SUFFICES ASSUME IInv, UNCHANGED vars PROVE IInv'
  OBVIOUS
<1>1. UNCHANGED <<kind, up, down, cut, reading, written, received, sent, got>>
  BY DEF vars
<1>2. Histories' /\ Answered' /\ Stopped'
  BY <1>1, PartsSame DEF IInv
<1>3. (kind = "tcp" => TcpDown' /\ TcpUp') /\ (kind = "websocket" => WsDown' /\ WsUp')
  BY <1>1, PartsSame DEF IInv
<1>4. kind' = kind
  BY <1>1
<1> QED BY <1>2, <1>3, <1>4 DEF IInv

\* The invariant is inductive.
LEMMA NextHolds == IInv /\ [Next]_vars => IInv'
<1>1. ASSUME IInv, NEW data \in Envelopes, WriteEnvelope(data) PROVE IInv'
  BY <1>1, WriteEnvelopeStep
<1>2. ASSUME IInv, NEW cid \in Cids, WritePing(cid) PROVE IInv'
  BY <1>2, WritePingStep
<1>3. ASSUME IInv, NEW x \in Chunks, GatewayChunk(x) PROVE IInv'
  BY <1>3, GatewayChunkStep
<1>4. ASSUME IInv, NEW data \in Envelopes, GatewayReply(data) PROVE IInv'
  BY <1>4, GatewayReplyStep
<1>5. ASSUME IInv, NEW op \in Ops, NEW data \in Envelopes, NEW masked \in BOOLEAN, GatewayPush(op, data, masked)
      PROVE  IInv'
  BY <1>5, GatewayPushStep
<1> QED BY <1>1, <1>2, <1>3, <1>4, <1>5, ReadFrameStep, ReadFailsStep, WsReadFrameStep, GatewayReadsStep,
           GatewayReadsMessageStep, CutStep, StutterStep DEF Next

\* The behaviours of the wire keep the invariant, and so do those of MCTransport,
\* which are of the wire or leave it alone.
LEMMA IInvHolds == (Spec => []IInv) /\ (MCSpec => []IInv)
<1>1. Spec => []IInv
  BY InitHolds, NextHolds, PTL DEF Spec
<1>2. MCInit => Init
  BY DEF MCInit, Quiet
<1>3. [MCNext]_<<part, textVars, idVars, vars>> => [Next]_vars
  BY DEF MCNext
<1>4. MCSpec => []IInv
  BY <1>2, <1>3, InitHolds, NextHolds, PTL DEF MCSpec
<1> QED BY <1>1, <1>4

----------------------------------------------------------------------------
(* The properties.                                                         *)

\* FramesIntact, for one transport at a time.
LEMMA TcpIntact ==
    ASSUME IInv, kind = "tcp"
    PROVE  FramesIntact
<1>1. Histories /\ Stopped /\ TcpDown /\ sent \in Seq(Shown)
  BY DEF IInv, Histories
<1>2. PICK n, F, c :
          /\ Conveys(down, F, c, n, Len(sent)) /\ (~cut => Whole(down, c, n, Len(sent)))
          /\ \A i \in 1 .. Len(sent) : Framed(F[i], sent[i])
          /\ got = DeliverableOf(SubSeq(sent, 1, n))
  BY <1>1 DEF TcpDown
<1>3. PICK m \in Nat : m = Len(sent)
  BY <1>1
<1>4. PICK s : s = down
  OBVIOUS
<1>5. Conveys(s, F, c, n, m) /\ (~cut => Whole(s, c, n, m))
  BY <1>2, <1>3, <1>4
<1>6. s \in Seq(Nat) /\ n \in Nat /\ n <= m /\ (n = m => s = <<>>)
  BY <1>5, ConveysEnd
<1>7. IsPrefix(got, Deliverable)
  <2>1. n \in 0 .. Len(sent)
    BY <1>3, <1>6
  <2> QED BY <1>1, <1>2, <2>1, DeliverableGrows DEF Deliverable
<1>8. ASSUME n < m
      PROVE  /\ n + 1 \in 1 .. m
             /\ ~cut /\ ~HasFrame(s) => Oversize(s) /\ sent[n + 1].kind = "long"
             /\ Oversize(s) => sent[n + 1].kind = "long"
  <2>1. /\ n + 1 \in 1 .. m /\ F[n + 1] \in Seq(Nat) /\ Agree(s, F[n + 1])
        /\ Whole(s, c, n, m) => Len(s) >= Len(F[n + 1])
    BY <1>5, <1>8, ConveysHead
  <2>2. Framed(F[n + 1], sent[n + 1])
    BY <1>2, <1>3, <2>1
  <2>3. /\ HasFrame(s) <=> sent[n + 1].kind # "long" /\ Len(s) >= Len(F[n + 1])
        /\ Oversize(s) => sent[n + 1].kind = "long"
        /\ sent[n + 1].kind = "long" /\ Len(s) >= Len(F[n + 1]) => Oversize(s)
    BY <1>6, <2>1, <2>2 DEF Framed
  <2> QED BY <1>5, <2>1, <2>3
<1>9. ASSUME reading, ~cut, ~HasFrame(s)
      PROVE  IF Oversize(s) THEN \E i \in DOMAIN sent : sent[i].kind = "long"
             ELSE s = <<>> /\ got = Deliverable
  <2>1. CASE n < m
    <3>1. Oversize(s) /\ n + 1 \in 1 .. m /\ sent[n + 1].kind = "long"
      BY <1>8, <1>9, <2>1
    <3>2. n + 1 \in DOMAIN sent
      BY <1>1, <1>3, <3>1
    <3> QED BY <3>1, <3>2
  <2>2. CASE n = m
    <3>1. s = <<>> /\ ~Oversize(s)
      BY <1>6, <2>2, EmptyStream
    <3>2. got = Deliverable
      <4>1. DeliverableOf(SubSeq(sent, 1, Len(sent))) = DeliverableOf(sent)
        BY <1>1, DeliverableEnds
      <4> QED BY <1>2, <1>3, <2>2, <4>1 DEF Deliverable
    <3> QED BY <3>1, <3>2
  <2> QED BY <1>3, <1>6, <2>1, <2>2
<1>10. ASSUME ~reading PROVE cut \/ \E i \in DOMAIN sent : sent[i].kind \in {"close", "long"}
  <2>1. DOMAIN sent = 1 .. Len(sent)
    BY <1>1
  <2> QED BY <1>1, <1>10, <2>1 DEF Stopped
<1>11. InStep
  BY <1>4, <1>9, <1>10 DEF InStep
<1> QED BY <1>7, <1>11 DEF FramesIntact

\* On the WebSocket a message is a frame, and there is no place to lose.
LEMMA WsIntact ==
    ASSUME IInv, kind = "websocket"
    PROVE  FramesIntact
<1>1. Stopped /\ WsDown /\ sent \in Seq(Shown)
  BY DEF IInv, Histories
<1>2. PICK n \in 0 .. Len(sent) : got = DeliverableOf(SubSeq(sent, 1, n))
  BY <1>1 DEF WsDown
<1>3. IsPrefix(got, Deliverable)
  BY <1>1, <1>2, DeliverableGrows DEF Deliverable
<1>4. DOMAIN sent = 1 .. Len(sent)
  BY <1>1
<1>5. InStep
  BY <1>1, <1>4 DEF InStep, Stopped
<1> QED BY <1>3, <1>5 DEF FramesIntact

\* What the gateway makes of what the SDK writes.
LEMMA UplinkIntact ==
    ASSUME IInv
    PROVE  GatewayIntact
<1>1. /\ Answered /\ written \in Seq(Told) /\ received \in Seq(Told)
      /\ kind = "tcp" => TcpUp
      /\ kind = "websocket" => WsUp
      /\ kind \in {"tcp", "websocket"}
  BY DEF IInv, Histories
<1>2. PICK n \in Nat, m \in Nat : n = Len(received) /\ m = Len(written)
  BY <1>1
<1>3. n <= m /\ \A i \in 1 .. n : received[i] = Cropped(written[i])
  BY <1>1, <1>2 DEF Answered
<1> DEFINE told == [i \in DOMAIN written |-> Cropped(written[i])]
<1>4. told \in Seq(Told) /\ Len(told) = m /\ \A i \in 1 .. m : told[i] = Cropped(written[i])
  <2>1. DOMAIN written = 1 .. m
    BY <1>1, <1>2
  <2>2. ASSUME NEW i \in 1 .. m PROVE Cropped(written[i]) \in Told
    <3>1. written[i] \in Told
      BY <1>1, <1>2, ElementOfSeq
    <3> QED BY <3>1, CroppedTold
  <2>3. told = [i \in 1 .. m |-> Cropped(written[i])]
    BY <2>1
  <2> QED BY <2>2, <2>3
<1> HIDE DEF told
<1>5. IsPrefix(received, told)
  <2>1. \A i \in 1 .. n : i \in 1 .. m
    BY <1>3
  <2>2. Len(received) <= Len(told) /\ \A i \in 1 .. Len(received) : received[i] = told[i]
    BY <1>2, <1>3, <1>4, <2>1
  <2>3. SubSeq(told, 1, n) = received
    BY <1>1, <1>2, <1>3, <1>4, <2>2
  <2>4. SubSeq(received, 1, n) = received
    BY <1>1, <1>2, SubSeqFull
  <2> QED BY <1>2, <1>3, <1>4, <2>3, <2>4 DEF IsPrefix
<1>6. ASSUME up = <<>> PROVE Len(received) = Len(written)
  <2>1. CASE kind = "tcp"
    <3>1. PICK F, c, s :
              /\ up = IF received = <<>> THEN <<HandshakePrefix>> \o s ELSE s
              /\ Conveys(s, F, c, Len(received), Len(written)) /\ Whole(s, c, Len(received), Len(written))
      BY <1>1, <2>1 DEF TcpUp
    <3>2. s \in Seq(Nat) /\ (s = <<>> => n = m)
      BY <1>2, <3>1, ConveysEnd
    <3>3. <<HandshakePrefix>> \o s # <<>>
      <4>1. PICK X : X = Nat \cup {HandshakePrefix}
        OBVIOUS
      <4>2. s \in Seq(X) /\ <<HandshakePrefix>> \in Seq(X)
        BY <3>2, <4>1, SeqMonotonic
      <4>3. Len(<<HandshakePrefix>> \o s) = 1 + Len(s) /\ Len(s) \in Nat
        BY <4>2
      <4>4. Len(<<>>) = 0
        OBVIOUS
      <4> QED BY <4>3, <4>4
    <3>4. s = <<>>
      BY <1>6, <3>1, <3>3
    <3> QED BY <1>2, <3>2, <3>4
  <2>2. CASE kind = "websocket"
    <3>1. Len(received) + Len(up) = Len(written) /\ Len(up) = 0
      BY <1>1, <1>6, <2>2 DEF WsUp
    <3> QED BY <1>2, <3>1
  <2> QED BY <1>1, <2>1, <2>2
<1> QED BY <1>5, <1>6 DEF GatewayIntact, told

\* readLoop gets the frames the gateway sent, whole, unchanged, in order, none
\* invented and none left out, whatever the payloads, and stops only where it must:
\* FramesIntact for every number of frames and every content (tcpConn.readFrameOnce,
\* readAbridgedLength, unmarshalEnvelope, wsConn.readFrame).
THEOREM FramesDelivered == (Spec => []FramesIntact) /\ (MCSpec => []FramesIntact)
<1>1. IInv => FramesIntact
  BY TcpIntact, WsIntact DEF IInv, Histories
<1> QED BY <1>1, IInvHolds, PTL

\* The gateway gets the token and every envelope and ping in order, with the same
\* fields, and nothing else: GatewayIntact for every content (writeEnvelope and the
\* field it appends, writePing, the handshake of dialTCP).
THEOREM WritesDelivered == (Spec => []GatewayIntact) /\ (MCSpec => []GatewayIntact)
<1> QED BY UplinkIntact, IInvHolds, PTL
=============================================================================
