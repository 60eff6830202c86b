--------------------------- MODULE EmulatorProofs ---------------------------
(***************************************************************************)
(* The golden model, for every decoder, queue size and RAM size, and for   *)
(* bytes of 2, 4 or 8 bits: at most one answer of the memory is awaited,   *)
(* each call of run_cycle completes one instruction, every variable keeps  *)
(* its type, and the emulator executes the programs of generate_rom.py,    *)
(* from their text on, as the abstract machine EmuIsa does.                *)
(***************************************************************************)
EXTENDS Emulator, WellFoundedInduction, FiniteSetTheorems, FunctionTheorems, SequenceTheorems, TLAPS

-----------------------------------------------------------------------------
(* Induction.                                                              *)

\* A set of numbers has a least one.
LEMMA Least ==
  ASSUME NEW T, T \subseteq Nat, T # {}
  PROVE  \E m \in T : \A k \in T : ~(k < m)
<1>1. PICK m \in T : \A k \in T : <<k, m>> \notin OpToRel(<, Nat)
  BY WFMin, NatLessThanWellFounded, Zenon
<1> QED BY <1>1, Zenon DEF OpToRel

\* A set that has 0 and the successor of each of its numbers has them all.
LEMMA Induction ==
  ASSUME NEW S, 0 \in S, \A n \in Nat : n \in S => n + 1 \in S
  PROVE  Nat \subseteq S
<1> DEFINE T == {n \in Nat : n \notin S}
<1> SUFFICES ASSUME T # {} PROVE FALSE
  OBVIOUS
<1>1. PICK m \in T : \A k \in T : ~(k < m)
  <2>1. T \subseteq Nat /\ T # {}
    OBVIOUS
  <2> HIDE DEF T
  <2> QED BY <2>1, Least
<1>2. m - 1 \in Nat /\ m - 1 \notin T
  BY <1>1
<1> QED BY <1>1, <1>2

-----------------------------------------------------------------------------
(* Widths and powers of two.                                               *)

\* Words of 8, 16 or 32 bits.
LEMMA Widths == WORD \in {256, 65536, 4294967296}
<1>1. CASE ByteBits = 2
  BY <1>1, SMTT(20) DEF WORD, XLEN
<1>2. CASE ByteBits = 4
  BY <1>2, SMTT(20) DEF WORD, XLEN
<1>3. CASE ByteBits = 8
  BY <1>3, SMTT(20) DEF WORD, XLEN
<1> QED BY <1>1, <1>2, <1>3, ByteBitsAssumption, SMT

\* As many subsets as there are numbers of n bits: each power is positive and twice
\* the one before.
LEMMA Power ==
  ASSUME NEW n \in Nat
  PROVE  2 ^ n \in Nat \ {0} /\ 2 ^ (n + 1) = 2 * 2 ^ n
<1> DEFINE S == 1 .. n
           T == 1 .. n + 1
           with == {U \in SUBSET T : n + 1 \in U}
           f == [U \in SUBSET S |-> U \cup {n + 1}]
<1>1. /\ IsFiniteSet(S) /\ Cardinality(S) = n
      /\ IsFiniteSet(T) /\ Cardinality(T) = n + 1
  BY FS_Interval
<1>2. /\ IsFiniteSet(SUBSET S) /\ Cardinality(SUBSET S) = 2 ^ n
      /\ Cardinality(SUBSET T) = 2 ^ (n + 1)
  BY <1>1, FS_SUBSET
<1>3. f \in Bijection(SUBSET S, with)
  <2>1. f \in [SUBSET S -> with]
    <3>1. \A U \in SUBSET S : U \cup {n + 1} \in with
      OBVIOUS
    <3> QED BY <3>1
  <2>2. \A U, V \in SUBSET S : f[U] = f[V] => U = V
    <3> SUFFICES ASSUME NEW U \in SUBSET S, NEW V \in SUBSET S, f[U] = f[V] PROVE U = V
      OBVIOUS
    <3>1. U \cup {n + 1} = V \cup {n + 1}
      OBVIOUS
    <3>2. n + 1 \notin U /\ n + 1 \notin V
      OBVIOUS
    <3> QED BY <3>1, <3>2
  <2>3. \A V \in with : \E U \in SUBSET S : f[U] = V
    <3> SUFFICES ASSUME NEW V \in with PROVE \E U \in SUBSET S : f[U] = V
      OBVIOUS
    <3>1. V \ {n + 1} \in SUBSET S
      OBVIOUS
    <3>2. f[V \ {n + 1}] = V
      BY <3>1
    <3> QED BY <3>1, <3>2
  <2> QED BY <2>1, <2>2, <2>3, Fun_IsBij
<1>4. IsFiniteSet(with) /\ Cardinality(with) = 2 ^ n
  BY <1>2, <1>3, FS_Bijection DEF ExistsBijection
<1>5. SUBSET T = (SUBSET S) \cup with /\ (SUBSET S) \cap with = {}
  <2>1. ASSUME NEW U \in SUBSET T, U \notin with PROVE U \in SUBSET S
    BY <2>1
  <2> QED BY <2>1
<1>6. Cardinality(SUBSET T) = 2 ^ n + 2 ^ n
  <2> DEFINE A == SUBSET S
  <2>1. IsFiniteSet(A) /\ IsFiniteSet(with) /\ Cardinality({}) = 0
    BY <1>2, <1>4, FS_EmptySet
  <2>2. A \cap with = {} /\ SUBSET T = A \cup with
    BY <1>5
  <2> HIDE DEF A, with, T
  <2>3. Cardinality(A \cup with) = Cardinality(A) + Cardinality(with) - Cardinality(A \cap with)
    BY <2>1, FS_Union
  <2>4. Cardinality(A) = 2 ^ n /\ Cardinality(with) = 2 ^ n
    BY <1>2, <1>4 DEF A
  <2>5. 2 ^ n \in Nat
    BY <2>1, <2>4, FS_CardinalityType
  <2> DEFINE p == 2 ^ n
  <2>6. p \in Nat /\ Cardinality(A) = p /\ Cardinality(with) = p
    BY <2>4, <2>5
  <2> HIDE DEF p
  <2>7. Cardinality(A \cap with) = 0
    BY <2>1, <2>2, Zenon
  <2>8. Cardinality(A \cup with) = p + p
    BY <2>3, <2>6, <2>7
  <2> QED BY <2>2, <2>8, Zenon DEF p
<1>7. 2 ^ n \in Nat
  BY <1>2, FS_CardinalityType
<1>8. {} \in SUBSET S
  OBVIOUS
<1>9. 2 ^ n # 0
  BY <1>2, <1>8, FS_EmptySet
<1> QED BY <1>2, <1>6, <1>7, <1>9


-----------------------------------------------------------------------------
(* Numbers and their bits.                                                 *)

\* g is what OfBits computes from the top: g[i] is the number of the bits from i.
Sums(g, f) == g = [i \in 0 .. XLEN |-> IF i = XLEN THEN 0 ELSE f[i] + 2 * g[i + 1]]

\* The recursion of OfBits has a solution, for any bits.
LEMMA SumsExist ==
  ASSUME NEW f \in [BitIndex -> {0, 1}]
  PROVE  \E g : Sums(g, f)
<1> DEFINE Right(g, k) == \A i \in 0 .. XLEN : i >= XLEN - k =>
                            g[i] = IF i = XLEN THEN 0 ELSE f[i] + 2 * g[i + 1]
           S == {k \in Nat : k <= XLEN => \E g \in [0 .. XLEN -> Nat] : Right(g, k)}
<1>1. XLEN \in Nat
  BY ByteBitsAssumption DEF XLEN
<1>2. 0 \in S
  <2> DEFINE g == [i \in 0 .. XLEN |-> 0]
  <2>1. g \in [0 .. XLEN -> Nat] /\ Right(g, 0)
    BY <1>1
  <2> QED BY <2>1
<1>3. ASSUME NEW k \in Nat, k \in S PROVE k + 1 \in S
  <2> SUFFICES ASSUME k + 1 <= XLEN PROVE \E h \in [0 .. XLEN -> Nat] : Right(h, k + 1)
    OBVIOUS
  <2>1. PICK g \in [0 .. XLEN -> Nat] : Right(g, k)
    BY <1>1, <1>3
  <2> DEFINE j == XLEN - (k + 1)
             h == [g EXCEPT ![j] = f[j] + 2 * g[j + 1]]
  <2>2. j \in BitIndex /\ j + 1 \in 0 .. XLEN
    BY <1>1 DEF BitIndex
  <2>3. f[j] + 2 * g[j + 1] \in Nat
    BY <2>2
  <2>4. h \in [0 .. XLEN -> Nat]
    BY <2>3
  <2>5. Right(h, k + 1)
    BY <1>1, <2>1, <2>2, <2>4 DEF BitIndex
  <2> QED BY <2>4, <2>5
<1>4. XLEN \in S
  <2> HIDE DEF S
  <2> QED BY <1>1, <1>2, <1>3, Induction
<1>5. PICK g \in [0 .. XLEN -> Nat] : Right(g, XLEN)
  BY <1>1, <1>4
<1>6. Sums(g, f)
  BY <1>1, <1>5 DEF Sums
<1> QED BY <1>6

\* OfBits is the lowest of such sums.
LEMMA OfBitsSums ==
  ASSUME NEW f \in [BitIndex -> {0, 1}]
  PROVE  \E g : Sums(g, f) /\ OfBits(f) = g[0]
<1>1. Sums(CHOOSE g : Sums(g, f), f)
  BY SumsExist, Zenon
<1>2. OfBits(f) = (CHOOSE g : Sums(g, f))[0]
  BY Zenon DEF OfBits, Sums
<1> QED BY <1>1, <1>2, Zenon

\* Division, of any integer.
LEMMA Quotients ==
  ASSUME NEW m \in Nat \ {0}, NEW q \in Int, NEW r \in Nat, r < m
  PROVE  (m * q + r) \div m = q /\ (m * q + r) % m = r
<1> DEFINE n == m * q + r
           p == n \div m
<1>1. n \in Int /\ p \in Int /\ n % m \in 0 .. m - 1 /\ n = m * p + (n % m)
  OBVIOUS
<1> HIDE DEF p
<1>2. CASE p < q
  <2>1. m * p + m <= m * q
    BY <1>1, <1>2
  <2> QED BY <1>1, <2>1
<1>3. CASE p > q
  <2>1. m * q + m <= m * p
    BY <1>1, <1>3
  <2> QED BY <1>1, <2>1
<1>4. p = q
  BY <1>1, <1>2, <1>3
<1> QED BY <1>1, <1>4 DEF p

\* What division is.
LEMMA Divided ==
  ASSUME NEW m \in Nat \ {0}, NEW n \in Int
  PROVE  /\ n \div m \in Int /\ n % m \in 0 .. m - 1
         /\ n = m * (n \div m) + (n % m)
         /\ n \in Nat => n \div m \in Nat
  OBVIOUS

\* The remainder by 2m is the lowest bit and twice the remainder of the rest.
LEMMA HalfMod ==
  ASSUME NEW y \in Int, NEW m \in Nat \ {0}
  PROVE  y % (2 * m) = (y % 2) + 2 * ((y \div 2) % m)
<1> DEFINE h == y \div 2
           b == y % 2
           q == h \div m
           r == h % m
           n == 2 * m
           c == 2 * r + b
<1>1. h \in Int /\ b \in {0, 1} /\ y = 2 * h + b
  OBVIOUS
<1>2. q \in Int /\ r \in Nat /\ r < m /\ h = m * q + r
  BY <1>1, Divided
<1> HIDE DEF h, b, q, r
<1>3. y = n * q + c /\ c \in Nat /\ c < n /\ n \in Nat \ {0}
  BY <1>1, <1>2
<1> HIDE DEF n, c
<1>4. y % n = c
  BY <1>2, <1>3, Quotients
<1> QED BY <1>4 DEF n, c, h, b, r

\* Halving a quotient by m gives the quotient by 2m.
LEMMA HalfQuotient ==
  ASSUME NEW y \in Int, NEW m \in Nat \ {0}
  PROVE  (y \div m) \div 2 = y \div (2 * m)
<1> DEFINE h == y \div m
           b == y % m
           q == h \div 2
           r == h % 2
           n == 2 * m
           c == m * r + b
<1>1. h \in Int /\ b \in Nat /\ b < m /\ y = m * h + b
  BY Divided
<1> HIDE DEF h, b
<1>2. q \in Int /\ r \in {0, 1} /\ h = 2 * q + r
  BY <1>1
<1> HIDE DEF q, r
<1>3. y = n * q + c /\ c \in Nat /\ c < n /\ n \in Nat \ {0}
  <2>1. CASE r = 0
    BY <1>1, <1>2, <2>1
  <2>2. CASE r = 1
    BY <1>1, <1>2, <2>2
  <2> QED BY <1>2, <2>1, <2>2
<1> HIDE DEF n, c
<1>4. y \div n = q
  BY <1>2, <1>3, Quotients
<1> QED BY <1>4 DEF n, q, h

\* OfBits yields a word.
LEMMA OfBitsType ==
  ASSUME NEW f \in [BitIndex -> {0, 1}]
  PROVE  OfBits(f) \in WordNum
<1>1. XLEN \in Nat /\ WORD = 2 ^ XLEN
  BY ByteBitsAssumption DEF XLEN, WORD
<1>2. PICK g : Sums(g, f) /\ OfBits(f) = g[0]
  BY OfBitsSums
<1> DEFINE S == {k \in Nat : k <= XLEN => g[XLEN - k] \in 0 .. 2 ^ k - 1}
<1>3. 0 \in S
  <2>1. 2 ^ 0 = 1
    BY SMT
  <2>2. g[XLEN] = 0
    BY <1>1, <1>2 DEF Sums
  <2> QED BY <1>1, <2>1, <2>2
<1>4. ASSUME NEW k \in Nat, k \in S PROVE k + 1 \in S
  <2> SUFFICES ASSUME k + 1 <= XLEN PROVE g[XLEN - (k + 1)] \in 0 .. 2 ^ (k + 1) - 1
    OBVIOUS
  <2> DEFINE j == XLEN - (k + 1)
             p == 2 ^ k
             u == g[j + 1]
  <2>1. j \in BitIndex /\ j + 1 = XLEN - k
    BY <1>1 DEF BitIndex
  <2>2. g[j] = f[j] + 2 * g[j + 1]
    BY <1>1, <1>2, <2>1 DEF Sums, BitIndex
  <2>3. u \in 0 .. p - 1
    BY <1>1, <1>4, <2>1
  <2>4. p \in Nat \ {0} /\ 2 ^ (k + 1) = 2 * p
    BY Power
  <2>5. f[j] \in {0, 1}
    BY <2>1
  <2> HIDE DEF p, u, j
  <2>6. g[j] \in 0 .. 2 * p - 1
    <3>1. g[j] = f[j] + 2 * u
      BY <2>2 DEF u
    <3> QED BY <2>3, <2>4, <2>5, <3>1
  <2> QED BY <2>4, <2>6 DEF j
<1>5. XLEN \in S
  <2> HIDE DEF S
  <2> QED BY <1>1, <1>3, <1>4, Induction
<1> QED BY <1>1, <1>2, <1>5 DEF WordNum

\* When d starts with x and halves from place to place, and f has the lowest
\* bit at each place, then f are the bits of x.
LEMMA OfBitsOf ==
  ASSUME NEW d, \A i \in 0 .. XLEN : d[i] \in Int,
         \A i \in BitIndex : d[i + 1] = d[i] \div 2,
         NEW f \in [BitIndex -> {0, 1}], \A i \in BitIndex : f[i] = d[i] % 2
  PROVE  OfBits(f) = Wrap(d[0])
<1>1. XLEN \in Nat /\ WORD = 2 ^ XLEN
  BY ByteBitsAssumption DEF XLEN, WORD
<1>2. PICK g : Sums(g, f) /\ OfBits(f) = g[0]
  BY OfBitsSums
<1> DEFINE S == {k \in Nat : k <= XLEN => g[XLEN - k] = d[XLEN - k] % (2 ^ k)}
<1>3. 0 \in S
  <2>1. 2 ^ 0 = 1
    BY SMT
  <2>2. g[XLEN] = 0
    BY <1>1, <1>2 DEF Sums
  <2>3. d[XLEN] % 1 = 0
    BY <1>1
  <2> QED BY <1>1, <2>1, <2>2, <2>3
<1>4. ASSUME NEW k \in Nat, k \in S PROVE k + 1 \in S
  <2> SUFFICES ASSUME k + 1 <= XLEN
               PROVE  g[XLEN - (k + 1)] = d[XLEN - (k + 1)] % (2 ^ (k + 1))
    OBVIOUS
  <2> DEFINE j == XLEN - (k + 1)
             p == 2 ^ k
             y == d[j]
  <2>1. j \in BitIndex /\ j + 1 = XLEN - k /\ j \in 0 .. XLEN
    BY <1>1 DEF BitIndex
  <2>2. g[j] = f[j] + 2 * g[j + 1]
    BY <1>1, <1>2, <2>1 DEF Sums, BitIndex
  <2>3. g[j + 1] = d[j + 1] % p
    BY <1>1, <1>4, <2>1
  <2>4. p \in Nat \ {0} /\ 2 ^ (k + 1) = 2 * p
    BY Power
  <2>5. f[j] = y % 2 /\ d[j + 1] = y \div 2 /\ y \in Int
    BY <2>1
  <2> HIDE DEF p, y, j
  <2>6. g[j] = y % (2 * p)
    BY <2>2, <2>3, <2>4, <2>5, HalfMod
  <2> QED BY <2>4, <2>6 DEF j, y
<1>5. XLEN \in S
  <2> HIDE DEF S
  <2> QED BY <1>1, <1>3, <1>4, Induction
<1> QED BY <1>1, <1>2, <1>5 DEF Wrap

\* A bit is 0 or 1.
LEMMA BitType ==
  ASSUME NEW a \in Int, NEW i \in Nat
  PROVE  Bit(a, i) \in {0, 1}
<1> DEFINE n == a \div 2 ^ i
<1>1. n \in Int
  <2>1. 2 ^ i \in Nat \ {0}
    BY Power
  <2> DEFINE m == 2 ^ i
  <2> HIDE DEF m
  <2>2. a \div m \in Int
    BY <2>1, Divided DEF m
  <2> QED BY <2>2 DEF m
<1> HIDE DEF n
<1>2. n % 2 \in {0, 1}
  BY <1>1
<1> QED BY <1>2 DEF n, Bit

\* The operations on bits yield words.
LEMMA BitOpsType ==
  ASSUME NEW a \in WordNum, NEW b \in WordNum
  PROVE  /\ BitAnd(a, b) \in WordNum /\ BitOr(a, b) \in WordNum
         /\ BitXor(a, b) \in WordNum /\ BitNot(a) \in WordNum
<1>1. a \in Int /\ b \in Int /\ \A i \in BitIndex : i \in Nat
  BY Widths DEF WordNum, BitIndex
<1>2. \A i \in BitIndex : Bit(a, i) \in {0, 1} /\ Bit(b, i) \in {0, 1}
  BY <1>1, BitType
<1>3. [i \in BitIndex |-> Bit(a, i) * Bit(b, i)] \in [BitIndex -> {0, 1}]
  BY <1>2
<1>4. [i \in BitIndex |-> IF Bit(a, i) + Bit(b, i) > 0 THEN 1 ELSE 0] \in [BitIndex -> {0, 1}]
  OBVIOUS
<1>5. [i \in BitIndex |-> (Bit(a, i) + Bit(b, i)) % 2] \in [BitIndex -> {0, 1}]
  BY <1>2
<1>6. BitNot(a) \in WordNum
  BY Widths DEF BitNot, WordNum
<1> QED BY <1>3, <1>4, <1>5, <1>6, OfBitsType DEF BitAnd, BitOr, BitXor

\* Powers multiply.
LEMMA PowerSum ==
  ASSUME NEW m \in Nat, NEW n \in Nat
  PROVE  2 ^ (m + n) = 2 ^ m * 2 ^ n
<1> DEFINE S == {k \in Nat : 2 ^ (m + k) = 2 ^ m * 2 ^ k}
<1>1. 0 \in S
  <2> DEFINE p == 2 ^ m
  <2>1. p \in Nat /\ 2 ^ 0 = 1 /\ m + 0 = m
    BY Power, SMT
  <2> HIDE DEF p
  <2>2. p * 1 = p
    BY <2>1
  <2> QED BY <2>1, <2>2 DEF p
<1>2. ASSUME NEW k \in Nat, k \in S PROVE k + 1 \in S
  <2> DEFINE p == 2 ^ m
             q == 2 ^ k
             r == 2 ^ (m + k)
  <2>1. p \in Nat /\ q \in Nat /\ r = p * q
    BY <1>2, Power
  <2>2. m + k \in Nat /\ m + (k + 1) = (m + k) + 1
    OBVIOUS
  <2>3. 2 ^ ((m + k) + 1) = 2 * r /\ 2 ^ (k + 1) = 2 * q
    BY <2>2, Power
  <2> HIDE DEF p, q, r
  <2>4. 2 * r = p * (2 * q)
    BY <2>1
  <2> QED BY <2>2, <2>3, <2>4 DEF p
<1> HIDE DEF S
<1>3. n \in S
  BY <1>1, <1>2, Induction
<1> QED BY <1>3 DEF S

\* A shift to the left, bit by bit, multiplies.
LEMMA LeftBits ==
  ASSUME NEW a \in WordNum, NEW s \in 0 .. XLEN - 1
  PROVE  OfBits([i \in BitIndex |-> IF i < s THEN 0 ELSE Bit(a, i - s)]) = Wrap(a * 2 ^ s)
<1> DEFINE d == [i \in 0 .. XLEN |-> IF i < s THEN a * 2 ^ (s - i) ELSE a \div 2 ^ (i - s)]
           f == [i \in BitIndex |-> IF i < s THEN 0 ELSE Bit(a, i - s)]
<1>1. XLEN \in Nat /\ a \in Int /\ s \in Nat
  BY ByteBitsAssumption, Widths DEF XLEN, WordNum
<1>2. ASSUME NEW i \in 0 .. XLEN PROVE d[i] \in Int
  <2>1. CASE i < s
    <3> DEFINE p == 2 ^ (s - i)
    <3>1. s - i \in Nat /\ d[i] = a * p
      BY <1>1, <2>1
    <3>2. p \in Nat
      BY <3>1, Power
    <3> HIDE DEF p, d
    <3> QED BY <1>1, <3>1, <3>2
  <2>2. CASE ~(i < s)
    <3> DEFINE p == 2 ^ (i - s)
    <3>1. i - s \in Nat /\ d[i] = a \div p
      BY <1>1, <2>2
    <3>2. p \in Nat \ {0}
      BY <3>1, Power
    <3> HIDE DEF p, d
    <3> QED BY <1>1, <3>1, <3>2
  <2> QED BY <2>1, <2>2
<1>3. ASSUME NEW i \in BitIndex PROVE d[i + 1] = d[i] \div 2 /\ f[i] = d[i] % 2 /\ f[i] \in {0, 1}
  <2>1. i \in 0 .. XLEN /\ i + 1 \in 0 .. XLEN /\ i \in Nat
    BY <1>1 DEF BitIndex
  <2>2. CASE i + 1 < s
    <3> DEFINE p == 2 ^ (s - (i + 1))
    <3>1. s - (i + 1) \in Nat /\ s - i = (s - (i + 1)) + 1
      BY <1>1, <2>1, <2>2
    <3>2. p \in Nat /\ 2 ^ (s - i) = 2 * p
      BY <3>1, Power
    <3>3. d[i] = a * (2 * p) /\ d[i + 1] = a * p /\ f[i] = 0
      BY <1>1, <2>1, <2>2, <3>2
    <3> HIDE DEF p, d, f
    <3>4. a * (2 * p) = 2 * (a * p) /\ a * p \in Int
      BY <1>1, <3>2
    <3> DEFINE n == a * p
    <3> HIDE DEF n
    <3>5. d[i] = 2 * n /\ d[i + 1] = n /\ n \in Int /\ f[i] = 0
      BY <3>3, <3>4 DEF n
    <3> QED BY <3>5
  <2>3. CASE i + 1 = s
    <3>1. 2 ^ 1 = 2 /\ 2 ^ 0 = 1
      BY SMT
    <3>2. s - i = 1 /\ (i + 1) - s = 0
      BY <1>1, <2>1, <2>3
    <3>3. d[i] = a * 2 /\ d[i + 1] = a \div 1 /\ f[i] = 0
      BY <1>1, <2>1, <2>3, <3>1, <3>2
    <3> HIDE DEF d, f
    <3> QED BY <1>1, <3>3
  <2>4. CASE i + 1 > s
    <3> DEFINE p == 2 ^ (i - s)
               n == a \div p
    <3>1. i - s \in Nat /\ (i + 1) - s = (i - s) + 1
      BY <1>1, <2>1, <2>4
    <3>2. p \in Nat \ {0} /\ 2 ^ ((i + 1) - s) = 2 * p
      BY <3>1, Power
    <3>3. ~(i < s) /\ ~(i + 1 < s)
      BY <1>1, <2>1, <2>4
    <3>4. d[i] = a \div p /\ d[i + 1] = a \div (2 * p) /\ f[i] = n % 2
      BY <2>1, <3>2, <3>3 DEF Bit
    <3> HIDE DEF p, d, f
    <3>5. n \in Int /\ n \div 2 = a \div (2 * p)
      BY <1>1, <3>2, HalfQuotient, Divided
    <3>6. n % 2 \in {0, 1}
      BY <3>5
    <3> QED BY <3>4, <3>5, <3>6
  <2> QED BY <1>1, <2>1, <2>2, <2>3, <2>4
<1>4. d[0] = a * 2 ^ s
  <2>1. CASE s = 0
    <3>1. 2 ^ 0 = 1
      BY SMT
    <3>2. d[0] = a \div 1
      BY <1>1, <2>1, <3>1
    <3> HIDE DEF d
    <3> QED BY <1>1, <2>1, <3>1, <3>2
  <2>2. CASE s # 0
    BY <1>1, <2>2
  <2> QED BY <2>1, <2>2
<1>5. f \in [BitIndex -> {0, 1}]
  BY <1>3
<1> HIDE DEF d, f
<1>6. OfBits(f) = Wrap(d[0])
  BY <1>2, <1>3, <1>5, OfBitsOf
<1> QED BY <1>4, <1>6 DEF f

\* A shift to the right, bit by bit, divides the number x that has the bits of a
\* and fill wherever a has no more.
LEMMA RightBits ==
  ASSUME NEW a \in WordNum, NEW s \in 0 .. XLEN - 1, NEW x \in Int, NEW fill \in {0, 1},
         \A k \in BitIndex : Bit(a, k) = (x \div 2 ^ k) % 2,
         (x \div 2 ^ (XLEN - 1)) \div 2 = -fill
  PROVE  OfBits([i \in BitIndex |-> IF i + s < XLEN THEN Bit(a, i + s) ELSE fill])
           = Wrap(x \div 2 ^ s)
<1> DEFINE d == [i \in 0 .. XLEN |-> IF i + s < XLEN THEN x \div 2 ^ (i + s) ELSE -fill]
           f == [i \in BitIndex |-> IF i + s < XLEN THEN Bit(a, i + s) ELSE fill]
<1>1. XLEN \in Nat \ {0} /\ a \in Int /\ s \in Nat
  BY ByteBitsAssumption, Widths DEF XLEN, WordNum
<1>2. ASSUME NEW i \in 0 .. XLEN PROVE d[i] \in Int
  <2>1. CASE i + s < XLEN
    <3> DEFINE p == 2 ^ (i + s)
    <3>1. i + s \in Nat /\ d[i] = x \div p
      BY <1>1, <2>1
    <3>2. p \in Nat \ {0}
      BY <3>1, Power
    <3> HIDE DEF p, d
    <3> QED BY <1>1, <3>1, <3>2
  <2>2. CASE ~(i + s < XLEN)
    BY <2>2
  <2> QED BY <2>1, <2>2
<1>3. ASSUME NEW i \in BitIndex PROVE d[i + 1] = d[i] \div 2 /\ f[i] = d[i] % 2 /\ f[i] \in {0, 1}
  <2>1. i \in 0 .. XLEN /\ i + 1 \in 0 .. XLEN /\ i \in Nat
    BY <1>1 DEF BitIndex
  <2>2. CASE i + s < XLEN
    <3> DEFINE p == 2 ^ (i + s)
               n == x \div p
    <3>1. i + s \in Nat /\ (i + 1) + s = (i + s) + 1 /\ i + s \in BitIndex
      BY <1>1, <2>1, <2>2 DEF BitIndex
    <3>2. p \in Nat \ {0} /\ 2 ^ ((i + 1) + s) = 2 * p
      BY <3>1, Power
    <3>3. d[i] = n /\ f[i] = n % 2
      BY <2>1, <2>2, <3>1
    <3>4. d[i + 1] = n \div 2
      <4>1. CASE (i + 1) + s < XLEN
        <5>1. d[i + 1] = x \div (2 * p)
          BY <2>1, <3>2, <4>1
        <5> HIDE DEF p, d
        <5> QED BY <3>2, <5>1, HalfQuotient
      <4>2. CASE ~((i + 1) + s < XLEN)
        <5>1. i + s = XLEN - 1
          BY <1>1, <2>1, <2>2, <4>2
        <5>2. d[i + 1] = -fill
          BY <2>1, <4>2
        <5> HIDE DEF d
        <5> QED BY <5>1, <5>2
      <4> QED BY <4>1, <4>2
    <3> HIDE DEF p, d, f
    <3>5. n \in Int
      BY <3>2, Divided
    <3> HIDE DEF n
    <3>6. n % 2 \in {0, 1}
      BY <3>5
    <3> QED BY <3>3, <3>4, <3>6
  <2>3. CASE ~(i + s < XLEN)
    <3>1. d[i] = -fill /\ d[i + 1] = -fill /\ f[i] = fill
      BY <1>1, <2>1, <2>3
    <3> HIDE DEF d, f
    <3> QED BY <3>1
  <2> QED BY <2>2, <2>3
<1>4. d[0] = x \div 2 ^ s
  BY <1>1
<1>5. f \in [BitIndex -> {0, 1}]
  BY <1>3
<1> HIDE DEF d, f
<1>6. OfBits(f) = Wrap(d[0])
  BY <1>2, <1>3, <1>5, OfBitsOf
<1> QED BY <1>4, <1>6 DEF f

\* The logical shift to the right.
LEMMA LogicalBits ==
  ASSUME NEW a \in WordNum, NEW s \in 0 .. XLEN - 1
  PROVE  /\ OfBits([i \in BitIndex |-> IF i + s < XLEN THEN Bit(a, i + s) ELSE 0])
              = a \div 2 ^ s
         /\ a \div 2 ^ s \in WordNum
<1> DEFINE p == 2 ^ s
           n == a \div p
           h == 2 ^ (XLEN - 1)
<1>1. XLEN \in Nat \ {0} /\ a \in Nat /\ s \in Nat /\ a < WORD /\ WORD \in Nat \ {0}
  BY ByteBitsAssumption, Widths DEF XLEN, WordNum
<1>2. p \in Nat \ {0} /\ h \in Nat \ {0} /\ WORD = 2 * h
  <2>1. XLEN - 1 \in Nat /\ (XLEN - 1) + 1 = XLEN
    BY <1>1
  <2> QED BY <1>1, <2>1, Power DEF WORD
<1>3. n \in Nat /\ n <= a
  <2> HIDE DEF p
  <2>1. n \in Nat /\ a % p \in 0 .. p - 1 /\ a = p * n + (a % p)
    BY <1>1, <1>2
  <2> HIDE DEF n
  <2>2. p * n >= n
    BY <1>2, <2>1
  <2> QED BY <1>1, <1>2, <2>1, <2>2
<1>4. n \in WordNum /\ Wrap(n) = n
  <2> HIDE DEF n
  <2>1. n \in 0 .. WORD - 1
    BY <1>1, <1>3
  <2>2. n % WORD = n
    BY <1>1, <2>1, Widths
  <2> QED BY <2>1, <2>2 DEF WordNum, Wrap
<1>5. (a \div h) \div 2 = -0
  <2> DEFINE q == a \div h
  <2> HIDE DEF h
  <2>1. q \in Nat /\ a % h \in 0 .. h - 1 /\ a = h * q + (a % h)
    BY <1>1, <1>2
  <2> HIDE DEF q
  <2>2. CASE q >= 2
    <3>1. h * q >= 2 * h
      BY <1>2, <2>1, <2>2
    <3> QED BY <1>1, <1>2, <2>1, <3>1
  <2>3. CASE q \in {0, 1}
    BY <2>3 DEF q
  <2> QED BY <2>1, <2>2, <2>3
<1>6. \A k \in BitIndex : Bit(a, k) = (a \div 2 ^ k) % 2
  BY DEF Bit
<1>7. 0 \in {0, 1} /\ a \in Int
  BY <1>1
<1>8. OfBits([i \in BitIndex |-> IF i + s < XLEN THEN Bit(a, i + s) ELSE 0]) = Wrap(n)
  BY <1>5, <1>6, <1>7, RightBits
<1> QED BY <1>4, <1>8

\* The arithmetic shift to the right fills with the sign.
LEMMA ArithmeticBits ==
  ASSUME NEW a \in WordNum, NEW s \in 0 .. XLEN - 1
  PROVE  OfBits([i \in BitIndex |-> IF i + s < XLEN THEN Bit(a, i + s) ELSE Bit(a, XLEN - 1)])
           = Wrap(Signed(a) \div 2 ^ s)
<1> DEFINE x == Signed(a)
           h == 2 ^ (XLEN - 1)
           fill == Bit(a, XLEN - 1)
<1>1. /\ XLEN \in Nat \ {0} /\ a \in Nat /\ s \in Nat /\ a < WORD /\ WORD \in Nat \ {0}
      /\ WORD = 2 ^ XLEN /\ XLEN - 1 \in Nat
  BY ByteBitsAssumption, Widths DEF XLEN, WordNum, WORD
<1>2. h \in Nat \ {0} /\ WORD = 2 * h
  <2>1. (XLEN - 1) + 1 = XLEN
    BY <1>1
  <2> QED BY <1>1, <2>1, Power
<1>3. x = (IF a < h THEN a ELSE a - WORD) /\ x \in Int
  BY <1>1, <1>2 DEF Signed
<1>4. a \div h = (IF a < h THEN 0 ELSE 1) /\ x \div h = (IF a < h THEN 0 ELSE -1)
  <2> HIDE DEF x, h
  <2>1. CASE a < h
    <3>1. (h * 0 + a) \div h = 0
      BY <1>1, <1>2, <2>1, Quotients
    <3>2. h * 0 + a = a
      BY <1>1, <1>2
    <3> QED BY <1>3, <2>1, <3>1, <3>2
  <2>2. CASE ~(a < h)
    <3> DEFINE r == a - h
    <3>1. r \in Nat /\ r < h
      BY <1>1, <1>2, <2>2
    <3>2. h * 1 + r = a /\ h * (-1) + r = x
      BY <1>1, <1>2, <1>3, <2>2
    <3> HIDE DEF r
    <3>3. (h * 1 + r) \div h = 1 /\ (h * (-1) + r) \div h = -1
      BY <1>2, <3>1, Quotients
    <3> QED BY <2>2, <3>2, <3>3
  <2> QED BY <2>1, <2>2
<1>5. fill = (IF a < h THEN 0 ELSE 1)
  <2> HIDE DEF h
  <2>1. fill = (a \div h) % 2
    BY DEF Bit, h
  <2>2. CASE a < h
    BY <1>4, <2>1, <2>2
  <2>3. CASE ~(a < h)
    BY <1>4, <2>1, <2>3
  <2> QED BY <2>2, <2>3
<1>6. fill \in {0, 1} /\ (x \div h) \div 2 = -fill
  <2> HIDE DEF x, h, fill
  <2>1. CASE a < h
    BY <1>4, <1>5, <2>1
  <2>2. CASE ~(a < h)
    BY <1>4, <1>5, <2>2
  <2> QED BY <2>1, <2>2
<1>7. ASSUME NEW k \in BitIndex PROVE Bit(a, k) = (x \div 2 ^ k) % 2
  <2> DEFINE p == 2 ^ k
             e == 2 ^ (XLEN - (k + 1))
             q == a \div p
             r == a % p
             c == q - 2 * e
  <2>1. k \in Nat /\ XLEN - (k + 1) \in Nat /\ (k + (XLEN - (k + 1))) + 1 = XLEN
    BY <1>1 DEF BitIndex
  <2>2. p \in Nat \ {0} /\ e \in Nat \ {0} /\ WORD = 2 * (p * e)
    <3>1. k + (XLEN - (k + 1)) \in Nat
      BY <2>1
    <3>2. 2 ^ ((k + (XLEN - (k + 1))) + 1) = 2 * 2 ^ (k + (XLEN - (k + 1)))
      BY <3>1, Power
    <3>3. 2 ^ (k + (XLEN - (k + 1))) = p * e
      BY <2>1, PowerSum
    <3>4. p \in Nat \ {0} /\ e \in Nat \ {0}
      BY <2>1, Power
    <3>5. WORD = 2 * 2 ^ (k + (XLEN - (k + 1)))
      BY <1>1, <2>1, <3>2
    <3> HIDE DEF p, e
    <3> QED BY <3>3, <3>4, <3>5
  <2>3. Bit(a, k) = q % 2
    BY DEF Bit
  <2> HIDE DEF p, e, x, h
  <2>4. q \in Int /\ r \in Nat /\ r < p /\ a = p * q + r
    BY <1>1, <2>2, Divided
  <2> HIDE DEF q, r
  <2>5. CASE a < h
    BY <1>3, <2>3, <2>5 DEF p, q
  <2>6. CASE ~(a < h)
    <3>1. c \in Int /\ x = p * c + r
      <4>1. p * c = p * q - 2 * (p * e)
        BY <2>2, <2>4
      <4> QED BY <1>3, <2>2, <2>4, <2>6, <4>1
    <3>2. x \div p = c
      <4> HIDE DEF c
      <4> QED BY <2>2, <2>4, <3>1, Quotients
    <3>3. c % 2 = q % 2
      <4> DEFINE t == e + e
      <4>1. c = q - 2 * e
        OBVIOUS
      <4> QED BY <2>2, <2>4, <4>1
    <3> QED BY <2>3, <3>2, <3>3 DEF p
  <2> QED BY <2>5, <2>6
<1> HIDE DEF x, fill
<1>8. OfBits([i \in BitIndex |-> IF i + s < XLEN THEN Bit(a, i + s) ELSE fill]) = Wrap(x \div 2 ^ s)
  BY <1>3, <1>6, <1>7, RightBits
<1> QED BY <1>8 DEF x, fill

-----------------------------------------------------------------------------
(* Signed division.                                                        *)

\* RISC-V's condition on the quotient q of a by b: the remainder is smaller than
\* the divisor and has the dividend's sign.
IsQuotient(a, b, q) ==
  LET r == a - q * b IN r * r < b * b /\ (r = 0 \/ (r < 0) = (a < 0))

\* A square is below another just when the absolute value is.
LEMMA Squares ==
  ASSUME NEW r \in Int, NEW b \in Int, r * r < b * b
  PROVE  AbsValue(r) < AbsValue(b)
<1> DEFINE R == AbsValue(r)
           B == AbsValue(b)
<1>1. R \in Nat /\ B \in Nat /\ R * R = r * r /\ B * B = b * b
  <2>1. r \in Int /\ b \in Int /\ (-r) * (-r) = r * r /\ (-b) * (-b) = b * b
    OBVIOUS
  <2> QED BY <2>1 DEF AbsValue
<1> HIDE DEF R, B
<1>2. CASE R >= B
  <2>1. R * R >= B * R /\ B * R >= B * B
    BY <1>1, <1>2
  <2> QED BY <1>1, <2>1
<1> QED BY <1>1, <1>2 DEF R, B

\* C's division gives that quotient, and its remainder the remainder.
LEMMA TruncDivides ==
  ASSUME NEW a \in Int, NEW b \in Int, b # 0
  PROVE  /\ IsQuotient(a, b, DivTrunc(a, b))
         /\ DivTrunc(a, b) \in Int /\ RemTrunc(a, b) = a - DivTrunc(a, b) * b
         /\ AbsValue(DivTrunc(a, b)) <= AbsValue(a)
<1> DEFINE A == AbsValue(a)
           B == AbsValue(b)
           k == A \div B
           s == A % B
           q == DivTrunc(a, b)
           r == a - q * b
<1>1. /\ A \in Nat /\ B \in Nat \ {0}
      /\ a = (IF a < 0 THEN -A ELSE A) /\ b = (IF b < 0 THEN -B ELSE B)
  BY DEF AbsValue
<1>2. q = (IF (a < 0) = (b < 0) THEN k ELSE -k) /\ RemTrunc(a, b) = (IF a < 0 THEN -s ELSE s)
  BY DEF DivTrunc, RemTrunc
<1> HIDE DEF A, B, q
<1>3. k \in Nat /\ s \in Nat /\ s < B /\ A = B * k + s
  BY <1>1
<1> HIDE DEF k, s
<1>4. r = (IF a < 0 THEN -s ELSE s) /\ q \in Int
  <2>1. CASE a < 0 /\ b < 0
    <3>1. q = k /\ a = -A /\ b = -B
      BY <1>1, <1>2, <2>1
    <3>2. k * (-B) = -(B * k)
      BY <1>1, <1>3
    <3>3. q * b = -(B * k)
      BY <3>1, <3>2
    <3> QED BY <1>1, <1>3, <2>1, <3>1, <3>3
  <2>2. CASE a < 0 /\ ~(b < 0)
    <3>1. q = -k /\ a = -A /\ b = B
      BY <1>1, <1>2, <2>2
    <3>2. (-k) * B = -(B * k)
      BY <1>1, <1>3
    <3>3. q * b = -(B * k)
      BY <3>1, <3>2
    <3> QED BY <1>1, <1>3, <2>2, <3>1, <3>3
  <2>3. CASE ~(a < 0) /\ b < 0
    <3>1. q = -k /\ a = A /\ b = -B
      BY <1>1, <1>2, <2>3
    <3>2. (-k) * (-B) = B * k
      BY <1>1, <1>3
    <3>3. q * b = B * k
      BY <3>1, <3>2
    <3> QED BY <1>1, <1>3, <2>3, <3>1, <3>3
  <2>4. CASE ~(a < 0) /\ ~(b < 0)
    <3>1. q = k /\ a = A /\ b = B
      BY <1>1, <1>2, <2>4
    <3>2. k * B = B * k
      BY <1>1, <1>3
    <3>3. q * b = B * k
      BY <3>1, <3>2
    <3> QED BY <1>1, <1>3, <2>4, <3>1, <3>3
  <2> QED BY <2>1, <2>2, <2>3, <2>4
<1>5. r * r < b * b
  <2>1. r * r = s * s
    <3>1. (-s) * (-s) = s * s
      BY <1>3
    <3> HIDE DEF r
    <3> QED BY <1>4, <3>1
  <2>2. b * b = B * B
    <3>1. (-B) * (-B) = B * B
      BY <1>1
    <3>2. b = B \/ b = -B
      BY <1>1
    <3>3. CASE b = B
      BY <3>3
    <3>4. CASE b = -B
      BY <3>1, <3>4
    <3> QED BY <3>2, <3>3, <3>4
  <2>3. s * s < B * B
    <3>1. s * s <= s * B /\ s * B < B * B
      BY <1>1, <1>3
    <3> QED BY <1>1, <1>3, <3>1
  <2> QED BY <2>1, <2>2, <2>3
<1>6. IsQuotient(a, b, q)
  <2> HIDE DEF r
  <2>1. r = 0 \/ (r < 0) = (a < 0)
    BY <1>3, <1>4
  <2> QED BY <1>5, <2>1 DEF IsQuotient, r
<1>7. AbsValue(q) <= A
  <2>1. AbsValue(q) = k
    BY <1>2, <1>3 DEF AbsValue
  <2>2. k <= A
    <3>1. B * k >= k
      BY <1>1, <1>3
    <3> QED BY <1>1, <1>3, <3>1
  <2> QED BY <2>1, <2>2
<1> QED BY <1>2, <1>4, <1>6, <1>7 DEF A, q

\* No other number is a quotient.
LEMMA OneQuotient ==
  ASSUME NEW a \in Int, NEW b \in Int, b # 0, NEW p \in Int, NEW q \in Int,
         IsQuotient(a, b, p), IsQuotient(a, b, q)
  PROVE  p = q
<1> DEFINE r == a - p * b
           s == a - q * b
           B == AbsValue(b)
           d == q - p
<1>1. r \in Int /\ s \in Int /\ B \in Nat \ {0} /\ d \in Int
  BY DEF AbsValue
<1>2. AbsValue(r) < B /\ AbsValue(s) < B
  BY <1>1, Squares DEF IsQuotient
<1>3. (r = 0 \/ (r < 0) = (a < 0)) /\ (s = 0 \/ (s < 0) = (a < 0))
  BY DEF IsQuotient
<1>4. r - s = d * b
  BY <1>1
<1> HIDE DEF r, s
<1>5. AbsValue(r - s) < B
  <2> HIDE DEF B
  <2> QED BY <1>1, <1>2, <1>3 DEF AbsValue
<1>6. AbsValue(d * b) < B
  BY <1>4, <1>5
<1> HIDE DEF d
<1>7. d = 0
  <2> SUFFICES ASSUME d # 0 PROVE FALSE
    OBVIOUS
  <2>1. CASE d >= 1 /\ b >= 1
    <3>1. d * b >= b
      BY <1>1, <2>1
    <3> QED BY <1>1, <1>6, <2>1, <3>1 DEF AbsValue
  <2>2. CASE d >= 1 /\ b <= -1
    <3>1. d * b <= b
      BY <1>1, <2>2
    <3> QED BY <1>1, <1>6, <2>2, <3>1 DEF AbsValue
  <2>3. CASE d <= -1 /\ b >= 1
    <3>1. d * b <= -b
      BY <1>1, <2>3
    <3> QED BY <1>1, <1>6, <2>3, <3>1 DEF AbsValue
  <2>4. CASE d <= -1 /\ b <= -1
    <3>1. d * b >= -b
      BY <1>1, <2>4
    <3> QED BY <1>1, <1>6, <2>4, <3>1 DEF AbsValue
  <2> QED BY <1>1, <2>1, <2>2, <2>3, <2>4
<1> QED BY <1>7 DEF d

\* So the quotient that RISC-V chooses is C's.
LEMMA QuotientIs ==
  ASSUME NEW a \in -WORD .. WORD, NEW b \in Int, b # 0
  PROVE  (CHOOSE q \in -WORD .. WORD : IsQuotient(a, b, q)) = DivTrunc(a, b)
<1> DEFINE t == DivTrunc(a, b)
<1>1. WORD \in Nat /\ a \in Int
  BY Widths
<1>2. t \in Int /\ IsQuotient(a, b, t) /\ AbsValue(t) <= AbsValue(a)
  BY <1>1, TruncDivides
<1> HIDE DEF t
<1>3. t \in -WORD .. WORD
  BY <1>1, <1>2 DEF AbsValue
<1>4. \A q \in -WORD .. WORD : IsQuotient(a, b, q) => q = t
  BY <1>1, <1>2, OneQuotient
<1> QED BY <1>2, <1>3, <1>4 DEF t

-----------------------------------------------------------------------------
(* The results of the arithmetic.                                          *)

\* A wrapped number is a word.
LEMMA WrapType ==
  ASSUME NEW n \in Int
  PROVE  Wrap(n) \in WordNum
<1>1. WORD \in Nat \ {0}
  BY Widths
<1> DEFINE w == WORD
<1>2. n % w \in 0 .. w - 1
  <2>1. w \in Nat \ {0}
    BY <1>1
  <2> HIDE DEF w
  <2> QED BY <2>1, Divided
<1> QED BY <1>2 DEF Wrap, WordNum

\* A word read as a signed number.
LEMMA SignedType ==
  ASSUME NEW n \in WordNum
  PROVE  Signed(n) \in -WORD .. WORD /\ Signed(n) \in Int /\ (Signed(n) = 0 <=> n = 0)
<1>1. n \in Nat /\ n <= WORD - 1 /\ WORD \in Nat
  BY Widths, SMT DEF WordNum
<1>2. WORD \div 2 \in Nat /\ 1 <= WORD \div 2
  BY Widths, SMT
<1>3. Signed(n) = n \/ (Signed(n) = n - WORD /\ n >= WORD \div 2)
  BY <1>1, <1>2 DEF Signed
<1> QED BY <1>1, <1>2, <1>3

\* Whatever the mode, the result is a word.
LEMMA AluType ==
  ASSUME NEW mode, NEW a \in WordNum, NEW b \in WordNum
  PROVE  Alu(mode, a, b) \in WordNum
<1> DEFINE s == b % XLEN
           w == WORD
<1>1. /\ a \in Nat /\ b \in Nat /\ w \in Nat \ {0} /\ a <= w - 1 /\ b <= w - 1 /\ 1 <= w - 1
      /\ WordNum = 0 .. w - 1
  BY Widths, SMT DEF WordNum
<1>2. s \in 0 .. XLEN - 1 /\ 2 ^ s \in Nat \ {0}
  <2>1. XLEN \in Nat \ {0}
    BY ByteBitsAssumption DEF XLEN
  <2>2. s \in 0 .. XLEN - 1
    BY <1>1, <2>1, Divided
  <2> HIDE DEF s
  <2> QED BY <2>1, <2>2, Power
<1> DEFINE p == 2 ^ s
<1>3. Wrap(a + b) \in WordNum /\ Wrap(a - b) \in WordNum /\ Wrap(a * b) \in WordNum
  BY <1>1, WrapType
<1>4. Wrap(a * p) \in WordNum /\ Wrap(Signed(a) \div p) \in WordNum
  <2>1. p \in Nat \ {0} /\ Signed(a) \in Int
    BY <1>2, SignedType
  <2> HIDE DEF p
  <2>2. Signed(a) \div p \in Int /\ a * p \in Int
    BY <1>1, <2>1
  <2> QED BY <2>2, WrapType
<1>5. a \div p \in WordNum
  BY <1>2, LogicalBits
<1>6. 0 \in WordNum /\ 1 \in WordNum /\ AllOnes \in WordNum
  BY <1>1 DEF AllOnes
<1> HIDE DEF s, w, p
<1>7. ASSUME NEW c PROVE Flag(c) \in WordNum
  BY <1>6 DEF Flag
<1>8. (a * b) \div WORD \in WordNum
  <2> DEFINE n == a * b
             q == n \div w
  <2>1. n \in Nat /\ q \in Nat /\ n = w * q + (n % w) /\ n % w \in 0 .. w - 1
    BY <1>1
  <2>2. n <= (w - 1) * (w - 1)
    <3> DEFINE d == w - 1
               x == d - a
               y == d - b
    <3>1. d \in Nat /\ x \in Nat /\ y \in Nat /\ a = d - x /\ b = d - y
      BY <1>1
    <3>2. a * b + (b * x) + (d * y) = d * d
      <4>1. a * b + b * x = b * d
        BY <1>1, <3>1
      <4>2. b * d + d * y = d * d
        BY <1>1, <3>1
      <4> QED BY <1>1, <3>1, <4>1, <4>2
    <3>3. b * x \in Nat /\ d * y \in Nat /\ a * b \in Nat /\ d * d \in Nat
      BY <1>1, <3>1
    <3> HIDE DEF d, x, y
    <3>4. a * b <= d * d
      BY <3>2, <3>3
    <3> QED BY <3>4 DEF d
  <2> HIDE DEF n, q
  <2>3. q <= w - 1
    <3>1. ASSUME q >= w PROVE FALSE
      <4>1. w * q >= w * w
        BY <1>1, <2>1, <3>1
      <4>2. (w - 1) * (w - 1) = w * w - 2 * w + 1
        BY <1>1
      <4> QED BY <1>1, <2>1, <2>2, <4>1, <4>2
    <3> QED BY <1>1, <2>1, <3>1
  <2>4. q \in WordNum
    BY <1>1, <2>1, <2>3
  <2> QED BY <2>4 DEF n, q, w
<1>9. b # 0 => a \div b \in WordNum /\ a % b \in WordNum
  <2>1. ASSUME b # 0 PROVE a \div b \in WordNum
    <3> DEFINE q == a \div b
    <3>1. q \in Nat /\ a = b * q + (a % b) /\ a % b \in 0 .. b - 1
      BY <1>1, <2>1
    <3> HIDE DEF q
    <3>2. b * q >= q
      BY <1>1, <2>1, <3>1
    <3>3. q <= a
      BY <1>1, <3>1, <3>2
    <3>4. q \in WordNum
      BY <1>1, <3>1, <3>3
    <3> QED BY <3>4 DEF q
  <2>2. ASSUME b # 0 PROVE a % b \in WordNum
    <3>1. a % b \in 0 .. b - 1
      BY <1>1, <2>2
    <3> QED BY <1>1, <3>1
  <2> QED BY <2>1, <2>2
<1>10. b # 0 => /\ Wrap(DivTrunc(Signed(a), Signed(b))) \in WordNum
                /\ Wrap(RemTrunc(Signed(a), Signed(b))) \in WordNum
  <2>1. ASSUME b # 0 
        PROVE  DivTrunc(Signed(a), Signed(b)) \in Int /\ RemTrunc(Signed(a), Signed(b)) \in Int
    <3> DEFINE x == Signed(a)
               y == Signed(b)
    <3>1. x \in Int /\ y \in Int /\ y # 0
      BY <2>1, SignedType
    <3> HIDE DEF x, y
    <3>2. DivTrunc(x, y) \in Int /\ RemTrunc(x, y) = x - DivTrunc(x, y) * y
      BY <3>1, TruncDivides
    <3> QED BY <3>1, <3>2 DEF x, y
  <2> QED BY <2>1, WrapType
<1>11. BitAnd(a, b) \in WordNum /\ BitOr(a, b) \in WordNum /\ BitXor(a, b) \in WordNum
  BY BitOpsType
<1> QED BY <1>3, <1>4, <1>5, <1>6, <1>7, <1>8, <1>9, <1>10, <1>11 DEF Alu, s, p

-----------------------------------------------------------------------------
(* The untagged queues.  Nothing here depends on what instructions compute. *)

\* A queue of at most one entry, its pointers in agreement with its count.
Queue(q) ==
  /\ DOMAIN q = {"read_ptr", "write_ptr", "count", "entry"}
  /\ DOMAIN q.entry = 0 .. FifoSize - 1
  /\ q.count \in {0, 1}
  /\ q.read_ptr \in 0 .. FifoSize - 1
  /\ q.write_ptr = IF q.count = 0 THEN q.read_ptr ELSE After(q.read_ptr)

QueuesInv ==
  /\ Queue(writeReq)
  /\ Queue(readReq) /\ Queue(readData)
  /\ Queue(fetchReq) /\ Queue(fetchData)

FlagsInv == {stalled, read_dispatched, fetch_in_progress} \subseteq BOOLEAN

\* The memory has served what was requested before the processor's turn.
ServedInv ==
  at = "cpu" => writeReq.count = 0 /\ readReq.count = 0 /\ fetchReq.count = 0

\* The word in flight is the one at pc.
FetchInv ==
  /\ fetchReq.count = 1 => Front(fetchReq) = pc
  /\ fetchData.count = 1 => Front(fetchData) = ReadWord(ram, pc)

\* Only a load that has a register to write stalls.
Loads(in)  == Opcodes[in.op].memory_mode = "LOAD" /\ in.rd # 0
StallInv == stalled => Loads(Decode[current_instr])

\* Before the first fetch of all, nothing has happened.
Fresh == cycle_cnt = 0 /\ pc = 0 /\ ~fetch_in_progress /\ ~stalled /\ retired = 0

\* run_cycle leaves with a fetch in flight and comes back to its loop while the
\* counter stands still.
PhaseInv ==
  /\ cycle_cnt \in Nat
  /\ cycle_cnt = 0 => Fresh
  /\ at \in {"load", "reset"} => Fresh /\ calls = 0
  /\ at \in {"memory", "cpu"} =>
       IF cycle_cnt = 0 THEN old_cycle = 0 ELSE LoopsAgain(cycle_cnt)
  /\ at \in {"main", "finished"} =>
       IF cycle_cnt = 0 THEN calls = 0 ELSE fetch_in_progress

Done == retired = 1 \/ (retired = 0 /\ AtException)

\* The instruction of this call is still to be fetched or to be completed, or
\* is done.
RetiredInv ==
  /\ at \in {"memory", "cpu"} =>
       IF fetch_in_progress \/ stalled THEN retired = 0 ELSE cycle_cnt = 0 \/ Done
  /\ at \in {"main", "finished"} => cycle_cnt = 0 \/ Done

Inv == QueuesInv /\ FlagsInv /\ OneInFlight /\ ServedInv /\ FetchInv /\ StallInv
       /\ PhaseInv /\ RetiredInv

-----------------------------------------------------------------------------
(* The queues.                                                             *)

\* An initialised queue is empty.
LEMMA NewQueue ==
  ASSUME NEW zero
  PROVE  Queue(NewFifo(zero)) /\ NewFifo(zero).count = 0
  BY FifoSizeAssumption DEF Queue, NewFifo

\* A cleared queue is empty.
LEMMA ClearQueue ==
  ASSUME NEW q, Queue(q)
  PROVE  Queue(Clear(q)) /\ Clear(q).count = 0
  BY FifoSizeAssumption DEF Queue, Clear

\* A push into an empty queue leaves what was pushed, alone, at its front.
LEMMA PushQueue ==
  ASSUME NEW q, Queue(q), q.count = 0, NEW v
  PROVE  Queue(Push(q, v)) /\ Push(q, v).count = 1 /\ Front(Push(q, v)) = v
<1>1. Push(q, v).count = 1 /\ Push(q, v).read_ptr = q.read_ptr
  BY DEF Queue, Push
<1>2. Push(q, v).write_ptr = After(q.read_ptr)
  BY DEF Queue, Push
<1>3. Push(q, v).entry = [q.entry EXCEPT ![q.read_ptr] = v]
  BY DEF Queue, Push
<1>4. DOMAIN Push(q, v) = DOMAIN q
  BY DEF Push
<1>5. DOMAIN Push(q, v).entry = DOMAIN q.entry
  BY <1>3
<1>6. Front(Push(q, v)) = v
  BY <1>1, <1>3 DEF Front, Queue
<1> QED BY <1>1, <1>2, <1>4, <1>5, <1>6 DEF Queue

\* A pop of the only entry leaves an empty queue.
LEMMA PopQueue ==
  ASSUME NEW q, Queue(q), q.count = 1
  PROVE  Queue(Pop(q)) /\ Pop(q).count = 0
<1>1. Pop(q).count = 0 /\ Pop(q).read_ptr = After(q.read_ptr)
  BY DEF Queue, Pop
<1>2. Pop(q).write_ptr = q.write_ptr /\ Pop(q).entry = q.entry
  BY DEF Queue, Pop
<1>3. DOMAIN Pop(q) = DOMAIN q
  BY DEF Pop
<1>4. After(q.read_ptr) \in 0 .. FifoSize - 1
  BY FifoSizeAssumption DEF Queue, After
<1> QED BY <1>1, <1>2, <1>3, <1>4 DEF Queue

\* With one entry at most, a queue is empty or has one, and a request always
\* finds room.
LEMMA Levels ==
  ASSUME NEW q, Queue(q)
  PROVE  /\ q.count = 0 \/ q.count = 1
         /\ Empty(q) <=> q.count = 0
         /\ q.count = 0 => ~Full(q)
  BY FifoSizeAssumption DEF Queue, Empty, Full

\* An instruction that raises an exception neither loads nor stores.
LEMMA TrapRows ==
  ASSUME NEW op \in Exceptions
  PROVE  Opcodes[op].memory_mode = "NONE"
  BY DEF Exceptions, Opcodes, Plain

-----------------------------------------------------------------------------
(* The memory's turn.                                                      *)

\* What the memory's turn does to the counts of the queues.
LEMMA ServeEffect ==
  ASSUME Inv, MemoryTurn
  PROVE  /\ QueuesInv' /\ OneInFlight' /\ FetchInv'
         /\ writeReq'.count = 0 /\ readReq'.count = 0 /\ fetchReq'.count = 0
         /\ AtException' = AtException
<1>1. /\ at = "memory" /\ at' = "cpu" /\ UNCHANGED <<pc, variant, cpuVars>>
      /\ MemoryRun
  BY DEF MemoryTurn, cpuVars
<1>2. /\ stalled' = stalled /\ fetch_in_progress' = fetch_in_progress
      /\ read_dispatched' = read_dispatched /\ pc' = pc /\ variant' = variant
  BY <1>1 DEF cpuVars
<1>3. /\ Queue(writeReq) /\ Queue(readReq) /\ Queue(readData)
      /\ Queue(fetchReq) /\ Queue(fetchData)
  BY DEF Inv, QueuesInv
<1>4. CASE CanWrite
  <2>1. ServeWrite /\ writeReq.count = 1
    BY <1>1, <1>3, <1>4, Levels DEF MemoryRun, CanWrite
  <2>2. ~stalled /\ ~fetch_in_progress
    BY <2>1 DEF Inv, OneInFlight
  <2>3. readReq.count = 0 /\ readData.count = 0 /\ fetchReq.count = 0 /\ fetchData.count = 0
    BY <1>3, <2>2, Levels DEF Inv, OneInFlight
  <2>4. Queue(writeReq') /\ writeReq'.count = 0
    BY <1>3, <2>1, PopQueue DEF ServeWrite
  <2>5. ArchMem' = ArchMem
    <3>1. ArchMem = Apply(ram, Front(writeReq))
      BY <1>3, <2>1, Levels DEF ArchMem
    <3>2. ArchMem' = ram'
      BY <2>4, Levels DEF ArchMem, Empty
    <3> QED BY <2>1, <3>1, <3>2 DEF ServeWrite
  <2>6. AtException' = AtException
    BY <1>2, <2>5 DEF AtException
  <2> QED BY <1>1, <1>2, <1>3, <2>1, <2>2, <2>3, <2>4, <2>6
      DEF ServeWrite, QueuesInv, OneInFlight, FetchInv
<1>5. CASE ~CanWrite /\ CanRead
  <2>1. ServeRead /\ readReq.count = 1 /\ writeReq.count = 0
    BY <1>1, <1>3, <1>5, Levels DEF MemoryRun, CanWrite, CanRead
  <2>2. stalled /\ ~fetch_in_progress /\ readData.count = 0
    BY <1>3, <2>1, Levels DEF Inv, OneInFlight
  <2>3. fetchReq.count = 0 /\ fetchData.count = 0
    BY <1>3, <2>2, Levels DEF Inv, OneInFlight
  <2>4. Queue(readReq') /\ readReq'.count = 0
    BY <1>3, <2>1, PopQueue DEF ServeRead
  <2>5. Queue(readData') /\ readData'.count = 1
    BY <1>3, <2>1, <2>2, PushQueue DEF ServeRead
  <2>6. AtException' = AtException
    BY <1>2, <2>1 DEF AtException, ArchMem, ServeRead
  <2> QED BY <1>1, <1>2, <1>3, <2>1, <2>2, <2>3, <2>4, <2>5, <2>6
      DEF ServeRead, QueuesInv, OneInFlight, FetchInv, Inv
<1>6. CASE ~CanWrite /\ ~CanRead
  <2>1. writeReq.count = 0 /\ readReq.count = 0
    BY <1>3, <1>6, Levels DEF CanWrite, CanRead, Inv, OneInFlight
  <2>2. CASE CanFetch
    <3>1. ServeFetch /\ fetchReq.count = 1
      BY <1>1, <1>3, <1>6, <2>2, Levels DEF MemoryRun, CanFetch
    <3>2. fetch_in_progress /\ ~stalled /\ fetchData.count = 0
      BY <1>3, <3>1, Levels DEF Inv, OneInFlight
    <3>3. Queue(fetchReq') /\ fetchReq'.count = 0
      BY <1>3, <3>1, PopQueue DEF ServeFetch
    <3>4. Queue(fetchData') /\ fetchData'.count = 1 /\ Front(fetchData') = ReadWord(ram, pc)
      BY <1>3, <3>1, <3>2, PushQueue DEF ServeFetch, Inv, FetchInv
    <3>5. AtException' = AtException
      BY <1>2, <3>1 DEF AtException, ArchMem, ServeFetch
    <3> QED BY <1>1, <1>2, <1>3, <2>1, <3>1, <3>2, <3>3, <3>4, <3>5
        DEF ServeFetch, QueuesInv, OneInFlight, FetchInv, Inv
  <2>3. CASE ~CanFetch
    <3>1. UNCHANGED memVars
      BY <1>1, <1>6, <2>3 DEF MemoryRun
    <3>2. fetchReq.count = 0
      BY <1>3, <2>3, Levels DEF CanFetch, Inv, OneInFlight
    <3>3. AtException' = AtException
      BY <1>2, <3>1 DEF AtException, ArchMem, memVars, queues
    <3> QED BY <1>1, <1>2, <1>3, <2>1, <3>1, <3>2, <3>3
        DEF memVars, queues, QueuesInv, OneInFlight, FetchInv, Inv
  <2> QED BY <2>2, <2>3
<1> QED BY <1>4, <1>5, <1>6

-----------------------------------------------------------------------------
(* The processor's turn.                                                   *)

\* What executing the instruction does to the flags and queues, of the word just
\* fetched: it is completed, or waits for a load, or raises an exception.
Completed ==
  /\ retired' = retired + 1 /\ ~stalled' /\ stalled' \in BOOLEAN
  /\ UNCHANGED readReq
  /\ readData'.count = 0 /\ Queue(readData')
  /\ \/ UNCHANGED writeReq
     \/ writeReq'.count = 1 /\ Queue(writeReq')

Waiting(in) ==
  /\ Loads(in)
  /\ UNCHANGED <<retired, pc, writeReq, readData>>
  /\ stalled' = TRUE /\ read_dispatched' = TRUE
  /\ readReq'.count = 1 /\ Queue(readReq')

Failed ==
  /\ UNCHANGED <<retired, pc, stalled, writeReq, readReq, readData>>

\* The first execution of an instruction completes it, stalls or fails.
LEMMA FirstExecution ==
  ASSUME Inv, at = "cpu", ~stalled, NEW in, NEW c, Execute(in, FALSE, c)
  PROVE  /\ cycle_cnt' = cycle_cnt
         /\ read_dispatched' \in BOOLEAN
         /\ Completed \/ Waiting(in)
              \/ (Failed /\ in.op \in Exceptions /\ variant = "model_verify")
<1> DEFINE row == Opcodes[in.op]
<1>1. /\ Queue(writeReq) /\ Queue(readReq) /\ Queue(readData)
      /\ writeReq.count = 0 /\ readReq.count = 0 /\ readData.count = 0
      /\ stalled = FALSE
  BY Levels DEF Inv, QueuesInv, ServedInv, OneInFlight, FlagsInv
<1>2. cycle_cnt' = cycle_cnt
  BY DEF Execute
<1>3. CASE /\ in.op \in Exceptions /\ RaiseException(c) /\ read_dispatched' = FALSE
           /\ UNCHANGED <<stalled, writeReq, readReq, readData>>
  BY <1>1, <1>2, <1>3 DEF RaiseException, Fails, Completed, Failed
<1>4. CASE /\ row.memory_mode = "STORE" /\ Store(in, row, c) /\ read_dispatched' = FALSE
           /\ UNCHANGED <<readReq, readData>>
  <2>1. /\ stalled' = FALSE /\ retired' = retired + 1
        /\ \E v : writeReq' = Push(writeReq, v)
    BY <1>1, <1>4, Levels DEF Store, MemoryWriteRequest, Completes
  <2>2. writeReq'.count = 1 /\ Queue(writeReq')
    BY <1>1, <2>1, PushQueue
  <2> QED BY <1>1, <1>2, <1>4, <2>1, <2>2 DEF Completed
<1>5. CASE Loads(in) /\ RequestLoad(in, c) /\ UNCHANGED <<writeReq, readData>>
  <2>1. /\ stalled' = TRUE /\ read_dispatched' = TRUE
        /\ UNCHANGED <<pc, retired>>
        /\ \E v : readReq' = Push(readReq, v)
    BY <1>1, <1>5, Levels DEF RequestLoad, MemoryReadRequest, Waits
  <2>2. readReq'.count = 1 /\ Queue(readReq')
    BY <1>1, <2>1, PushQueue
  <2> QED BY <1>1, <1>2, <1>5, <2>1, <2>2 DEF Waiting
<1>6. CASE /\ Completes(in, row, Result(in, row, c), c) /\ read_dispatched' = FALSE
           /\ UNCHANGED <<stalled, writeReq, readReq, readData>>
  BY <1>1, <1>2, <1>6 DEF Completes, Completed
<1> QED BY <1>2, <1>3, <1>4, <1>5, <1>6 DEF Execute, Loads

\* The stalled load finds its data and is completed.
LEMMA SecondExecution ==
  ASSUME Inv, at = "cpu", stalled, NEW c, Execute(Decode[current_instr], read_dispatched, c)
  PROVE  cycle_cnt' = cycle_cnt /\ read_dispatched' \in BOOLEAN /\ Completed
<1> DEFINE in == Decode[current_instr]
           row == Opcodes[in.op]
<1>1. /\ Queue(readReq) /\ Queue(readData) /\ readReq.count = 0 /\ readData.count = 1
      /\ read_dispatched = TRUE /\ row.memory_mode = "LOAD" /\ in.rd # 0
  BY Levels DEF Inv, QueuesInv, ServedInv, OneInFlight, FlagsInv, StallInv, Loads
<1>2. in.op \notin Exceptions
  BY <1>1, TrapRows
<1>3. TakeLoad(in, row, c) /\ read_dispatched' = read_dispatched /\ UNCHANGED <<writeReq, readReq>>
  BY <1>1, <1>2 DEF Execute
<1>4. /\ stalled' = FALSE /\ readData' = Pop(readData) /\ retired' = retired + 1
  <2>1. ~Empty(readData)
    BY <1>1, Levels
  <2> QED BY <1>3, <2>1 DEF TakeLoad, MemoryReadData, Completes
<1>5. Queue(readData') /\ readData'.count = 0
  BY <1>1, <1>4, PopQueue
<1> QED BY <1>1, <1>3, <1>4, <1>5 DEF Execute, Completed

\* What RiscvRun leaves alone.
LEMMA RunFrame ==
  ASSUME RiscvRun
  PROVE  at = "cpu" /\ UNCHANGED <<variant, calls, old_cycle, ram>>
  BY DEF RiscvRun

\* Nothing is requested from a pc that is not aligned.
LEMMA MisalignedInv ==
  ASSUME Inv, RiscvRun, NEW c, Misaligned(c)
  PROVE  Inv'
<1>1. /\ UNCHANGED <<variant, calls, old_cycle, ram, pc, retired, cycle_cnt, queues>>
      /\ UNCHANGED <<stalled, read_dispatched, fetch_in_progress, current_instr>>
      /\ at = "cpu" /\ pc % 4 # 0
  BY RunFrame DEF Misaligned, Fails, Untouched
<1>2. cycle_cnt # 0 /\ LoopsAgain(cycle_cnt)
  BY <1>1 DEF Inv, PhaseInv, Fresh
<1>3. at' = "memory"
  BY <1>1, <1>2 DEF Misaligned, NextTurn
<1>4. AtException' = AtException
  BY <1>1 DEF AtException, ArchMem, queues
<1>5. QueuesInv' /\ FlagsInv' /\ FetchInv' /\ StallInv' /\ ServedInv'
  BY <1>1, <1>3 DEF Inv, queues, QueuesInv, FlagsInv, FetchInv, StallInv, Loads, ServedInv
<1>6. OneInFlight'
  BY <1>1, <1>3 DEF Inv, queues, OneInFlight
<1>7. PhaseInv'
  BY <1>1, <1>2, <1>3 DEF Inv, PhaseInv, Fresh, LoopsAgain
<1>8. RetiredInv'
  BY <1>1, <1>2, <1>3, <1>4 DEF Inv, RetiredInv, Done
<1> QED BY <1>5, <1>6, <1>7, <1>8 DEF Inv

\* The fetch that ends a call, or starts the first.
LEMMA AwaitFetchInv ==
  ASSUME Inv, RiscvRun, NEW c, AwaitFetch(c)
  PROVE  Inv'
<1>1. /\ UNCHANGED <<variant, calls, old_cycle, ram, pc, retired>>
      /\ UNCHANGED <<stalled, read_dispatched, current_instr,
                     writeReq, readReq, readData, fetchData>>
      /\ at = "cpu"
  BY RunFrame DEF AwaitFetch, Fails, Waits
<1>2. /\ Queue(writeReq) /\ Queue(readReq) /\ Queue(readData)
      /\ Queue(fetchReq) /\ Queue(fetchData)
      /\ writeReq.count = 0 /\ readReq.count = 0 /\ fetchReq.count = 0
  BY <1>1 DEF Inv, QueuesInv, ServedInv
<1>3. ~fetch_in_progress /\ ~stalled
  <2>1. fetch_in_progress => fetchData.count = 1 /\ ~stalled
    BY <1>2, Levels DEF Inv, OneInFlight
  <2> QED BY <1>2, <2>1, Levels DEF AwaitFetch
<1>4. /\ fetchReq' = Push(fetchReq, pc) /\ fetch_in_progress' = TRUE
      /\ cycle_cnt' = cycle_cnt + 1
  BY <1>2, <1>3, Levels DEF AwaitFetch, MemoryFetchRequest
<1>5. Queue(fetchReq') /\ fetchReq'.count = 1 /\ Front(fetchReq') = pc
  BY <1>2, <1>4, PushQueue
<1>6. readData.count = 0 /\ fetchData.count = 0
  BY <1>2, <1>3, Levels DEF Inv, OneInFlight
<1>7. at' = IF cycle_cnt = 0 THEN "memory" ELSE "main"
  BY <1>1, <1>4 DEF AwaitFetch, NextTurn, LoopsAgain, Inv, PhaseInv
<1>8. AtException' = AtException
  BY <1>1 DEF AtException, ArchMem
<1>9. cycle_cnt \in Nat /\ (cycle_cnt = 0 => old_cycle = 0 /\ retired = 0)
  BY <1>1 DEF Inv, PhaseInv, Fresh
<1>10. QueuesInv' /\ FlagsInv' /\ FetchInv' /\ StallInv' /\ ServedInv'
  BY <1>1, <1>2, <1>3, <1>4, <1>5, <1>6, <1>7
     DEF Inv, QueuesInv, FlagsInv, FetchInv, StallInv, ServedInv
<1>11. OneInFlight'
  BY <1>1, <1>2, <1>3, <1>4, <1>5, <1>6 DEF OneInFlight
<1>12. PhaseInv'
  BY <1>1, <1>4, <1>7, <1>9 DEF PhaseInv, LoopsAgain
<1>13. RetiredInv'
  BY <1>1, <1>3, <1>4, <1>7, <1>8, <1>9 DEF Inv, RetiredInv, Done
<1> QED BY <1>10, <1>11, <1>12, <1>13 DEF Inv

\* The word that arrives is taken once and executed.
LEMMA TakeFetchInv ==
  ASSUME Inv, RiscvRun, NEW c, TakeFetch(c)
  PROVE  Inv'
<1> DEFINE in == Decode[Fetched]
<1>1. /\ UNCHANGED <<variant, calls, old_cycle, ram, fetchReq>>
      /\ at = "cpu" /\ ~stalled /\ fetch_in_progress
      /\ fetch_in_progress' = FALSE /\ current_instr' = Fetched
      /\ fetchData' = Pop(fetchData)
  BY RunFrame DEF TakeFetch, MemoryFetchData
<1>2. /\ Queue(writeReq) /\ Queue(readReq) /\ Queue(readData)
      /\ Queue(fetchReq) /\ Queue(fetchData)
      /\ writeReq.count = 0 /\ readReq.count = 0 /\ fetchReq.count = 0
      /\ readData.count = 0 /\ fetchData.count = 1 /\ stalled = FALSE
  BY <1>1, Levels DEF Inv, QueuesInv, ServedInv, OneInFlight, FlagsInv
<1>3. Queue(fetchData') /\ fetchData'.count = 0
  BY <1>1, <1>2, PopQueue
<1>4. /\ cycle_cnt \in Nat /\ cycle_cnt # 0 /\ LoopsAgain(cycle_cnt) /\ retired = 0
  BY <1>1 DEF Inv, PhaseInv, Fresh, RetiredInv
<1>5. /\ cycle_cnt' = cycle_cnt /\ read_dispatched' \in BOOLEAN
      /\ Completed \/ Waiting(in)
           \/ (Failed /\ (in.op = "invalid"
                          \/ (in.op \in Exceptions /\ variant = "model_verify")))
  <2>1. CASE in.op = "invalid"
    BY <2>1 DEF TakeFetch, Fails, Failed
  <2>2. CASE in.op # "invalid"
    <3>1. Execute(in, FALSE, c)
      BY <2>2 DEF TakeFetch
    <3> QED BY <1>1, <3>1, FirstExecution
  <2> QED BY <2>1, <2>2
<1>6. at' = "memory"
  BY <1>4, <1>5 DEF TakeFetch, NextTurn
<1>7. PhaseInv'
  BY <1>1, <1>4, <1>5, <1>6 DEF PhaseInv, LoopsAgain
<1>8. CASE Completed
  <2>1. QueuesInv' /\ FlagsInv' /\ FetchInv' /\ StallInv' /\ ServedInv'
    <3>1. QueuesInv'
      BY <1>1, <1>2, <1>3, <1>8 DEF Completed, QueuesInv
    <3>2. FlagsInv'
      BY <1>1, <1>2, <1>5, <1>8 DEF Completed, FlagsInv
    <3>3. FetchInv'
      BY <1>1, <1>2, <1>3 DEF FetchInv
    <3>4. StallInv'
      BY <1>1, <1>2, <1>8 DEF Completed, StallInv, Loads
    <3>5. ServedInv'
      BY <1>6 DEF ServedInv
    <3> QED BY <3>1, <3>2, <3>3, <3>4, <3>5
  <2>2. OneInFlight'
    BY <1>1, <1>2, <1>3, <1>6, <1>8 DEF Completed, OneInFlight
  <2>3. RetiredInv'
    BY <1>1, <1>4, <1>6, <1>8 DEF Completed, RetiredInv, Done
  <2> QED BY <1>7, <2>1, <2>2, <2>3 DEF Inv
<1>9. CASE Waiting(in)
  <2>1. QueuesInv' /\ FlagsInv' /\ FetchInv' /\ StallInv' /\ ServedInv'
    <3>1. QueuesInv'
      BY <1>1, <1>2, <1>3, <1>9 DEF Waiting, QueuesInv
    <3>2. FlagsInv'
      BY <1>1, <1>2, <1>5, <1>9 DEF Waiting, FlagsInv
    <3>3. FetchInv'
      BY <1>1, <1>2, <1>3 DEF FetchInv
    <3>4. StallInv'
      BY <1>1, <1>2, <1>9 DEF Waiting, StallInv, Loads
    <3>5. ServedInv'
      BY <1>6 DEF ServedInv
    <3> QED BY <3>1, <3>2, <3>3, <3>4, <3>5
  <2>2. OneInFlight'
    BY <1>1, <1>2, <1>3, <1>6, <1>9 DEF Waiting, OneInFlight
  <2>3. RetiredInv'
    BY <1>1, <1>4, <1>6, <1>9 DEF Waiting, RetiredInv, Done
  <2> QED BY <1>7, <2>1, <2>2, <2>3 DEF Inv
<1>10. CASE Failed /\ (in.op = "invalid"
                        \/ (in.op \in Exceptions /\ variant = "model_verify"))
  <2>1. QueuesInv' /\ FlagsInv' /\ FetchInv' /\ StallInv' /\ ServedInv'
    <3>1. QueuesInv'
      BY <1>1, <1>2, <1>3, <1>10 DEF Failed, QueuesInv
    <3>2. FlagsInv'
      BY <1>1, <1>2, <1>5, <1>10 DEF Failed, FlagsInv
    <3>3. FetchInv'
      BY <1>1, <1>2, <1>3 DEF FetchInv
    <3>4. StallInv'
      BY <1>1, <1>2, <1>10 DEF Failed, StallInv, Loads
    <3>5. ServedInv'
      BY <1>6 DEF ServedInv
    <3> QED BY <3>1, <3>2, <3>3, <3>4, <3>5
  <2>2. OneInFlight'
    BY <1>1, <1>2, <1>3, <1>6, <1>10 DEF Failed, OneInFlight
  <2>3. AtException'
    <3>1. ArchMem' = ram /\ pc' = pc
      BY <1>1, <1>2, <1>10, Levels DEF Failed, ArchMem
    <3>2. Front(fetchData) = ReadWord(ram, pc)
      BY <1>2 DEF Inv, FetchInv
    <3>3. Decode[Number(ReadWord(ArchMem, pc))]' = in
      BY <3>1, <3>2 DEF Fetched
    <3> QED BY <1>1, <1>10, <3>3 DEF AtException
  <2>4. RetiredInv'
    BY <1>1, <1>4, <1>6, <1>10, <2>3 DEF Failed, RetiredInv, Done
  <2> QED BY <1>7, <2>1, <2>2, <2>4 DEF Inv
<1> QED BY <1>5, <1>8, <1>9, <1>10

\* A stalled instruction is executed again until its data is there.
LEMMA RetryInv ==
  ASSUME Inv, RiscvRun, NEW c, Retry(c)
  PROVE  Inv'
<1>1. /\ UNCHANGED <<variant, calls, old_cycle, ram, fetch_in_progress, current_instr,
                     fetchReq, fetchData>>
      /\ at = "cpu" /\ stalled /\ ~fetch_in_progress
  BY RunFrame DEF Retry
<1>2. /\ Queue(fetchReq) /\ Queue(fetchData) /\ Queue(readReq) /\ Queue(writeReq)
      /\ writeReq.count = 0 /\ readReq.count = 0 /\ fetchReq.count = 0
      /\ fetchData.count = 0
  BY <1>1, Levels DEF Inv, QueuesInv, ServedInv, OneInFlight
<1>3. cycle_cnt' = cycle_cnt /\ read_dispatched' \in BOOLEAN /\ Completed
  BY <1>1, SecondExecution DEF Retry
<1>4. /\ cycle_cnt \in Nat /\ cycle_cnt # 0 /\ LoopsAgain(cycle_cnt) /\ retired = 0
  BY <1>1 DEF Inv, PhaseInv, Fresh, RetiredInv
<1>5. at' = "memory"
  BY <1>3, <1>4 DEF Retry, NextTurn
<1>6. QueuesInv' /\ FlagsInv' /\ FetchInv' /\ StallInv' /\ ServedInv'
  BY <1>1, <1>2, <1>3, <1>5
     DEF Completed, Inv, QueuesInv, FlagsInv, FetchInv, StallInv, ServedInv
<1>7. OneInFlight'
  BY <1>1, <1>2, <1>3, <1>5 DEF Completed, OneInFlight
<1>8. PhaseInv'
  BY <1>1, <1>3, <1>4, <1>5 DEF PhaseInv, LoopsAgain
<1>9. RetiredInv'
  BY <1>1, <1>3, <1>4, <1>5 DEF Completed, RetiredInv, Done
<1> QED BY <1>6, <1>7, <1>8, <1>9 DEF Inv

-----------------------------------------------------------------------------
(* main, and the theorems.                                                 *)

\* The invariant holds when main starts.
LEMMA InitInv == Init => Inv
<1> SUFFICES ASSUME Init PROVE Inv
  OBVIOUS
<1>1. /\ Queue(writeReq) /\ Queue(readReq) /\ Queue(readData)
      /\ Queue(fetchReq) /\ Queue(fetchData)
      /\ writeReq.count = 0 /\ readReq.count = 0 /\ readData.count = 0
      /\ fetchReq.count = 0 /\ fetchData.count = 0
  BY NewQueue DEF Init, MemoryInit
<1>2. QueuesInv /\ FetchInv
  BY <1>1 DEF QueuesInv, FetchInv
<1>3. FlagsInv /\ StallInv /\ ServedInv /\ OneInFlight
  <2>1. /\ at = "load" /\ stalled = FALSE /\ read_dispatched = FALSE
        /\ fetch_in_progress = FALSE
    BY DEF Init
  <2>2. FlagsInv /\ StallInv /\ ServedInv
    BY <2>1 DEF FlagsInv, StallInv, ServedInv
  <2>3. OneInFlight
    BY <1>1, <2>1 DEF OneInFlight
  <2> QED BY <2>2, <2>3
<1>4. PhaseInv /\ RetiredInv
  BY DEF Init, PhaseInv, Fresh, RetiredInv
<1> QED BY <1>2, <1>3, <1>4 DEF Inv

\* The actions of main, which touch neither flags nor answers in flight.
LEMMA MainInv ==
  ASSUME Inv, Load \/ RiscvReset \/ RunCycle \/ Finish \/ DivideTrap
  PROVE  Inv'
<1>1. CASE Load
  <2>1. /\ at = "load" /\ at' \in {"load", "reset"}
        /\ UNCHANGED <<calls, queues, cycle_cnt, pc, stalled, read_dispatched,
                       fetch_in_progress, current_instr, retired>>
    BY <1>1 DEF Load, cpuVars
  <2>2. Fresh /\ calls = 0 /\ cycle_cnt = 0
    BY <2>1 DEF Inv, PhaseInv, Fresh
  <2>3. fetchReq.count = 0 /\ fetchData.count = 0 /\ writeReq.count = 0
    BY <2>1, <2>2, Levels DEF Inv, QueuesInv, OneInFlight, Fresh
  <2>4. QueuesInv' /\ FlagsInv' /\ FetchInv' /\ StallInv' /\ ServedInv' /\ OneInFlight'
    BY <2>1, <2>2, <2>3 DEF Inv, queues, QueuesInv, FlagsInv, FetchInv, StallInv, Loads,
       ServedInv, OneInFlight, Fresh
  <2>5. PhaseInv' /\ RetiredInv'
    BY <2>1, <2>2 DEF PhaseInv, Fresh, RetiredInv
  <2> QED BY <2>4, <2>5 DEF Inv
<1>2. CASE RiscvReset
  <2>1. /\ at = "reset" /\ at' = "main" /\ cycle_cnt' = 0 /\ pc' = 0
        /\ UNCHANGED <<calls, fetchReq, stalled, read_dispatched,
                       fetch_in_progress, current_instr, retired>>
        /\ readData' = Clear(readData) /\ fetchData' = Clear(fetchData)
        /\ writeReq' = Clear(writeReq) /\ readReq' = Clear(readReq)
    BY <1>2 DEF RiscvReset, MemoryReset
  <2>2. Fresh /\ calls = 0
    BY <2>1 DEF Inv, PhaseInv
  <2>3. Queue(fetchReq) /\ fetchReq.count = 0
    BY <2>1, <2>2, Levels DEF Inv, QueuesInv, OneInFlight, Fresh
  <2>4. /\ Queue(readData') /\ readData'.count = 0 /\ Queue(fetchData') /\ fetchData'.count = 0
        /\ Queue(writeReq') /\ writeReq'.count = 0 /\ Queue(readReq') /\ readReq'.count = 0
    BY <2>1, ClearQueue DEF Inv, QueuesInv
  <2>5. QueuesInv' /\ FlagsInv' /\ FetchInv' /\ StallInv' /\ ServedInv' /\ OneInFlight'
    BY <2>1, <2>2, <2>3, <2>4 DEF Inv, QueuesInv, FlagsInv, FetchInv, StallInv,
       ServedInv, OneInFlight, Fresh
  <2>6. PhaseInv' /\ RetiredInv'
    BY <2>1, <2>2 DEF PhaseInv, Fresh, RetiredInv
  <2> QED BY <2>5, <2>6 DEF Inv
<1>3. CASE RunCycle
  <2>1. /\ at = "main" /\ at' = "memory" /\ old_cycle' = cycle_cnt /\ retired' = 0
        /\ UNCHANGED <<ram, queues, variant, cycle_cnt, pc, stalled, read_dispatched,
                       fetch_in_progress, current_instr>>
    BY <1>3 DEF RunCycle, memVars
  <2>2. QueuesInv' /\ FlagsInv' /\ FetchInv' /\ StallInv' /\ ServedInv'
    BY <2>1 DEF Inv, queues, QueuesInv, FlagsInv, FetchInv, StallInv, Loads, ServedInv
  <2>3. OneInFlight'
    BY <2>1 DEF Inv, queues, OneInFlight
  <2>4. PhaseInv'
    BY <2>1 DEF Inv, PhaseInv, Fresh, LoopsAgain
  <2>5. RetiredInv'
    BY <2>1 DEF Inv, PhaseInv, RetiredInv
  <2> QED BY <2>2, <2>3, <2>4, <2>5 DEF Inv
<1>4. CASE Finish \/ DivideTrap
  <2>1. /\ at' \in {"finished", "crashed"}
        /\ at' = "finished" => at = "main"
        /\ at # "memory"
        /\ UNCHANGED <<ram, queues, variant, calls, old_cycle, cycle_cnt, pc, stalled,
                       read_dispatched, fetch_in_progress, current_instr, retired>>
    BY <1>4 DEF Finish, DivideTrap, memVars, cpuVars
  <2>2. AtException' = AtException
    BY <2>1 DEF AtException, ArchMem, queues
  <2>3. QueuesInv' /\ FlagsInv' /\ FetchInv' /\ StallInv' /\ ServedInv'
    BY <2>1 DEF Inv, queues, QueuesInv, FlagsInv, FetchInv, StallInv, Loads, ServedInv
  <2>4. OneInFlight'
    BY <2>1 DEF Inv, queues, OneInFlight
  <2>5. PhaseInv' /\ RetiredInv'
    BY <2>1, <2>2 DEF Inv, PhaseInv, Fresh, RetiredInv, Done
  <2> QED BY <2>3, <2>4, <2>5 DEF Inv
<1> QED BY <1>1, <1>2, <1>3, <1>4

\* Every step keeps the invariant.
LEMMA StepInv ==
  ASSUME Inv, [Next]_vars
  PROVE  Inv'
<1>1. CASE MemoryTurn
  <2>1. /\ at = "memory" /\ at' = "cpu"
        /\ UNCHANGED <<calls, old_cycle, cycle_cnt, pc, stalled, read_dispatched,
                       fetch_in_progress, current_instr, retired>>
    BY <1>1 DEF MemoryTurn, cpuVars
  <2>2. FlagsInv' /\ StallInv' /\ ServedInv'
    BY <1>1, <2>1, ServeEffect DEF Inv, FlagsInv, StallInv, Loads, ServedInv
  <2>3. PhaseInv' /\ RetiredInv'
    BY <1>1, <2>1, ServeEffect DEF Inv, PhaseInv, Fresh, LoopsAgain, RetiredInv, Done
  <2> QED BY <1>1, <2>2, <2>3, ServeEffect DEF Inv
<1>2. CASE RiscvRun
  <2>1. PICK c : Misaligned(c) \/ AwaitFetch(c) \/ TakeFetch(c) \/ Retry(c)
    BY <1>2 DEF RiscvRun
  <2> QED BY <1>2, <2>1, MisalignedInv, AwaitFetchInv, TakeFetchInv, RetryInv
<1>3. CASE UNCHANGED vars
  <2>1. UNCHANGED <<variant, at, calls, old_cycle, cycle_cnt, pc, stalled, read_dispatched,
                    fetch_in_progress, current_instr, retired, ram, queues>>
    BY <1>3 DEF vars, cpuVars, memVars
  <2>2. AtException' = AtException
    BY <2>1 DEF AtException, ArchMem, queues
  <2>3. QueuesInv' /\ FlagsInv' /\ FetchInv' /\ StallInv' /\ ServedInv' /\ OneInFlight'
    BY <2>1 DEF Inv, queues, QueuesInv, FlagsInv, FetchInv, StallInv, Loads, ServedInv,
       OneInFlight
  <2>4. PhaseInv' /\ RetiredInv'
    BY <2>1, <2>2 DEF Inv, PhaseInv, Fresh, LoopsAgain, RetiredInv, Done
  <2> QED BY <2>3, <2>4 DEF Inv
<1> QED BY <1>1, <1>2, <1>3, MainInv DEF Next

\* It holds in every reachable state.
LEMMA InvHolds == Spec => []Inv
  BY InitInv, StepInv, PTL DEF Spec

\* At most one answer is awaited at a time, whatever program runs: an answer
\* needs no tag, and no load or fetch overtakes a posted store.
THEOREM InFlightCorrect == Spec => []OneInFlight
  BY InvHolds, PTL DEF Inv

\* run_cycle completes one instruction per call, however often the instruction
\* stalls, unless the instruction is one that never completes.
THEOREM CycleCorrect == Spec => []OneInstructionPerCycle
<1>1. Inv => OneInstructionPerCycle
  BY DEF Inv, PhaseInv, RetiredInv, Done, OneInstructionPerCycle
<1> QED BY <1>1, InvHolds, PTL

-----------------------------------------------------------------------------
(* The words and the memory of the emulator are those of the machine.      *)

\* The abstract machine computes with the emulator's words.
LEMMA SameWords ==
  /\ Machine!XLEN = XLEN /\ Machine!WORD = WORD /\ Machine!BYTE = BYTE
  /\ Machine!WordNum = WordNum /\ Machine!Lane = Lane /\ Machine!NoBytes = NoBytes
  /\ Machine!Reg = Reg /\ Machine!Loc = Location /\ Machine!BitIndex = BitIndex
  BY DEF Machine!XLEN, Machine!WORD, Machine!BYTE, Machine!WordNum, Machine!Lane,
     Machine!NoBytes, Machine!Reg, Machine!Loc, Machine!BitIndex,
     XLEN, WORD, BYTE, WordNum, Lane, NoBytes, Reg, Location, BitIndex

\* The operators
LEMMA SameOperators ==
  ASSUME NEW a, NEW b
  PROVE  /\ Machine!Wrap(a) = Wrap(a) /\ Machine!Signed(a) = Signed(a)
         /\ Machine!Bit(a, b) = Bit(a, b) /\ Machine!OfBits(a) = OfBits(a)
         /\ Machine!Bytes(a) = Bytes(a) /\ Machine!Number(a) = Number(a)
         /\ Machine!BitNot(a) = BitNot(a) /\ Machine!BitAnd(a, b) = BitAnd(a, b)
         /\ Machine!BitOr(a, b) = BitOr(a, b) /\ Machine!BitXor(a, b) = BitXor(a, b)
<1>1. Machine!Wrap(a) = Wrap(a) /\ Machine!Signed(a) = Signed(a) /\ Machine!BitNot(a) = BitNot(a)
  BY SameWords DEF Machine!Wrap, Wrap, Machine!Signed, Signed, Machine!BitNot, BitNot
<1>2. Machine!Bit(a, b) = Bit(a, b)
  BY DEF Machine!Bit, Bit
<1>3. Machine!OfBits(a) = OfBits(a)
  BY Zenon DEF Machine!OfBits, OfBits, Machine!XLEN, XLEN
<1>4. Machine!Bytes(a) = Bytes(a) /\ Machine!Number(a) = Number(a)
  BY Zenon DEF Machine!Bytes, Bytes, Machine!Number, Number, Machine!BYTE, BYTE, Machine!Lane, Lane
<1>5. Machine!BitAnd(a, b) = BitAnd(a, b)
  BY Zenon DEF Machine!BitAnd, BitAnd, Machine!OfBits, OfBits, Machine!BitIndex, BitIndex, Machine!Bit, Bit,
     Machine!XLEN, XLEN
<1>6. Machine!BitOr(a, b) = BitOr(a, b)
  BY Zenon DEF Machine!BitOr, BitOr, Machine!OfBits, OfBits, Machine!BitIndex, BitIndex, Machine!Bit, Bit,
     Machine!XLEN, XLEN
<1>7. Machine!BitXor(a, b) = BitXor(a, b)
  BY Zenon DEF Machine!BitXor, BitXor, Machine!OfBits, OfBits, Machine!BitIndex, BitIndex, Machine!Bit, Bit,
     Machine!XLEN, XLEN
<1> QED BY <1>1, <1>2, <1>3, <1>4, <1>5, <1>6, <1>7

-----------------------------------------------------------------------------
(* The memory.                                                             *)

\* Powers of a byte's size.
LEMMA BytePowers ==
  /\ BYTE \in {4, 16, 256} /\ BYTE ^ 0 = 1 /\ BYTE ^ 1 = BYTE
  /\ BYTE ^ 2 = BYTE * BYTE /\ BYTE ^ 3 = BYTE * BYTE * BYTE
  /\ (BYTE = 4 /\ WORD = 256) \/ (BYTE = 16 /\ WORD = 65536)
       \/ (BYTE = 256 /\ WORD = 4294967296)
<1>1. CASE ByteBits = 2
  BY <1>1, SMTT(20) DEF WORD, XLEN, BYTE
<1>2. CASE ByteBits = 4
  BY <1>2, SMTT(20) DEF WORD, XLEN, BYTE
<1>3. CASE ByteBits = 8
  BY <1>3, SMTT(20) DEF WORD, XLEN, BYTE
<1> QED BY <1>1, <1>2, <1>3, ByteBitsAssumption, SMT

\* A number's bytes.
LEMMA BytesType ==
  ASSUME NEW n \in Int
  PROVE  Bytes(n) \in WordBytes
<1>1. ASSUME NEW i \in Lane PROVE (n \div (BYTE ^ i)) % BYTE \in 0 .. BYTE - 1
  <2>1. BYTE ^ i \in Nat \ {0} /\ BYTE \in Nat \ {0}
    <3>1. i = 0 \/ i = 1 \/ i = 2 \/ i = 3
      BY DEF Lane
    <3> QED BY <3>1, BytePowers
  <2> DEFINE p == BYTE ^ i
             q == n \div p
  <2>2. q \in Int
    BY <2>1
  <2> HIDE DEF q
  <2> QED BY <2>1, <2>2
<1> QED BY <1>1 DEF Bytes, WordBytes

\* The number of a word's bytes.
LEMMA NumberType ==
  ASSUME NEW b \in WordBytes
  PROVE  Number(b) \in WordNum
<1>1. b[0] \in 0 .. BYTE - 1 /\ b[1] \in 0 .. BYTE - 1 /\ b[2] \in 0 .. BYTE - 1
      /\ b[3] \in 0 .. BYTE - 1
  BY DEF WordBytes, Lane
<1> DEFINE w == b[0]
           x == b[1]
           y == b[2]
           z == b[3]
<1>2. Number(b) = w + BYTE * x + (BYTE * BYTE) * y + (BYTE * BYTE * BYTE) * z
  BY BytePowers DEF Number
<1> HIDE DEF w, x, y, z
<1>3. w \in 0 .. BYTE - 1 /\ x \in 0 .. BYTE - 1 /\ y \in 0 .. BYTE - 1 /\ z \in 0 .. BYTE - 1
  BY <1>1 DEF w, x, y, z
<1>4. CASE BYTE = 4
  <2>1. BYTE * BYTE = 16 /\ BYTE * BYTE * BYTE = 64
    BY <1>4, SMT
  <2>2. Number(b) = w + 4 * x + 16 * y + 64 * z
    BY <1>2, <1>4, <2>1, SMT
  <2>3. WORD = 256
    BY <1>4, BytePowers, SMT
  <2>4. /\ w \in Int /\ 0 <= w /\ w <= 3 /\ x \in Int /\ 0 <= x /\ x <= 3
        /\ y \in Int /\ 0 <= y /\ y <= 3 /\ z \in Int /\ 0 <= z /\ z <= 3
    BY <1>3, <1>4, SMT
  <2>5. Number(b) \in Int /\ 0 <= Number(b) /\ Number(b) <= 255
    BY <2>2, <2>4, SMT
  <2>6. Number(b) <= WORD - 1
    BY <2>3, <2>5, SMT
  <2> QED BY <2>5, <2>6 DEF WordNum
<1>5. CASE BYTE = 16
  <2>1. BYTE * BYTE = 256 /\ BYTE * BYTE * BYTE = 4096
    BY <1>5, SMT
  <2>2. Number(b) = w + 16 * x + 256 * y + 4096 * z
    BY <1>2, <1>5, <2>1, SMT
  <2>3. WORD = 65536
    BY <1>5, BytePowers, SMT
  <2>4. /\ w \in Int /\ 0 <= w /\ w <= 15 /\ x \in Int /\ 0 <= x /\ x <= 15
        /\ y \in Int /\ 0 <= y /\ y <= 15 /\ z \in Int /\ 0 <= z /\ z <= 15
    BY <1>3, <1>5, SMT
  <2>5. Number(b) \in Int /\ 0 <= Number(b) /\ Number(b) <= 65535
    BY <2>2, <2>4, SMT
  <2>6. Number(b) <= WORD - 1
    BY <2>3, <2>5, SMT
  <2> QED BY <2>5, <2>6 DEF WordNum
<1>6. CASE BYTE = 256
  <2>1. BYTE * BYTE = 65536 /\ BYTE * BYTE * BYTE = 16777216
    BY <1>6, SMT
  <2>2. Number(b) = w + 256 * x + 65536 * y + 16777216 * z
    BY <1>2, <1>6, <2>1, SMT
  <2>3. WORD = 4294967296
    BY <1>6, BytePowers, SMT
  <2>4. /\ w \in Int /\ 0 <= w /\ w <= 255 /\ x \in Int /\ 0 <= x /\ x <= 255
        /\ y \in Int /\ 0 <= y /\ y <= 255 /\ z \in Int /\ 0 <= z /\ z <= 255
    BY <1>3, <1>6, SMT
  <2>5. Number(b) \in Int /\ 0 <= Number(b) /\ Number(b) <= 4294967295
    BY <2>2, <2>4, SMT
  <2>6. Number(b) <= WORD - 1
    BY <2>3, <2>5, SMT
  <2> QED BY <2>5, <2>6 DEF WordNum
<1> QED BY <1>4, <1>5, <1>6, BytePowers, SMT

\* The memory of bytes.
Memory == [Location -> 0 .. BYTE - 1]

\* The first word of an access, where it starts in it, and the second word.
LEMMA Split ==
  ASSUME NEW a \in WordNum
  PROVE  /\ a % 4 \in 0 .. 3 /\ FirstWord(a) = a - (a % 4)
         /\ FirstWord(a) \in Nat /\ FirstWord(a) % 4 = 0
         /\ FirstWord(a) + 4 = WORD \/ FirstWord(a) + 8 <= WORD
         /\ SecondWord(a) \in Nat /\ SecondWord(a) % 4 = 0
         /\ SecondWord(a) = IF FirstWord(a) + 4 = WORD THEN 0 ELSE FirstWord(a) + 4
<1>1. PICK k \in Nat \ {0} : WORD = 4 * k
  <2>1. WORD = 4 * 64 \/ WORD = 4 * 16384 \/ WORD = 4 * 1073741824
    BY Widths, SMT
  <2> QED BY <2>1, SMT
<1>2. PICK q \in Nat : a = 4 * q + (a % 4) /\ a % 4 \in 0 .. 3
  <2>1. a \in Nat
    BY Widths, SMT DEF WordNum
  <2>2. a \div 4 \in Nat /\ a = 4 * (a \div 4) + (a % 4) /\ a % 4 \in 0 .. 3
    BY <2>1, SMT
  <2> QED BY <2>2, Zenon
<1>3. a < WORD /\ a \in Nat
  BY Widths, SMT DEF WordNum
<1>4. q + 1 <= k /\ FirstWord(a) = 4 * q
  BY <1>1, <1>2, <1>3, SMT DEF FirstWord
<1>5. SecondWord(a) = (4 * q + 4) % WORD
  BY <1>4, SMT DEF SecondWord, Wrap
<1>6. CASE q + 1 = k
  <2>1. SecondWord(a) = WORD % WORD
    <3>1. 4 * q + 4 = WORD
      BY <1>1, <1>2, <1>6, SMT
    <3> QED BY <1>5, <3>1
  <2>2. WORD % WORD = 0
    BY Widths, SMT
  <2> QED BY <1>1, <1>2, <1>4, <1>6, <2>1, <2>2, SMT
<1>7. CASE q + 1 < k
  <2>1. SecondWord(a) = 4 * q + 4
    BY <1>1, <1>2, <1>5, <1>7, SMT
  <2> QED BY <1>1, <1>2, <1>4, <1>7, <2>1, SMT
<1> QED BY <1>1, <1>2, <1>4, <1>6, <1>7, SMT

\* The word a byte lies in.
LEMMA InWord ==
  ASSUME NEW f \in Nat, f % 4 = 0, NEW j \in 0 .. 3, NEW p, p = f + j
  PROVE  p - (p % 4) = f
<1>1. PICK q \in Nat : f = 4 * q
  <2>1. f \div 4 \in Nat /\ f = 4 * (f \div 4)
    BY SMT
  <2> QED BY <2>1, Zenon
<1>2. p = 4 * q + j
  BY <1>1
<1>3. p % 4 = j
  BY <1>2, Quotients
<1> QED BY <1>3

\* A byte of an access, from the first word's address f and the second's s.
LEMMA Crossing ==
  ASSUME NEW w \in Nat \ {0}, NEW f \in Nat, NEW s \in Nat, NEW t \in 0 .. 7,
         (f + 4 = w /\ s = 0) \/ (f + 8 <= w /\ s = f + 4)
  PROVE  /\ t < 4 => (f + t) % w = f + t
         /\ t >= 4 => (f + t) % w = s + (t - 4)
<1>1. CASE t < 4 \/ f + 8 <= w
  BY <1>1
<1>2. CASE t >= 4 /\ f + 4 = w
  <2> DEFINE j == t - 4
             n == f + t
  <2>1. n = w * 1 + j /\ j \in Nat /\ j < w /\ s = 0
    BY <1>2
  <2> HIDE DEF j, n
  <2>2. (w * 1 + j) % w = j
    BY <2>1, Quotients
  <2>3. n % w = s + j
    BY <2>1, <2>2
  <2> QED BY <1>2, <2>3 DEF j, n
<1> QED BY <1>1, <1>2

\* The bytes of an access are those of the two words.
LEMMA Places ==
  ASSUME NEW a \in WordNum, NEW i \in 0 .. 3
  PROVE  /\ (a % 4) + i < 4 =>
              /\ Wrap(a + i) = FirstWord(a) + ((a % 4) + i)
              /\ Wrap(a + i) - (Wrap(a + i) % 4) = FirstWord(a)
         /\ (a % 4) + i >= 4 =>
              /\ Wrap(a + i) = SecondWord(a) + ((a % 4) + i - 4)
              /\ Wrap(a + i) - (Wrap(a + i) % 4) = SecondWord(a)
<1> DEFINE f == FirstWord(a)
           s == SecondWord(a)
           o == a % 4
           p == Wrap(a + i)
<1>1. /\ o \in 0 .. 3 /\ f \in Nat /\ f % 4 = 0 /\ (f + 4 = WORD \/ f + 8 <= WORD)
      /\ s \in Nat /\ s % 4 = 0
      /\ s = IF f + 4 = WORD THEN 0 ELSE f + 4
  BY Split
<1>2. a \in Nat /\ WORD \in Nat \ {0} /\ f = a - o /\ p = (a + i) % WORD
  <2>1. a \in Nat /\ WORD \in Nat \ {0}
    BY Widths, SMT DEF WordNum
  <2>2. f = a - o
    BY DEF FirstWord
  <2>3. p = (a + i) % WORD
    BY DEF Wrap
  <2> QED BY <2>1, <2>2, <2>3
<1> DEFINE t == o + i
<1>3. a + i = f + t /\ t \in 0 .. 7
  BY <1>1, <1>2, SMT
<1>4. p = (f + t) % WORD
  BY <1>2, <1>3
<1> HIDE DEF f, s, o, p, t
<1>5. /\ t < 4 => p = f + t
      /\ t >= 4 => p = s + (t - 4)
  <2>1. (f + 4 = WORD /\ s = 0) \/ (f + 8 <= WORD /\ s = f + 4)
    BY <1>1, <1>2
  <2>2. f \in Nat /\ s \in Nat /\ WORD \in Nat \ {0} /\ t \in 0 .. 7
    BY <1>1, <1>2, <1>3
  <2>4. /\ t < 4 => (f + t) % WORD = f + t
        /\ t >= 4 => (f + t) % WORD = s + (t - 4)
    BY ONLY <2>1, <2>2, Crossing
  <2> QED BY <1>4, <2>4
<1>6. t < 4 => t \in 0 .. 3
  BY <1>3
<1>7. t >= 4 => t - 4 \in 0 .. 3
  BY <1>3
<1>8. t < 4 => p - (p % 4) = f
  BY <1>1, <1>5, <1>6, InWord, ZenonT(40)
<1>9. t >= 4 => p - (p % 4) = s
  BY <1>1, <1>5, <1>7, InWord, ZenonT(40)
<1>10. /\ o + i < 4 => p = f + (o + i) /\ p - (p % 4) = f
       /\ o + i >= 4 => p = s + (o + i - 4) /\ p - (p % 4) = s
  <2>1. t = o + i
    BY DEF t
  <2>2. t < 4 => p = f + t /\ p - (p % 4) = f
    BY ONLY <1>5, <1>8
  <2>3. t >= 4 => p = s + (t - 4) /\ p - (p % 4) = s
    BY ONLY <1>5, <1>9
  <2> QED BY <1>1, <1>2, <1>3, <2>1, <2>2, <2>3, SMT
<1> QED BY <1>10 DEF f, s, o, p

\* A whole word is in the region when its last byte is.
LEMMA WholeWord ==
  ASSUME NEW f \in Nat, f % 4 = 0
  PROVE  /\ Whole(f) <=> f + 4 <= RamSize
         /\ Whole(f) => \A j \in Lane : f + j \in Location
  BY RamSizeAssumption DEF Whole, Location, Lane

\* The processor's read, byte by byte.
LEMMA ReadBytes ==
  ASSUME NEW m \in Memory, NEW a \in WordNum
  PROVE  /\ ReadWord(m, a) = IF \A i \in Lane : Machine!Backed(Wrap(a + i))
                             THEN [i \in Lane |-> m[Wrap(a + i)]] ELSE NoBytes
         /\ ReadWord(m, a) \in WordBytes
<1> DEFINE f == FirstWord(a)
           s == SecondWord(a)
           o == a % 4
           p(i) == Wrap(a + i)
           whole == \A i \in Lane : Machine!Backed(p(i))
<1>1. o \in 0 .. 3 /\ f \in Nat /\ f % 4 = 0 /\ s \in Nat /\ s % 4 = 0
  BY Split
<1>2. ASSUME NEW i \in Lane
      PROVE  /\ o + i < 4 => p(i) = f + (o + i) /\ p(i) - (p(i) % 4) = f
             /\ o + i >= 4 => p(i) = s + (o + i - 4) /\ p(i) - (p(i) % 4) = s
  <2>1. i \in 0 .. 3
    BY DEF Lane
  <2> QED BY <2>1, Places
<1> HIDE DEF f, s, o, p
<1>3. /\ Whole(f) <=> f + 4 <= RamSize
      /\ Whole(s) <=> s + 4 <= RamSize
      /\ Whole(f) => \A j \in Lane : f + j \in Location
      /\ Whole(s) => \A j \in Lane : s + j \in Location
  BY <1>1, WholeWord
<1>4. whole <=> Whole(f) /\ (o # 0 => Whole(s))
  <2>1. ASSUME NEW i \in Lane
        PROVE  Machine!Backed(p(i)) <=> IF o + i < 4 THEN Whole(f) ELSE Whole(s)
    <3>1. p(i) - (p(i) % 4) = IF o + i < 4 THEN f ELSE s
      <4>1. o + i < 4 \/ o + i >= 4
        BY <1>1 DEF Lane
      <4>2. CASE o + i < 4
        BY <1>2, <4>2
      <4>3. CASE o + i >= 4
        <5>1. ~(o + i < 4)
          BY <1>1, <4>3 DEF Lane
        <5> QED BY <1>2, <4>3, <5>1
      <4> QED BY <4>1, <4>2, <4>3
    <3> QED BY <1>3, <3>1 DEF Machine!Backed
  <2>2. 0 \in Lane /\ 3 \in Lane
    BY DEF Lane
  <2>3. whole => Whole(f) /\ (o # 0 => Whole(s))
    BY <1>1, <2>1, <2>2
  <2>4. Whole(f) /\ (o # 0 => Whole(s)) => whole
    BY <1>1, <2>1 DEF Lane
  <2> QED BY <2>3, <2>4
<1>5. ASSUME Whole(f), o # 0 => Whole(s), NEW i \in Lane
      PROVE  m[p(i)] \in 0 .. BYTE - 1
  <2>1. o + i < 4 => o + i \in Lane
    BY <1>1 DEF Lane
  <2>2. o + i >= 4 => o + i - 4 \in Lane /\ o # 0
    BY <1>1 DEF Lane
  <2>3. p(i) \in Location
    <3>1. CASE o + i < 4
      BY <1>2, <1>3, <1>5, <2>1, <3>1
    <3>2. CASE o + i >= 4
      BY <1>2, <1>3, <1>5, <2>2, <3>2
    <3> QED BY <1>1, <3>1, <3>2 DEF Lane
  <2> QED BY <2>3 DEF Memory
<1>6. ReadWord(m, a) =
        IF ~Whole(f) \/ (o # 0 /\ ~Whole(s)) THEN NoBytes
        ELSE IF o = 0 THEN AlignedWord(m, f)
        ELSE [i \in Lane |-> ShiftRight(AlignedWord(m, f), o)[i]
                              + ShiftLeft(AlignedWord(m, s), 4 - o)[i]]
  BY DEF ReadWord, f, s, o
<1>7. CASE Whole(f) /\ (o # 0 => Whole(s))
  <2>1. ASSUME NEW i \in Lane, o # 0
        PROVE  ShiftRight(AlignedWord(m, f), o)[i] + ShiftLeft(AlignedWord(m, s), 4 - o)[i]
                 = m[p(i)]
    <3>1. m[p(i)] \in Int
      BY <1>5, <1>7, BytePowers
    <3>2. CASE o + i < 4
      <4>1. o + i \in Lane /\ i + o = o + i /\ ~(i + o > 3) /\ i < 4 - o
        BY <1>1, <3>2 DEF Lane
      <4>2. ShiftRight(AlignedWord(m, f), o)[i] = m[p(i)]
        BY <1>2, <3>2, <4>1 DEF ShiftRight, AlignedWord
      <4>3. ShiftLeft(AlignedWord(m, s), 4 - o)[i] = 0
        BY <4>1 DEF ShiftLeft
      <4> QED BY <3>1, <4>2, <4>3
    <3>3. CASE o + i >= 4
      <4>1. o + i - 4 \in Lane /\ i - (4 - o) = o + i - 4 /\ i + o > 3 /\ ~(i < 4 - o)
        BY <1>1, <3>3 DEF Lane
      <4>2. ShiftRight(AlignedWord(m, f), o)[i] = 0
        BY <4>1 DEF ShiftRight
      <4>3. ShiftLeft(AlignedWord(m, s), 4 - o)[i] = m[p(i)]
        BY <1>2, <3>3, <4>1 DEF ShiftLeft, AlignedWord
      <4> QED BY <3>1, <4>2, <4>3
    <3>4. o + i < 4 \/ o + i >= 4
      BY <1>1 DEF Lane
    <3> QED BY <3>2, <3>3, <3>4
  <2>2. ASSUME NEW i \in Lane, o = 0 PROVE AlignedWord(m, f)[i] = m[p(i)]
    <3>1. o + i < 4 /\ f + (o + i) = f + i
      BY <1>1, <2>2 DEF Lane
    <3> QED BY <1>2, <3>1 DEF AlignedWord
  <2>3. ReadWord(m, a) = [i \in Lane |-> m[p(i)]]
    <3>1. CASE o = 0
      <4>1. ReadWord(m, a) = AlignedWord(m, f)
        BY <1>6, <1>7, <3>1
      <4> QED BY <2>2, <3>1, <4>1 DEF AlignedWord
    <3>2. CASE o # 0
      BY <1>6, <1>7, <2>1, <3>2
    <3> QED BY <3>1, <3>2
  <2>4. [i \in Lane |-> m[p(i)]] \in WordBytes
    BY <1>5, <1>7 DEF WordBytes
  <2> QED BY <1>4, <1>7, <2>3, <2>4 DEF p
<1>8. CASE ~(Whole(f) /\ (o # 0 => Whole(s)))
  <2>1. ReadWord(m, a) = NoBytes
    BY <1>6, <1>8
  <2>2. NoBytes \in WordBytes
    BY BytePowers DEF NoBytes, WordBytes
  <2> QED BY <1>4, <1>8, <2>1, <2>2 DEF p
<1> QED BY <1>7, <1>8

\* The abstract machine reads the word the emulator reads.
LEMMA SameRead ==
  ASSUME at # "load", ArchMem \in Memory, NEW a \in WordNum
  PROVE  Machine!WordAt(a) = ReadWord(ArchMem, a)
<1>1. ASSUME NEW i PROVE Machine!At(a, i) = Wrap(a + i)
  BY SameOperators DEF Machine!At
<1>2. Machine!WordAt(a) = IF \A i \in Lane : Machine!Backed(Wrap(a + i))
                          THEN [i \in Lane |-> ArchMem[Wrap(a + i)]] ELSE NoBytes
  BY <1>1, SameWords DEF Machine!WordAt
<1> QED BY <1>2, ReadBytes

\* The lanes of a write: those of the first word from o on, and what is left.
LEMMA Lanes ==
  ASSUME NEW o \in 0 .. 3, NEW n \in {1, 2, 4}
  PROVE  /\ FirstLanes(o, n) = {j \in Lane : o <= j /\ j < o + n}
         /\ SecondLanes(o, n) = {j \in Lane : j + 4 < o + n}
<1>1. o = 0 \/ o = 1 \/ o = 2 \/ o = 3
  OBVIOUS
<1>2. n = 1 \/ n = 2 \/ n = 4
  OBVIOUS
<1>3. FirstLanes(o, n) = {j \in Lane : o <= j /\ j < o + n}
  BY <1>1, <1>2 DEF FirstLanes, Lane
<1>4. SecondLanes(o, n) = {j \in Lane : j + 4 < o + n}
  BY <1>1, <1>2 DEF SecondLanes, Lane
<1> QED BY <1>3, <1>4

\* Which byte of an access a location is.
LEMMA Offset ==
  ASSUME NEW a \in WordNum, NEW l \in WordNum, NEW i \in 0 .. 3
  PROVE  Wrap(l - a) = i <=> l = Wrap(a + i)
<1>1. /\ a \in Nat /\ l \in Nat /\ WORD \in Nat \ {0} /\ a < WORD /\ l < WORD
      /\ i \in Nat /\ i < WORD
  BY Widths, SMT DEF WordNum
<1> DEFINE w == WORD
<1>2. a \in Nat /\ l \in Nat /\ w \in Nat \ {0} /\ a < w /\ l < w /\ i \in Nat /\ i < w
  BY <1>1
<1>3. Wrap(l - a) = (l - a) % w /\ Wrap(a + i) = (a + i) % w
  BY DEF Wrap
<1> HIDE DEF w
<1>4. CASE l >= a
  <2>1. (l - a) % w = l - a
    BY <1>2, <1>4
  <2>2. CASE a + i < w
    <3>1. (a + i) % w = a + i
      BY <1>2, <2>2
    <3> QED BY <1>2, <1>3, <2>1, <3>1
  <2>3. CASE a + i >= w
    <3> DEFINE d == (a + i) - w
    <3>1. a + i = w * 1 + d /\ d \in Nat /\ d < w /\ d < a /\ w * 1 + d \in Nat
      BY <1>2, <2>3
    <3> HIDE DEF d
    <3>2. (w * 1 + d) % w = d
      BY <1>2, <3>1, Quotients
    <3>3. (a + i) % w = d
      BY <3>1, <3>2
    <3> QED BY <1>2, <1>3, <1>4, <2>1, <2>3, <3>1, <3>3
  <2> QED BY <1>2, <2>2, <2>3
<1>5. CASE l < a
  <2> DEFINE c == (l - a) + w
  <2>1. l - a = w * (-1) + c /\ c \in Nat /\ c < w
    BY <1>2, <1>5
  <2> HIDE DEF c
  <2>2. (w * (-1) + c) % w = c
    BY <1>2, <2>1, Quotients
  <2>3. (l - a) % w = c
    BY <2>1, <2>2
  <2>4. CASE a + i < w
    <3>1. (a + i) % w = a + i
      BY <1>2, <2>4
    <3> QED BY <1>2, <1>3, <1>5, <2>1, <2>3, <2>4, <3>1
  <2>5. CASE a + i >= w
    <3> DEFINE d == (a + i) - w
    <3>1. a + i = w * 1 + d /\ d \in Nat /\ d < w
      BY <1>2, <2>5
    <3> HIDE DEF d
    <3>2. (w * 1 + d) % w = d
      BY <1>2, <3>1, Quotients
    <3>3. (a + i) % w = d
      BY <3>1, <3>2
    <3> QED BY <1>2, <1>3, <2>1, <2>3, <3>1, <3>3
  <2> QED BY <1>2, <2>4, <2>5
<1> QED BY <1>2, <1>4, <1>5

\* The memory after the n first bytes of v are stored from a on, as far as it goes.
Stored(m, a, n, v) ==
  [l \in Location |->
     IF /\ Wrap(l - a) < n
        /\ \A k \in 0 .. Wrap(l - a) : Machine!Backed(Wrap(a + k))
     THEN v[Wrap(l - a)] ELSE m[l]]

\* The memory's write, byte by byte.
LEMMA WriteBytes ==
  ASSUME NEW m \in Memory, NEW a \in WordNum, NEW n \in {1, 2, 4}, NEW v \in WordBytes
  PROVE  /\ WriteWord(m, a, n, v) = Stored(m, a, n, v)
         /\ WriteWord(m, a, n, v) \in Memory
<1> DEFINE f == FirstWord(a)
           s == SecondWord(a)
           o == a % 4
           p(i) == Wrap(a + i)
           place(l) == Wrap(l - a)
           stored(l) == place(l) < n /\ \A k \in 0 .. place(l) : Machine!Backed(p(k))
           first == FirstLanes(o, n)
           second == SecondLanes(o, n)
           m1 == AlignedWrite(m, f, first, ShiftLeft(v, o))
           m2 == AlignedWrite(m1, s, second, ShiftRight(v, 4 - o))
<1>1. /\ o \in 0 .. 3 /\ f \in Nat /\ f % 4 = 0 /\ s \in Nat /\ s % 4 = 0
  BY Split
<1>2. /\ Whole(f) <=> f + 4 <= RamSize
      /\ Whole(s) <=> s + 4 <= RamSize
  BY <1>1, WholeWord
<1>3. ASSUME NEW i \in Lane
      PROVE  /\ o + i < 4 => p(i) = f + (o + i) /\ (Machine!Backed(p(i)) <=> Whole(f))
             /\ o + i >= 4 => p(i) = s + (o + i - 4) /\ (Machine!Backed(p(i)) <=> Whole(s))
  <2>1. i \in 0 .. 3
    BY DEF Lane
  <2>2. /\ o + i < 4 => p(i) = f + (o + i) /\ p(i) - (p(i) % 4) = f
        /\ o + i >= 4 => p(i) = s + (o + i - 4) /\ p(i) - (p(i) % 4) = s
    BY <2>1, Places
  <2> HIDE DEF f, s, o, p
  <2> QED BY <1>2, <2>2 DEF Machine!Backed
<1>4. ASSUME NEW l \in Location, NEW i \in Lane
      PROVE  place(l) = i <=> l = p(i)
  <2>1. l \in WordNum
    BY RamSizeAssumption, Widths, SMT DEF Location, WordNum
  <2> QED BY <2>1, Offset DEF Lane
<1>5. ASSUME NEW l \in Location PROVE l \in Nat /\ place(l) \in Nat
  <2>1. l - a \in Int /\ WORD \in Nat \ {0} /\ l \in Nat
    BY RamSizeAssumption, Widths, SMT DEF Location, WordNum
  <2> QED BY <2>1, Divided DEF Wrap
<1>6. first = {j \in Lane : o <= j /\ j < o + n} /\ second = {j \in Lane : j + 4 < o + n}
  BY <1>1, Lanes
<1>7. WriteWord(m, a, n, v) = IF ~Whole(f) THEN m
                              ELSE IF second = {} \/ ~Whole(s) THEN m1 ELSE m2
  BY DEF WriteWord
<1> HIDE DEF f, s, o, p, place, first, second
<1>8. ASSUME NEW l \in Location, NEW i \in Lane, l = p(i), i < n
      PROVE  /\ place(l) = i
             /\ o + i < 4 => l - f = o + i /\ l - f \in first
             /\ o + i >= 4 => l - s = o + i - 4 /\ l - s \in second
  <2>1. place(l) = i
    BY <1>4, <1>8
  <2>2. ASSUME o + i < 4 PROVE l - f = o + i /\ l - f \in first
    <3>1. l = f + (o + i) /\ o + i \in Lane
      BY <1>1, <1>3, <1>8, <2>2 DEF Lane
    <3>2. l - f = o + i
      BY <1>1, <3>1 DEF Lane
    <3>3. o + i \in first
      BY <1>1, <1>6, <1>8, <3>1 DEF Lane
    <3> QED BY <3>2, <3>3
  <2>3. ASSUME o + i >= 4 PROVE l - s = o + i - 4 /\ l - s \in second
    <3>1. l = s + (o + i - 4) /\ o + i - 4 \in Lane
      BY <1>1, <1>3, <1>8, <2>3 DEF Lane
    <3>2. l - s = o + i - 4
      BY <1>1, <3>1 DEF Lane
    <3>3. o + i - 4 \in second
      BY <1>1, <1>6, <1>8, <3>1 DEF Lane
    <3> QED BY <3>2, <3>3
  <2> QED BY <2>1, <2>2, <2>3
<1>9. ASSUME NEW l \in Location, l - f \in first
      PROVE  \E i \in Lane : l = p(i) /\ i < n /\ o + i < 4
  <2> DEFINE j == l - f
             i == j - o
  <2>1. j \in Lane /\ o <= j /\ j < o + n
    BY <1>6, <1>9
  <2>2. i \in Lane /\ i < n /\ o + i = j /\ o + i < 4 /\ l = f + (o + i)
    BY <1>1, <1>5, <2>1 DEF Lane
  <2>3. l = p(i)
    <3> HIDE DEF i
    <3> QED BY <1>3, <2>2
  <2> HIDE DEF i
  <2> QED BY <2>2, <2>3
<1>10. ASSUME NEW l \in Location, l - s \in second
       PROVE  \E i \in Lane : l = p(i) /\ i < n /\ o + i >= 4
  <2> DEFINE j == l - s
             i == j + 4 - o
  <2>1. j \in Lane /\ j + 4 < o + n
    BY <1>6, <1>10
  <2>2. i \in Lane /\ i < n /\ o + i - 4 = j /\ o + i >= 4 /\ l = s + (o + i - 4)
    BY <1>1, <1>5, <2>1 DEF Lane
  <2>3. l = p(i)
    <3> HIDE DEF i
    <3> QED BY <1>3, <2>2
  <2> HIDE DEF i
  <2> QED BY <2>2, <2>3
<1>11. ASSUME NEW l \in Location
       PROVE  /\ m1[l] = IF l - f \in first THEN ShiftLeft(v, o)[l - f] ELSE m[l]
              /\ m2[l] = IF l - s \in second THEN ShiftRight(v, 4 - o)[l - s] ELSE m1[l]
  BY DEF AlignedWrite
<1>12. m \in [Location -> 0 .. BYTE - 1] /\ DOMAIN m1 = Location /\ DOMAIN m2 = Location
       /\ m1 = [l \in Location |-> m1[l]] /\ m2 = [l \in Location |-> m2[l]]
       /\ m = [l \in Location |-> m[l]]
  BY DEF AlignedWrite, Memory
<1> HIDE DEF m1, m2
<1>13. ASSUME NEW l \in Location
       PROVE  WriteWord(m, a, n, v)[l] = IF stored(l) THEN v[place(l)] ELSE m[l]
  <2>1. CASE \E i \in Lane : l = p(i) /\ i < n
    <3>1. PICK i \in Lane : l = p(i) /\ i < n
      BY <2>1
    <3>2. place(l) = i /\ i \in Nat
      BY <1>8, <3>1 DEF Lane
    <3>3. CASE o + i < 4
      <4>1. l - f = o + i /\ l - f \in first /\ l - s \notin second
        <5>1. ASSUME l - s \in second PROVE FALSE
          <6>1. PICK k \in Lane : l = p(k) /\ k < n /\ o + k >= 4
            BY <1>10, <5>1
          <6>2. k = i
            BY <1>8, <3>2, <6>1
          <6> QED BY <1>1, <3>3, <6>1, <6>2 DEF Lane
        <5> QED BY <1>8, <3>1, <3>3, <5>1
      <4>2. stored(l) <=> Whole(f)
        <5>1. ASSUME NEW k \in 0 .. i PROVE Machine!Backed(p(k)) <=> Whole(f)
          <6>1. k \in Lane /\ o + k < 4
            BY <1>1, <3>3 DEF Lane
          <6> QED BY <1>3, <6>1
        <5>2. 0 \in 0 .. i
          BY <3>2
        <5> QED BY <3>1, <3>2, <5>1, <5>2
      <4>3. ShiftLeft(v, o)[o + i] = v[i]
        <5> DEFINE j == o + i
        <5>1. j \in Lane /\ ~(j < o) /\ j - o = i
          BY <1>1, <3>3 DEF Lane
        <5> HIDE DEF j
        <5>2. ShiftLeft(v, o)[j] = v[j - o]
          BY <5>1 DEF ShiftLeft
        <5> QED BY <5>1, <5>2 DEF j
      <4>4. m1[l] = v[i] /\ m2[l] = v[i]
        BY <1>11, <4>1, <4>3
      <4> QED BY <1>7, <3>2, <4>2, <4>4
    <3>4. CASE o + i >= 4
      <4>1. l - s = o + i - 4 /\ l - s \in second /\ l - f \notin first /\ second # {}
        <5>1. ASSUME l - f \in first PROVE FALSE
          <6>1. PICK k \in Lane : l = p(k) /\ k < n /\ o + k < 4
            BY <1>9, <5>1
          <6>2. k = i
            BY <1>8, <3>2, <6>1
          <6> QED BY <1>1, <3>4, <6>1, <6>2 DEF Lane
        <5>2. l - s = o + i - 4 /\ l - s \in second
          BY <1>8, <3>1, <3>4
        <5> QED BY <5>1, <5>2
      <4>2. stored(l) <=> Whole(f) /\ Whole(s)
        <5>1. ASSUME NEW k \in 0 .. i
              PROVE  Machine!Backed(p(k)) <=> IF o + k < 4 THEN Whole(f) ELSE Whole(s)
          <6>1. k \in Lane /\ (o + k < 4 \/ o + k >= 4)
            BY <1>1 DEF Lane
          <6>2. CASE o + k < 4
            BY <1>3, <6>1, <6>2
          <6>3. CASE ~(o + k < 4)
            BY <1>3, <6>1, <6>3
          <6> QED BY <6>2, <6>3
        <5>2. 0 \in 0 .. i /\ i \in 0 .. i /\ o + 0 < 4 /\ ~(o + i < 4)
          BY <1>1, <3>2, <3>4
        <5>3. stored(l) => Whole(f) /\ Whole(s)
          BY <3>2, <5>1, <5>2
        <5>4. Whole(f) /\ Whole(s) => stored(l)
          BY <3>1, <3>2, <5>1
        <5> QED BY <5>3, <5>4
      <4>3. ShiftRight(v, 4 - o)[o + i - 4] = v[i]
        <5>1. o + i - 4 \in Lane /\ (o + i - 4) + (4 - o) = i /\ ~(i > 3)
          BY <1>1, <3>4 DEF Lane
        <5> QED BY <5>1 DEF ShiftRight
      <4>4. m1[l] = m[l] /\ m2[l] = v[i]
        BY <1>11, <4>1, <4>3
      <4> QED BY <1>7, <3>2, <4>1, <4>2, <4>4
    <3> QED BY <1>1, <3>3, <3>4 DEF Lane
  <2>2. CASE ~(\E i \in Lane : l = p(i) /\ i < n)
    <3>1. l - f \notin first /\ l - s \notin second
      BY <1>9, <1>10, <2>2
    <3>2. m1[l] = m[l] /\ m2[l] = m[l]
      BY <1>11, <3>1
    <3>3. ~(place(l) < n)
      <4>1. ASSUME place(l) < n PROVE FALSE
        <5>1. place(l) \in Lane
          BY <1>5, <4>1 DEF Lane
        <5>2. l = p(place(l))
          BY <1>4, <5>1
        <5> QED BY <2>2, <4>1, <5>1, <5>2
      <4> QED BY <4>1
    <3> QED BY <1>7, <3>2, <3>3
  <2> QED BY <2>1, <2>2
<1>14. WriteWord(m, a, n, v) = [l \in Location |-> IF stored(l) THEN v[place(l)] ELSE m[l]]
  <2>1. WriteWord(m, a, n, v) = [l \in Location |-> WriteWord(m, a, n, v)[l]]
    BY <1>7, <1>12
  <2> QED BY <1>13, <2>1
<1>15. WriteWord(m, a, n, v) \in Memory
  <2>1. ASSUME NEW l \in Location
        PROVE  (IF stored(l) THEN v[place(l)] ELSE m[l]) \in 0 .. BYTE - 1
    <3>1. m[l] \in 0 .. BYTE - 1
      BY <1>12
    <3>2. stored(l) => place(l) \in Lane
      BY <1>5 DEF Lane
    <3> QED BY <3>1, <3>2 DEF WordBytes
  <2> QED BY <1>14, <2>1 DEF Memory
<1> QED BY <1>14, <1>15 DEF place, p, Stored

\* The abstract machine writes what the emulator writes.
LEMMA SameWrite ==
  ASSUME at # "load", ArchMem \in Memory, NEW a \in WordNum, NEW n \in {1, 2, 4},
         NEW v \in Int
  PROVE  Machine!Written(a, n, v) = WriteWord(ArchMem, a, n, Bytes(v))
<1>1. ASSUME NEW i PROVE Machine!At(a, i) = Wrap(a + i) /\ Machine!Wrap(i) = Wrap(i)
                         /\ Machine!Bytes(i) = Bytes(i)
  BY SameOperators DEF Machine!At
<1>2. Machine!Written(a, n, v) = Stored(ArchMem, a, n, Bytes(v))
  BY <1>1, SameWords DEF Machine!Written, Stored
<1> QED BY <1>2, BytesType, WriteBytes

-----------------------------------------------------------------------------
(* The opcode table, by what the instructions do.                          *)

\* The instructions, by what they do.
FenceOps  == {"fence", "fence_i"}
BranchOps == {"beq", "bne", "blt", "bge", "bltu", "bgeu"}
JumpOps   == {"jal", "jalr"}
LoadOps   == {"lb", "lh", "lw", "lbu", "lhu"}
StoreOps  == {"sb", "sh", "sw"}
CsrOps    == {"csrrw", "csrrs", "csrrc", "csrrwi", "csrrsi", "csrrci"}

\* Every opcode is of one of these kinds.
LEMMA OpcodeKinds ==
  ASSUME NEW op \in DOMAIN Opcodes
  PROVE  \/ op \in Machine!Computes \/ op \in FenceOps \/ op \in BranchOps \/ op \in JumpOps
         \/ op \in LoadOps \/ op \in StoreOps \/ op \in CsrOps \/ op \in Exceptions
<1>1. DOMAIN Opcodes =
        {"auipc", "lui", "jal", "jalr", "beq", "bne", "blt", "bge", "bltu", "bgeu",
         "lb", "lh", "lw", "lbu", "lhu", "sb", "sh", "sw", "addi", "slti", "sltiu", "xori",
         "ori", "andi", "slli", "srli", "srai", "add", "sub", "sll", "slt", "sltu", "xor",
         "srl", "sra", "or", "and", "fence", "fence_i", "ecall", "ebreak", "unknown",
         "csrrw", "csrrs", "csrrc", "csrrwi", "csrrsi", "csrrci",
         "mul", "mulh", "mulhsu", "mulhu", "div", "divu", "rem", "remu"}
  BY DEF Opcodes
<1> QED BY <1>1 DEF Machine!Computes, FenceOps, BranchOps, JumpOps, LoadOps, StoreOps, CsrOps,
           Exceptions

\* What an instruction that stores leaves alone, and so on for each kind.
LEMMA ComputeRow ==
  ASSUME NEW op \in Machine!Computes
  PROVE  /\ Opcodes[op].store_result = TRUE /\ Opcodes[op].memory_mode = "NONE"
         /\ Opcodes[op].csr_mode = "NOP" /\ Opcodes[op].pc_mode = "NEXT_I"
         /\ Opcodes[op].op2_immediate \in BOOLEAN
         /\ Opcodes[op].alu_mode \notin {"NEXT_I", "CSR"}
         /\ Opcodes[op].alu_mode \in {"PC_U20", "U20"} <=> op \in {"auipc", "lui"}
<1>1. PICK mode \in {"PC_U20", "U20", "ADD", "SUB", "SLL", "XOR", "SRL", "SRA", "OR", "AND", "SLT",
                     "SLTU", "MUL", "MULH", "MULHSU", "MULHU", "DIV", "DIVU", "REM", "REMU"} :
        /\ Opcodes[op] = Compute(mode) \/ Opcodes[op] = ComputeImm(mode)
        /\ mode \in {"PC_U20", "U20"} <=> op \in {"auipc", "lui"}
  <2>1. /\ Opcodes["auipc"] = Compute("PC_U20") /\ Opcodes["lui"] = Compute("U20")
        /\ Opcodes["addi"] = ComputeImm("ADD") /\ Opcodes["slti"] = ComputeImm("SLT")
        /\ Opcodes["sltiu"] = ComputeImm("SLTU") /\ Opcodes["xori"] = ComputeImm("XOR")
        /\ Opcodes["ori"] = ComputeImm("OR") /\ Opcodes["andi"] = ComputeImm("AND")
        /\ Opcodes["slli"] = ComputeImm("SLL") /\ Opcodes["srli"] = ComputeImm("SRL")
        /\ Opcodes["srai"] = ComputeImm("SRA")
    BY DEF Opcodes
  <2>2. /\ Opcodes["add"] = Compute("ADD") /\ Opcodes["sub"] = Compute("SUB")
        /\ Opcodes["sll"] = Compute("SLL") /\ Opcodes["slt"] = Compute("SLT")
        /\ Opcodes["sltu"] = Compute("SLTU") /\ Opcodes["xor"] = Compute("XOR")
        /\ Opcodes["srl"] = Compute("SRL") /\ Opcodes["sra"] = Compute("SRA")
        /\ Opcodes["or"] = Compute("OR") /\ Opcodes["and"] = Compute("AND")
    BY DEF Opcodes
  <2>3. /\ Opcodes["mul"] = Compute("MUL") /\ Opcodes["mulh"] = Compute("MULH")
        /\ Opcodes["mulhsu"] = Compute("MULHSU") /\ Opcodes["mulhu"] = Compute("MULHU")
        /\ Opcodes["div"] = Compute("DIV") /\ Opcodes["divu"] = Compute("DIVU")
        /\ Opcodes["rem"] = Compute("REM") /\ Opcodes["remu"] = Compute("REMU")
    BY DEF Opcodes
  <2>4. CASE op \in {"auipc", "lui", "addi", "slti", "sltiu", "xori", "ori", "andi",
                     "slli", "srli", "srai"}
    BY <2>1, <2>4
  <2>5. CASE op \in {"add", "sub", "sll", "slt", "sltu", "xor", "srl", "sra", "or", "and"}
    BY <2>2, <2>5
  <2>6. CASE op \in {"mul", "mulh", "mulhsu", "mulhu", "div", "divu", "rem", "remu"}
    BY <2>3, <2>6
  <2> QED BY <2>4, <2>5, <2>6 DEF Machine!Computes
<1>2. CASE Opcodes[op] = Compute(mode)
  BY <1>1, <1>2 DEF Compute, Plain
<1>3. CASE Opcodes[op] = ComputeImm(mode)
  BY <1>1, <1>3 DEF ComputeImm, Compute, Plain
<1> QED BY <1>1, <1>2, <1>3

\* An instruction that does nothing but go on.
LEMMA FenceRow ==
  ASSUME NEW op \in FenceOps
  PROVE  Opcodes[op] = Plain
  BY DEF FenceOps, Opcodes

\* A branch compares and writes nothing.
LEMMA BranchRow ==
  ASSUME NEW op \in BranchOps
  PROVE  /\ Opcodes[op].store_result = FALSE /\ Opcodes[op].memory_mode = "NONE"
         /\ Opcodes[op].csr_mode = "NOP" /\ Opcodes[op].op2_immediate = FALSE
         /\ Opcodes[op].pc_mode =
              IF op \in {"beq", "blt", "bltu"} THEN "COND_JUMP" ELSE "COND_JUMP_INV"
         /\ Opcodes[op].alu_mode = IF op \in {"beq", "bne"} THEN "SEQ"
                                   ELSE IF op \in {"blt", "bge"} THEN "SLT" ELSE "SLTU"
<1> DEFINE row == Opcodes[op]
<1>1. /\ Opcodes["beq"] = CondJump("SEQ", "COND_JUMP")
      /\ Opcodes["bne"] = CondJump("SEQ", "COND_JUMP_INV")
      /\ Opcodes["blt"] = CondJump("SLT", "COND_JUMP")
      /\ Opcodes["bge"] = CondJump("SLT", "COND_JUMP_INV")
      /\ Opcodes["bltu"] = CondJump("SLTU", "COND_JUMP")
      /\ Opcodes["bgeu"] = CondJump("SLTU", "COND_JUMP_INV")
  BY DEF Opcodes
<1> HIDE DEF row
<1>2. CASE op = "beq"
  <2>1. row = CondJump("SEQ", "COND_JUMP")
    BY <1>1, <1>2 DEF row
  <2>2. /\ row.store_result = FALSE /\ row.memory_mode = "NONE" /\ row.csr_mode = "NOP"
        /\ row.op2_immediate = FALSE /\ row.pc_mode = "COND_JUMP" /\ row.alu_mode = "SEQ"
    BY <2>1 DEF CondJump, Plain
  <2> QED BY <1>2, <2>2 DEF row
<1>3. CASE op = "bne"
  <2>1. row = CondJump("SEQ", "COND_JUMP_INV")
    BY <1>1, <1>3 DEF row
  <2>2. /\ row.store_result = FALSE /\ row.memory_mode = "NONE" /\ row.csr_mode = "NOP"
        /\ row.op2_immediate = FALSE /\ row.pc_mode = "COND_JUMP_INV" /\ row.alu_mode = "SEQ"
    BY <2>1 DEF CondJump, Plain
  <2> QED BY <1>3, <2>2 DEF row
<1>4. CASE op = "blt"
  <2>1. row = CondJump("SLT", "COND_JUMP")
    BY <1>1, <1>4 DEF row
  <2>2. /\ row.store_result = FALSE /\ row.memory_mode = "NONE" /\ row.csr_mode = "NOP"
        /\ row.op2_immediate = FALSE /\ row.pc_mode = "COND_JUMP" /\ row.alu_mode = "SLT"
    BY <2>1 DEF CondJump, Plain
  <2> QED BY <1>4, <2>2 DEF row
<1>5. CASE op = "bge"
  <2>1. row = CondJump("SLT", "COND_JUMP_INV")
    BY <1>1, <1>5 DEF row
  <2>2. /\ row.store_result = FALSE /\ row.memory_mode = "NONE" /\ row.csr_mode = "NOP"
        /\ row.op2_immediate = FALSE /\ row.pc_mode = "COND_JUMP_INV" /\ row.alu_mode = "SLT"
    BY <2>1 DEF CondJump, Plain
  <2> QED BY <1>5, <2>2 DEF row
<1>6. CASE op = "bltu"
  <2>1. row = CondJump("SLTU", "COND_JUMP")
    BY <1>1, <1>6 DEF row
  <2>2. /\ row.store_result = FALSE /\ row.memory_mode = "NONE" /\ row.csr_mode = "NOP"
        /\ row.op2_immediate = FALSE /\ row.pc_mode = "COND_JUMP" /\ row.alu_mode = "SLTU"
    BY <2>1 DEF CondJump, Plain
  <2> QED BY <1>6, <2>2 DEF row
<1>7. CASE op = "bgeu"
  <2>1. row = CondJump("SLTU", "COND_JUMP_INV")
    BY <1>1, <1>7 DEF row
  <2>2. /\ row.store_result = FALSE /\ row.memory_mode = "NONE" /\ row.csr_mode = "NOP"
        /\ row.op2_immediate = FALSE /\ row.pc_mode = "COND_JUMP_INV" /\ row.alu_mode = "SLTU"
    BY <2>1 DEF CondJump, Plain
  <2> QED BY <1>7, <2>2 DEF row
<1> QED BY <1>2, <1>3, <1>4, <1>5, <1>6, <1>7 DEF BranchOps, row

\* A jump stores the address that follows it.
LEMMA JumpRow ==
  ASSUME NEW op \in JumpOps
  PROVE  /\ Opcodes[op].store_result = TRUE /\ Opcodes[op].memory_mode = "NONE"
         /\ Opcodes[op].csr_mode = "NOP" /\ Opcodes[op].op2_immediate = FALSE
         /\ Opcodes[op].alu_mode = "NEXT_I"
         /\ Opcodes[op].pc_mode = IF op = "jal" THEN "REL_JUMP" ELSE "INDIRECT"
<1>1. Opcodes["jal"] = Jump("REL_JUMP") /\ Opcodes["jalr"] = Jump("INDIRECT")
  BY DEF Opcodes
<1>2. CASE op = "jal"
  BY <1>1, <1>2 DEF Jump, Compute, Plain
<1>3. CASE op = "jalr"
  BY <1>1, <1>3 DEF Jump, Compute, Plain
<1> QED BY <1>2, <1>3 DEF JumpOps

\* A load has a size, and a sign for the small ones.
LEMMA LoadRow ==
  ASSUME NEW op \in LoadOps
  PROVE  /\ Opcodes[op].store_result = TRUE /\ Opcodes[op].memory_mode = "LOAD"
         /\ Opcodes[op].csr_mode = "NOP" /\ Opcodes[op].pc_mode = "NEXT_I"
         /\ Opcodes[op].bytes = IF op \in {"lb", "lbu"} THEN 1
                                ELSE IF op \in {"lh", "lhu"} THEN 2 ELSE 4
         /\ Opcodes[op].signed = IF op \in {"lb", "lh"} THEN TRUE ELSE FALSE
<1> DEFINE row == Opcodes[op]
<1>1. /\ Opcodes["lb"] = LoadOf(1, TRUE) /\ Opcodes["lh"] = LoadOf(2, TRUE)
      /\ Opcodes["lw"] = LoadOf(4, FALSE) /\ Opcodes["lbu"] = LoadOf(1, FALSE)
      /\ Opcodes["lhu"] = LoadOf(2, FALSE)
  BY DEF Opcodes
<1> HIDE DEF row
<1>2. CASE op = "lb"
  <2>1. row = LoadOf(1, TRUE)
    BY <1>1, <1>2 DEF row
  <2>2. /\ row.store_result = TRUE /\ row.memory_mode = "LOAD" /\ row.csr_mode = "NOP"
        /\ row.pc_mode = "NEXT_I" /\ row.bytes = 1 /\ row.signed = TRUE
    BY <2>1 DEF LoadOf, Plain
  <2> QED BY <1>2, <2>2 DEF row
<1>3. CASE op = "lh"
  <2>1. row = LoadOf(2, TRUE)
    BY <1>1, <1>3 DEF row
  <2>2. /\ row.store_result = TRUE /\ row.memory_mode = "LOAD" /\ row.csr_mode = "NOP"
        /\ row.pc_mode = "NEXT_I" /\ row.bytes = 2 /\ row.signed = TRUE
    BY <2>1 DEF LoadOf, Plain
  <2> QED BY <1>3, <2>2 DEF row
<1>4. CASE op = "lw"
  <2>1. row = LoadOf(4, FALSE)
    BY <1>1, <1>4 DEF row
  <2>2. /\ row.store_result = TRUE /\ row.memory_mode = "LOAD" /\ row.csr_mode = "NOP"
        /\ row.pc_mode = "NEXT_I" /\ row.bytes = 4 /\ row.signed = FALSE
    BY <2>1 DEF LoadOf, Plain
  <2> QED BY <1>4, <2>2 DEF row
<1>5. CASE op = "lbu"
  <2>1. row = LoadOf(1, FALSE)
    BY <1>1, <1>5 DEF row
  <2>2. /\ row.store_result = TRUE /\ row.memory_mode = "LOAD" /\ row.csr_mode = "NOP"
        /\ row.pc_mode = "NEXT_I" /\ row.bytes = 1 /\ row.signed = FALSE
    BY <2>1 DEF LoadOf, Plain
  <2> QED BY <1>5, <2>2 DEF row
<1>6. CASE op = "lhu"
  <2>1. row = LoadOf(2, FALSE)
    BY <1>1, <1>6 DEF row
  <2>2. /\ row.store_result = TRUE /\ row.memory_mode = "LOAD" /\ row.csr_mode = "NOP"
        /\ row.pc_mode = "NEXT_I" /\ row.bytes = 2 /\ row.signed = FALSE
    BY <2>1 DEF LoadOf, Plain
  <2> QED BY <1>6, <2>2 DEF row
<1> QED BY <1>2, <1>3, <1>4, <1>5, <1>6 DEF LoadOps, row

\* A store has a size and goes on.
LEMMA StoreRow ==
  ASSUME NEW op \in StoreOps
  PROVE  /\ Opcodes[op].store_result = FALSE /\ Opcodes[op].memory_mode = "STORE"
         /\ Opcodes[op].csr_mode = "NOP" /\ Opcodes[op].pc_mode = "NEXT_I"
         /\ Opcodes[op].bytes = IF op = "sb" THEN 1 ELSE IF op = "sh" THEN 2 ELSE 4
<1>1. /\ Opcodes["sb"] = StoreOf(1) /\ Opcodes["sh"] = StoreOf(2) /\ Opcodes["sw"] = StoreOf(4)
  BY DEF Opcodes
<1>2. CASE op = "sb"
  BY <1>1, <1>2, ZenonT(40) DEF StoreOf, Plain
<1>3. CASE op = "sh"
  BY <1>1, <1>3, ZenonT(40) DEF StoreOf, Plain
<1>4. CASE op = "sw"
  BY <1>1, <1>4 DEF StoreOf, Plain
<1> QED BY <1>2, <1>3, <1>4 DEF StoreOps

\* A CSR instruction reads the register it may write.
LEMMA CsrRow ==
  ASSUME NEW op \in CsrOps
  PROVE  /\ Opcodes[op].store_result = TRUE /\ Opcodes[op].memory_mode = "NONE"
         /\ Opcodes[op].alu_mode = "CSR" /\ Opcodes[op].pc_mode = "NEXT_I"
         /\ Opcodes[op].op2_immediate = FALSE
         /\ Opcodes[op].csr_mode =
              CASE op = "csrrw" -> "RW" [] op = "csrrs" -> "RS" [] op = "csrrc" -> "RC"
                [] op = "csrrwi" -> "RWI" [] op = "csrrsi" -> "RSI" [] op = "csrrci" -> "RCI"
<1> DEFINE row == Opcodes[op]
<1>1. /\ Opcodes["csrrw"] = AccessCsr("RW") /\ Opcodes["csrrs"] = AccessCsr("RS")
      /\ Opcodes["csrrc"] = AccessCsr("RC") /\ Opcodes["csrrwi"] = AccessCsr("RWI")
      /\ Opcodes["csrrsi"] = AccessCsr("RSI") /\ Opcodes["csrrci"] = AccessCsr("RCI")
  BY DEF Opcodes
<1> HIDE DEF row
<1>2. CASE op = "csrrw"
  <2>1. row = AccessCsr("RW")
    BY <1>1, <1>2 DEF row
  <2>2. /\ row.store_result = TRUE /\ row.memory_mode = "NONE" /\ row.alu_mode = "CSR"
        /\ row.pc_mode = "NEXT_I" /\ row.op2_immediate = FALSE /\ row.csr_mode = "RW"
    BY <2>1 DEF AccessCsr, Compute, Plain
  <2> QED BY <1>2, <2>2 DEF row
<1>3. CASE op = "csrrs"
  <2>1. row = AccessCsr("RS")
    BY <1>1, <1>3 DEF row
  <2>2. /\ row.store_result = TRUE /\ row.memory_mode = "NONE" /\ row.alu_mode = "CSR"
        /\ row.pc_mode = "NEXT_I" /\ row.op2_immediate = FALSE /\ row.csr_mode = "RS"
    BY <2>1 DEF AccessCsr, Compute, Plain
  <2> QED BY <1>3, <2>2 DEF row
<1>4. CASE op = "csrrc"
  <2>1. row = AccessCsr("RC")
    BY <1>1, <1>4 DEF row
  <2>2. /\ row.store_result = TRUE /\ row.memory_mode = "NONE" /\ row.alu_mode = "CSR"
        /\ row.pc_mode = "NEXT_I" /\ row.op2_immediate = FALSE /\ row.csr_mode = "RC"
    BY <2>1 DEF AccessCsr, Compute, Plain
  <2> QED BY <1>4, <2>2 DEF row
<1>5. CASE op = "csrrwi"
  <2>1. row = AccessCsr("RWI")
    BY <1>1, <1>5 DEF row
  <2>2. /\ row.store_result = TRUE /\ row.memory_mode = "NONE" /\ row.alu_mode = "CSR"
        /\ row.pc_mode = "NEXT_I" /\ row.op2_immediate = FALSE /\ row.csr_mode = "RWI"
    BY <2>1 DEF AccessCsr, Compute, Plain
  <2> QED BY <1>5, <2>2 DEF row
<1>6. CASE op = "csrrsi"
  <2>1. row = AccessCsr("RSI")
    BY <1>1, <1>6 DEF row
  <2>2. /\ row.store_result = TRUE /\ row.memory_mode = "NONE" /\ row.alu_mode = "CSR"
        /\ row.pc_mode = "NEXT_I" /\ row.op2_immediate = FALSE /\ row.csr_mode = "RSI"
    BY <2>1 DEF AccessCsr, Compute, Plain
  <2> QED BY <1>6, <2>2 DEF row
<1>7. CASE op = "csrrci"
  <2>1. row = AccessCsr("RCI")
    BY <1>1, <1>7 DEF row
  <2>2. /\ row.store_result = TRUE /\ row.memory_mode = "NONE" /\ row.alu_mode = "CSR"
        /\ row.pc_mode = "NEXT_I" /\ row.op2_immediate = FALSE /\ row.csr_mode = "RCI"
    BY <2>1 DEF AccessCsr, Compute, Plain
  <2> QED BY <1>7, <2>2 DEF row
<1> QED BY <1>2, <1>3, <1>4, <1>5, <1>6, <1>7 DEF CsrOps, row

\* An exception's row says nothing.
LEMMA ExceptionRow ==
  ASSUME NEW op \in Exceptions
  PROVE  Opcodes[op] = Plain
  BY DEF Exceptions, Opcodes

-----------------------------------------------------------------------------
(* Types.                                                                  *)

Csrs == [CsrId -> WordNum]
Regs == [Reg -> WordNum]

\* What every row of the table may hold.
LEMMA RowTypes ==
  ASSUME NEW op \in DOMAIN Opcodes
  PROVE  /\ Opcodes[op].pc_mode \in {"NEXT_I", "COND_JUMP", "COND_JUMP_INV", "REL_JUMP", "INDIRECT"}
         /\ Opcodes[op].memory_mode = "STORE" => Opcodes[op].bytes \in {1, 2, 4}
         /\ Opcodes[op].memory_mode = "LOAD" => Opcodes[op].bytes \in {1, 2, 4}
         /\ Opcodes[op].memory_mode = "LOAD" <=> op \in LoadOps
         /\ Opcodes[op].memory_mode = "STORE" <=> op \in StoreOps
<1>1. Plain.pc_mode = "NEXT_I" /\ Plain.memory_mode = "NONE"
  BY DEF Plain
<1>2. CASE op \in Machine!Computes
  BY <1>2, ComputeRow DEF Machine!Computes, LoadOps, StoreOps
<1>3. CASE op \in FenceOps
  BY <1>1, <1>3, FenceRow DEF FenceOps, LoadOps, StoreOps
<1>4. CASE op \in BranchOps
  BY <1>4, BranchRow DEF BranchOps, LoadOps, StoreOps
<1>5. CASE op \in JumpOps
  BY <1>5, JumpRow DEF JumpOps, LoadOps, StoreOps
<1>6. CASE op \in LoadOps
  BY <1>6, LoadRow DEF LoadOps, StoreOps
<1>7. CASE op \in StoreOps
  BY <1>7, StoreRow DEF LoadOps, StoreOps
<1>8. CASE op \in CsrOps
  BY <1>8, CsrRow DEF CsrOps, LoadOps, StoreOps
<1>9. CASE op \in Exceptions
  BY <1>1, <1>9, ExceptionRow DEF Exceptions, LoadOps, StoreOps
<1> QED BY <1>2, <1>3, <1>4, <1>5, <1>6, <1>7, <1>8, <1>9, OpcodeKinds

\* What an instruction holds.
LEMMA InstrType ==
  ASSUME NEW in \in Instr
  PROVE  /\ in.op \in DOMAIN Opcodes \/ in.op = "invalid"
         /\ in.rd \in Reg /\ in.rs1 \in Reg /\ in.rs2 \in Reg
         /\ in.imm \in Int /\ in.csr \in CsrId /\ in.uimm \in WordNum
<1>1. in.uimm \in 0 .. 31
  BY DEF Instr
<1>2. in.uimm \in WordNum
  BY <1>1, Widths, SMT DEF WordNum
<1> QED BY <1>2 DEF Instr

\* Every word decodes to an instruction, or none.
LEMMA DecodeType ==
  ASSUME NEW w \in WordNum
  PROVE  Decode[w] \in Instr
  BY DecodeAssumption

\* The counters count in words, and leave the other CSRs alone.
LEMMA Counts ==
  ASSUME NEW c \in Csrs, NEW low \in Counter, NEW high \in Counter
  PROVE  Increment(c, low, high) \in Csrs /\ Increment(c, low, high)["OTHER"] = c["OTHER"]
<1>1. low \in CsrId /\ high \in CsrId /\ low # "OTHER" /\ high # "OTHER" /\ "OTHER" \in CsrId
  BY DEF Counter, CsrId
<1>2. ASSUME NEW x \in WordNum PROVE Wrap(x + 1) \in WordNum
  <2>1. x + 1 \in Int
    BY Widths, SMT DEF WordNum
  <2> QED BY <2>1, WrapType
<1>3. c[low] \in WordNum /\ c[high] \in WordNum
  BY <1>1 DEF Csrs
<1> DEFINE n == Wrap(c[low] + 1)
           d == Increment(c, low, high)
<1>4. n \in WordNum /\ Wrap(c[high] + 1) \in WordNum /\ Wrap(n + 1) \in WordNum
  BY <1>2, <1>3
<1>5. c \in [CsrId -> WordNum]
  BY DEF Csrs
<1>6. DOMAIN d = CsrId /\ d = [x \in CsrId |-> d[x]]
  BY <1>5 DEF Increment
<1>7. ASSUME NEW x \in CsrId PROVE d[x] \in {c[x], n, Wrap(c[high] + 1), Wrap(n + 1)}
  BY <1>1, <1>5 DEF Increment
<1>8. d["OTHER"] = c["OTHER"]
  BY <1>1, <1>5 DEF Increment
<1> HIDE DEF n, d
<1> QED BY <1>4, <1>5, <1>6, <1>7, <1>8 DEF d, Csrs

\* So do the two counts of riscv_run.
LEMMA CountTypes ==
  /\ csr \in Csrs => CountCycle \in Csrs /\ CountCycle["OTHER"] = csr["OTHER"]
  /\ \A c \in Csrs : CountTime(c) \in Csrs /\ CountTime(c)["OTHER"] = c["OTHER"]
<1>1. ASSUME csr \in Csrs PROVE CountCycle \in Csrs /\ CountCycle["OTHER"] = csr["OTHER"]
  <2> DEFINE c == Increment(csr, "RDCYCLE", "RDCYCLEH")
  <2>1. c \in Csrs /\ c["OTHER"] = csr["OTHER"]
    BY <1>1, Counts DEF Counter
  <2>2. CountCycle = [c EXCEPT !["MCYCLE"] = c["RDCYCLE"]]
    BY DEF CountCycle
  <2> HIDE DEF c
  <2> QED BY <2>1, <2>2 DEF Csrs, CsrId, Counter
<1>2. ASSUME NEW c \in Csrs PROVE CountTime(c) \in Csrs /\ CountTime(c)["OTHER"] = c["OTHER"]
  BY Counts DEF CountTime, Counter
<1> QED BY <1>1, <1>2

\* The second operand is a word.
LEMMA OperandType ==
  ASSUME regs \in Regs, NEW in \in Instr, NEW row
  PROVE  Operand2(in, row) \in WordNum /\ regs[in.rs1] \in WordNum /\ regs[in.rs2] \in WordNum
<1>1. Wrap(in.imm) \in WordNum
  BY InstrType, WrapType
<1>2. regs[in.rs1] \in WordNum /\ regs[in.rs2] \in WordNum
  BY InstrType DEF Regs
<1> QED BY <1>1, <1>2 DEF Operand2

\* An address next to pc, or a jump from it.
LEMMA PcTypes ==
  ASSUME pc \in WordNum, NEW n \in Int
  PROVE  NextI \in WordNum /\ Wrap(pc + n) \in WordNum
<1>1. pc + n \in Int /\ pc + 4 \in Int
  BY Widths, SMT DEF WordNum
<1> QED BY <1>1, WrapType DEF NextI

\* The result of an instruction is a word.
LEMMA ResultType ==
  ASSUME pc \in WordNum, regs \in Regs, NEW in \in Instr, NEW row, NEW c \in Csrs
  PROVE  Result(in, row, c) \in WordNum
<1>1. in.imm \in Int /\ in.csr \in CsrId
  BY InstrType
<1>2. NextI \in WordNum /\ Wrap(pc + in.imm) \in WordNum /\ Wrap(in.imm) \in WordNum
  BY <1>1, PcTypes, WrapType
<1>3. c[in.csr] \in WordNum
  BY <1>1 DEF Csrs
<1>4. Alu(row.alu_mode, regs[in.rs1], Operand2(in, row)) \in WordNum
  BY OperandType, AluType
<1> QED BY <1>2, <1>3, <1>4 DEF Result

\* What a CSR instruction writes is a word.
LEMMA CsrResultType ==
  ASSUME regs \in Regs, NEW in \in Instr, NEW row, NEW c \in Csrs
  PROVE  CsrResult(in, row, c) \in WordNum
<1>1. c[in.csr] \in WordNum /\ regs[in.rs1] \in WordNum /\ in.uimm \in WordNum
  BY InstrType DEF Csrs, Regs
<1> DEFINE x == c[in.csr]
           r == regs[in.rs1]
           u == in.uimm
<1>2. x \in WordNum /\ r \in WordNum /\ u \in WordNum
  BY <1>1
<1>3. CsrResult(in, row, c) \in {r, BitOr(x, r), BitAnd(x, BitNot(r)), u, BitOr(x, u),
                                 BitAnd(x, BitNot(u)), 0}
  BY DEF CsrResult
<1> HIDE DEF x, r, u
<1>4. /\ BitOr(x, r) \in WordNum /\ BitAnd(x, BitNot(r)) \in WordNum
      /\ BitOr(x, u) \in WordNum /\ BitAnd(x, BitNot(u)) \in WordNum
  BY <1>2, BitOpsType
<1>5. 0 \in WordNum
  BY Widths, SMT DEF WordNum
<1> QED BY <1>2, <1>3, <1>4, <1>5

\* The next pc is a word.
LEMMA NextPcType ==
  ASSUME pc \in WordNum, regs \in Regs, NEW in \in Instr, in.op \in DOMAIN Opcodes, NEW res
  PROVE  NextPc(in, Opcodes[in.op], res) \in WordNum
<1> DEFINE row == Opcodes[in.op]
           t == Wrap(regs[in.rs1] + in.imm)
<1>1. row.pc_mode \in {"NEXT_I", "COND_JUMP", "COND_JUMP_INV", "REL_JUMP", "INDIRECT"}
  BY RowTypes
<1>2. NextI \in WordNum /\ Wrap(pc + in.imm) \in WordNum
  BY InstrType, PcTypes
<1>3. t \in WordNum
  <2>1. regs[in.rs1] + in.imm \in Int
    BY InstrType, OperandType, Widths, SMT DEF WordNum
  <2> QED BY <2>1, WrapType
<1> HIDE DEF t
<1>4. t - (t % 2) \in WordNum
  <2>1. t \in Nat /\ t <= WORD - 1 /\ WORD \in Nat
    BY <1>3, Widths, SMT DEF WordNum
  <2> QED BY <2>1 DEF WordNum
<1>5. NextPc(in, row, res) \in {NextI, Wrap(pc + in.imm), t - (t % 2)}
  <2> HIDE DEF row
  <2> QED BY <1>1 DEF NextPc, t
<1> QED BY <1>2, <1>4, <1>5

-----------------------------------------------------------------------------
(* The type invariant.                                                     *)

\* Every entry of a queue, in use or not, is of one type.
Holds(q, Entry) == q.entry \in [0 .. FifoSize - 1 -> Entry]

Phase == {"load", "reset", "main", "memory", "cpu", "finished", "crashed"}

ProcessorTypes ==
  /\ pc \in WordNum /\ regs \in Regs /\ regs[0] = 0 /\ csr \in Csrs
  /\ current_instr \in WordNum /\ retired \in Nat
  /\ stalled => Decode[current_instr].op \in DOMAIN Opcodes

QueueTypes ==
  /\ Holds(writeReq, Request)
  /\ writeReq.count = 1 => Front(writeReq).mask \in {1, 2, 4}
  /\ Holds(readReq, WordNum) /\ Holds(fetchReq, WordNum)
  /\ Holds(readData, WordBytes) /\ Holds(fetchData, WordBytes)

MainTypes ==
  /\ image \in Images /\ variant \in Variants
  /\ at \in Phase
  /\ calls \in 0 .. image.cycles /\ old_cycle \in Nat

\* The parser's word is a word.
RomTypes == DOMAIN rom = {"at", "pos", "a", "d", "i"} /\ rom.d \in WordNum

TypeInv ==
  /\ MainTypes /\ ProcessorTypes /\ QueueTypes
  /\ ram \in Memory /\ RomTypes

\* What is pushed is of the type of the queue.
LEMMA HoldsPush ==
  ASSUME NEW q, NEW Entry, Queue(q), Holds(q, Entry), NEW v \in Entry
  PROVE  Holds(Push(q, v), Entry)
<1>1. Push(q, v).entry = [q.entry EXCEPT ![q.write_ptr] = v]
  BY DEF Queue, Push
<1> QED BY <1>1 DEF Holds

\* The other operations leave the entries alone.
LEMMA HoldsRest ==
  ASSUME NEW q, NEW Entry, Queue(q), Holds(q, Entry)
  PROVE  Holds(Pop(q), Entry) /\ Holds(Clear(q), Entry) /\ Front(q) \in Entry
<1>1. Pop(q).entry = q.entry /\ Clear(q).entry = q.entry
  BY DEF Queue, Pop, Clear
<1>2. q.read_ptr \in 0 .. FifoSize - 1
  BY DEF Queue
<1> QED BY <1>1, <1>2 DEF Holds, Front

\* A new queue is full of zeros.
LEMMA HoldsNew ==
  ASSUME NEW Entry, NEW zero \in Entry
  PROVE  Holds(NewFifo(zero), Entry)
  BY DEF Holds, NewFifo

\* The ring buffer of the code.
LEMMA QueueIsFifo ==
  ASSUME NEW q, NEW Entry, Queue(q), Holds(q, Entry)
  PROVE  IsFifo(q, Entry)
<1> DEFINE r == q.read_ptr
           n == q.count
<1>1. /\ FifoSize \in Nat \ {0} /\ r \in 0 .. FifoSize - 1 /\ (n = 0 \/ n = 1)
      /\ q.write_ptr = IF n = 0 THEN r ELSE After(r)
  BY FifoSizeAssumption DEF Queue
<1> HIDE DEF r, n
<1>2. n \in 0 .. FifoSize /\ After(r) \in 0 .. FifoSize - 1
  BY <1>1 DEF After
<1>3. q.write_ptr = (r + n) % FifoSize
  <2>1. CASE n = 0
    BY <1>1, <2>1
  <2>2. CASE n = 1 /\ r # FifoSize - 1
    BY <1>1, <2>2 DEF After
  <2>3. CASE n = 1 /\ r = FifoSize - 1
    <3>1. q.write_ptr = 0 /\ r + n = FifoSize
      BY <1>1, <2>3 DEF After
    <3>2. FifoSize % FifoSize = 0
      BY <1>1
    <3> QED BY <3>1, <3>2
  <2> QED BY <1>1, <2>1, <2>2, <2>3
<1> QED BY <1>1, <1>2, <1>3 DEF IsFifo, Holds, r, n

\* Zero is a word, in numbers and in bytes.
LEMMA Zeros ==
  0 \in WordNum /\ NoBytes \in WordBytes /\ 0 \in 0 .. BYTE - 1 /\ BYTE - 1 \in 0 .. BYTE - 1
<1>1. BYTE = 4 \/ BYTE = 16 \/ BYTE = 256
  BY BytePowers
<1>2. 0 \in 0 .. BYTE - 1 /\ BYTE - 1 \in 0 .. BYTE - 1
  BY <1>1
<1> QED BY <1>2, Widths, SMT DEF WordNum, NoBytes, WordBytes

\* What a load writes is a word.
LEMMA LoadedType ==
  ASSUME NEW row, row.bytes \in {1, 2, 4}, NEW data \in WordBytes
  PROVE  Loaded(row, data) \in WordNum
<1> DEFINE fill == IF row.signed /\ data[row.bytes - 1] >= BYTE \div 2 THEN BYTE - 1 ELSE 0
           b == [i \in Lane |-> IF i < row.bytes THEN data[i] ELSE fill]
<1>1. fill \in 0 .. BYTE - 1
  BY Zeros
<1> HIDE DEF fill
<1>2. b \in WordBytes
  BY <1>1 DEF WordBytes
<1>3. Loaded(row, data) = Number(b)
  BY DEF Loaded, fill
<1> HIDE DEF b
<1> QED BY <1>2, <1>3, NumberType

\* An address is a word.
LEMMA AddressType ==
  ASSUME regs \in Regs, NEW in \in Instr
  PROVE  Wrap(regs[in.rs1] + in.imm) \in WordNum
<1>1. regs[in.rs1] + in.imm \in Int
  BY InstrType, OperandType, Widths, SMT DEF WordNum
<1> QED BY <1>1, WrapType

\* Completing an instruction keeps the types.
LEMMA CompletesTypes ==
  ASSUME ProcessorTypes, NEW in \in Instr, in.op \in DOMAIN Opcodes, NEW res \in WordNum,
         NEW c \in Csrs, Completes(in, Opcodes[in.op], res, c)
  PROVE  pc' \in WordNum /\ regs' \in Regs /\ regs'[0] = 0 /\ csr' \in Csrs /\ retired' \in Nat
<1> DEFINE row == Opcodes[in.op]
           d == IF WritesCsr(in, row) THEN [c EXCEPT ![in.csr] = CsrResult(in, row, c)] ELSE c
<1>1. pc' \in WordNum
  BY NextPcType DEF ProcessorTypes, Completes
<1>2. regs' \in Regs /\ regs'[0] = 0
  BY InstrType DEF ProcessorTypes, Completes, Regs
<1>3. csr' \in Csrs
  <2>1. CsrResult(in, row, c) \in WordNum
    BY CsrResultType DEF ProcessorTypes
  <2>2. d \in Csrs
    BY <2>1 DEF Csrs
  <2>3. csr' = CountTime(d)
    BY DEF Completes
  <2> HIDE DEF d
  <2> QED BY <2>2, <2>3, CountTypes
<1>4. retired' \in Nat
  BY DEF ProcessorTypes, Completes
<1> QED BY <1>1, <1>2, <1>3, <1>4

\* So does waiting, or failing.
LEMMA WaitsTypes ==
  ASSUME ProcessorTypes, NEW c \in Csrs, Waits(c) \/ Fails(c) \/ RaiseException(c)
  PROVE  pc' \in WordNum /\ regs' \in Regs /\ regs'[0] = 0 /\ csr' \in Csrs /\ retired' \in Nat
<1>1. NextI \in WordNum
  BY PcTypes DEF ProcessorTypes
<1>2. CountTime(c) \in Csrs
  BY CountTypes
<1> QED BY <1>1, <1>2 DEF ProcessorTypes, Waits, Fails, RaiseException

\* Executing an instruction keeps the types of the registers and the queues.
LEMMA ExecuteTypes ==
  ASSUME Inv, TypeInv, NEW in \in Instr, in.op \in DOMAIN Opcodes, NEW c \in Csrs,
         NEW dispatched, Execute(in, dispatched, c)
  PROVE  /\ pc' \in WordNum /\ regs' \in Regs /\ regs'[0] = 0 /\ csr' \in Csrs /\ retired' \in Nat
         /\ Holds(writeReq', Request)
         /\ writeReq'.count = 1 => Front(writeReq').mask \in {1, 2, 4}
         /\ Holds(readReq', WordNum) /\ Holds(readData', WordBytes)
<1> DEFINE row == Opcodes[in.op]
<1>1. /\ ProcessorTypes /\ Holds(writeReq, Request) /\ Holds(readReq, WordNum)
      /\ Holds(readData, WordBytes) /\ Queue(writeReq) /\ Queue(readReq) /\ Queue(readData)
      /\ writeReq.count = 1 => Front(writeReq).mask \in {1, 2, 4}
  BY DEF Inv, QueuesInv, TypeInv, QueueTypes
<1>2. regs \in Regs /\ pc \in WordNum
  BY <1>1 DEF ProcessorTypes
<1>3. CASE RaiseException(c) /\ UNCHANGED <<writeReq, readReq, readData>>
  BY <1>1, <1>3, WaitsTypes
<1>4. CASE row.memory_mode = "STORE" /\ Store(in, row, c) /\ UNCHANGED <<readReq, readData>>
  <2>1. CASE Full(writeReq)
    BY <1>1, <1>4, <2>1, WaitsTypes DEF Store
  <2>2. CASE ~Full(writeReq)
    <3> DEFINE w == [address |-> Wrap(regs[in.rs1] + in.imm), mask |-> row.bytes,
                     data |-> Bytes(regs[in.rs2])]
    <3>1. Completes(in, row, 0, c) /\ writeReq' = Push(writeReq, w)
      BY <1>4, <2>2 DEF Store, MemoryWriteRequest
    <3>2. row.bytes \in {1, 2, 4}
      BY <1>4, RowTypes
    <3>3. w \in Request
      <4>1. regs[in.rs2] \in Int
        BY <1>2, OperandType, Widths, SMT DEF WordNum
      <4>2. Bytes(regs[in.rs2]) \in WordBytes
        BY <4>1, BytesType
      <4> QED BY <1>2, <3>2, <4>2, AddressType DEF Request
    <3>4. w.mask = row.bytes
      OBVIOUS
    <3> HIDE DEF w
    <3>5. Holds(writeReq', Request)
      BY <1>1, <3>1, <3>3, HoldsPush
    <3>6. writeReq'.count = 1 => Front(writeReq').mask \in {1, 2, 4}
      <4>1. CASE writeReq.count = 0
        <5>1. Front(writeReq') = w
          BY <1>1, <3>1, <4>1, PushQueue
        <5> QED BY <3>2, <3>4, <5>1
      <4>2. CASE writeReq.count = 1
        BY <1>1, <3>1, <4>2 DEF Push, Queue
      <4> QED BY <1>1, <4>1, <4>2, Levels
    <3>7. 0 \in WordNum
      BY Zeros
    <3> QED BY <1>1, <1>4, <3>1, <3>5, <3>6, <3>7, CompletesTypes
  <2> QED BY <2>1, <2>2
<1>5. CASE RequestLoad(in, c) /\ UNCHANGED <<writeReq, readData>>
  <2>1. readReq' = readReq \/ readReq' = Push(readReq, Wrap(regs[in.rs1] + in.imm))
    BY <1>5 DEF RequestLoad, MemoryReadRequest
  <2>2. Holds(readReq', WordNum)
    BY <1>1, <1>2, <2>1, AddressType, HoldsPush
  <2>3. Waits(c)
    BY <1>5 DEF RequestLoad
  <2> QED BY <1>1, <1>5, <2>2, <2>3, WaitsTypes
<1>6. CASE row.memory_mode = "LOAD" /\ TakeLoad(in, row, c) /\ UNCHANGED <<writeReq, readReq>>
  <2>1. CASE Empty(readData)
    BY <1>1, <1>6, <2>1, WaitsTypes DEF TakeLoad
  <2>2. CASE ~Empty(readData)
    <3>1. Completes(in, row, Loaded(row, Front(readData)), c) /\ readData' = Pop(readData)
      BY <1>6, <2>2 DEF TakeLoad, MemoryReadData
    <3>2. Loaded(row, Front(readData)) \in WordNum
      <4>1. row.bytes \in {1, 2, 4}
        BY <1>6, RowTypes
      <4>2. Front(readData) \in WordBytes
        BY <1>1, HoldsRest
      <4> QED BY <4>1, <4>2, LoadedType
    <3>3. Holds(readData', WordBytes)
      BY <1>1, <3>1, HoldsRest
    <3> QED BY <1>1, <1>6, <3>1, <3>2, <3>3, CompletesTypes
  <2> QED BY <2>1, <2>2
<1>7. CASE Completes(in, row, Result(in, row, c), c) /\ UNCHANGED <<writeReq, readReq, readData>>
  <2>1. Result(in, row, c) \in WordNum
    BY <1>2, ResultType
  <2> QED BY <1>1, <1>7, <2>1, CompletesTypes
<1> QED BY <1>3, <1>4, <1>5, <1>6, <1>7 DEF Execute

\* The load in flight is that of the stalled instruction, and the stalled
\* instruction the one at pc.
DataInv ==
  stalled =>
    LET in == Decode[current_instr]
        a  == Wrap(regs[in.rs1] + in.imm)
    IN /\ current_instr = Number(ReadWord(ram, pc))
       /\ readReq.count = 1 => Front(readReq) = a
       /\ readData.count = 1 => Front(readData) = ReadWord(ram, a)

IInv == Inv /\ TypeInv /\ DataInv

-----------------------------------------------------------------------------
(* Every step keeps the types.                                             *)

\* The types hold when main starts.
LEMMA InitTypes == Init => TypeInv /\ DataInv
<1> SUFFICES ASSUME Init PROVE TypeInv /\ DataInv
  OBVIOUS
<1>1. MainTypes
  <2>1. image.cycles \in Nat
    BY ImagesAssumption DEF Init
  <2> QED BY <2>1 DEF Init, MainTypes, Phase
<1>2. ProcessorTypes
  BY Zeros, NRegsAssumption DEF Init, ProcessorTypes, Reg, Regs, Csrs
<1>3. QueueTypes
  <2> DEFINE w == [address |-> 0, mask |-> 0, data |-> NoBytes]
  <2>1. w \in Request
    BY Zeros DEF Request
  <2>2. writeReq = NewFifo(w)
    BY DEF Init, MemoryInit
  <2> HIDE DEF w
  <2>3. Holds(writeReq, Request) /\ writeReq.count = 0
    BY <2>1, <2>2, HoldsNew, NewQueue
  <2>4. Holds(readReq, WordNum) /\ Holds(fetchReq, WordNum)
    BY Zeros, HoldsNew DEF Init, MemoryInit
  <2>5. Holds(readData, WordBytes) /\ Holds(fetchData, WordBytes)
    BY Zeros, HoldsNew DEF Init, MemoryInit
  <2> QED BY <2>3, <2>4, <2>5 DEF QueueTypes
<1>4. ram \in Memory /\ RomTypes /\ stalled = FALSE
  BY Zeros DEF Init, MemoryInit, RomInit, RomTypes, Memory
<1> QED BY <1>1, <1>2, <1>3, <1>4 DEF TypeInv, DataInv

\* A digit read from the file keeps the parser's word a word.
LEMMA ReadRomTypes ==
  ASSUME ram \in Memory, RomTypes, ReadRom
  PROVE  ram' \in Memory /\ RomTypes'
<1>1. ASSUME NEW d \in WordNum, NEW p, StoreWord(d, p)
      PROVE  ram' \in Memory /\ RomTypes'
  <2>1. Bytes(d) \in [Lane -> 0 .. BYTE - 1]
    <3>1. d \in Int
      BY Widths, SMT DEF WordNum
    <3> QED BY <3>1, BytesType DEF WordBytes
  <2>2. ASSUME NEW l \in Location PROVE Bytes(d)[l % 4] \in 0 .. BYTE - 1
    <3>1. l % 4 \in Lane
      BY RamSizeAssumption DEF Location, Lane
    <3> QED BY <2>1, <3>1
  <2>3. ram' = [l \in Location |-> IF l \div 4 = rom.a THEN Bytes(d)[l % 4] ELSE ram[l]]
    BY <1>1 DEF StoreWord
  <2>4. ram' \in Memory
    BY <2>2, <2>3 DEF Memory
  <2>5. rom' = [rom EXCEPT !.at = p, !.pos = NextPos, !.a = @ + 1, !.d = d]
    BY <1>1 DEF StoreWord
  <2>6. RomTypes'
    BY <2>5 DEF RomTypes
  <2> QED BY <2>4, <2>6
<1>2. CASE LineStart
  <2>1. \A n \in Digit : n \in WordNum
    BY Widths, SMT DEF Digit, WordNum
  <2>2. rom'.d = rom.d \/ rom'.d \in Digit \cup {0}
    BY <1>2 DEF RomTypes, LineStart, ReturnEarly
  <2>3. DOMAIN rom' = DOMAIN rom /\ ram' = ram
    BY <1>2 DEF LineStart, ReturnEarly
  <2> QED BY <2>1, <2>2, <2>3, Zeros DEF RomTypes
<1>3. CASE WordDigits
  <2>1. CASE Char \in Digit
    <3>1. Wrap(16 * rom.d + Char) \in WordNum
      <4>1. 16 * rom.d + Char \in Int
        BY <2>1, Widths, SMT DEF RomTypes, Digit, WordNum
      <4> QED BY <4>1, WrapType
    <3> DEFINE d == Wrap(16 * rom.d + Char)
    <3>2. StoreWord(d, "rest") \/
            (rom' = [rom EXCEPT !.pos = NextPos, !.i = @ + 1, !.d = d] /\ UNCHANGED ram)
      BY <1>3, <2>1 DEF WordDigits, Digit, NL, SPACE, TAB, CR, JUNK, EOF
    <3> HIDE DEF d
    <3>3. d \in WordNum
      BY <3>1 DEF d
    <3>4. CASE rom' = [rom EXCEPT !.pos = NextPos, !.i = @ + 1, !.d = d] /\ UNCHANGED ram
      BY <3>3, <3>4 DEF RomTypes
    <3> QED BY <1>1, <3>2, <3>3, <3>4
  <2>2. CASE Char \notin Digit
    <3>1. ReturnEarly \/ \E p : StoreWord(rom.d, p)
      BY <1>3, <2>2 DEF WordDigits
    <3>2. rom.d \in WordNum
      BY DEF RomTypes
    <3> QED BY <1>1, <3>1, <3>2 DEF ReturnEarly, RomTypes
  <2> QED BY <2>1, <2>2
<1>4. CASE RestOfLine
  BY <1>4 DEF RestOfLine, RomTypes
<1> QED BY <1>2, <1>3, <1>4 DEF ReadRom

\* The actions of main.
LEMMA MainTypesKept ==
  ASSUME IInv, Load \/ RiscvReset \/ RunCycle \/ Finish \/ DivideTrap
  PROVE  TypeInv' /\ DataInv'
<1>1. TypeInv /\ DataInv /\ Inv /\ QueuesInv
  BY DEF IInv, Inv
<1>2. CASE Load
  <2>1. /\ ReadRom /\ at' \in Phase
        /\ UNCHANGED <<image, variant, calls, old_cycle, pc, regs, csr, current_instr, retired,
                       stalled, writeReq, readReq, readData, fetchReq, fetchData>>
    BY <1>2 DEF Load, cpuVars, queues, Phase
  <2>2. ~stalled
    BY <1>1, <1>2 DEF Load, Inv, PhaseInv, Fresh
  <2>3. ram' \in Memory /\ RomTypes'
    BY <1>1, <2>1, ReadRomTypes DEF TypeInv
  <2>4. MainTypes' /\ ProcessorTypes' /\ QueueTypes'
    BY <1>1, <2>1 DEF TypeInv, MainTypes, ProcessorTypes, QueueTypes
  <2> QED BY <2>1, <2>2, <2>3, <2>4 DEF TypeInv, DataInv
<1>3. CASE RiscvReset
  <2>1. /\ at' = "main" /\ pc' = 0 /\ regs' = [r \in Reg |-> 0]
        /\ readData' = Clear(readData) /\ fetchData' = Clear(fetchData)
        /\ writeReq' = Clear(writeReq) /\ readReq' = Clear(readReq)
        /\ UNCHANGED <<image, variant, calls, old_cycle, csr, current_instr, retired,
                       stalled, fetchReq, ram, rom>>
    BY <1>3 DEF RiscvReset, MemoryReset, romVars
  <2>2. ~stalled
    BY <1>1, <1>3 DEF RiscvReset, Inv, PhaseInv, Fresh
  <2>3. MainTypes'
    BY <1>1, <2>1 DEF TypeInv, MainTypes, Phase
  <2>4. ProcessorTypes'
    BY <1>1, <2>1, Zeros, NRegsAssumption DEF TypeInv, ProcessorTypes, Reg, Regs
  <2>5. writeReq'.count = 0
    BY <1>1, <2>1, ClearQueue DEF QueuesInv
  <2>6. QueueTypes'
    <3>1. Holds(writeReq', Request) /\ Holds(readReq', WordNum)
      BY <1>1, <2>1, HoldsRest DEF QueuesInv, TypeInv, QueueTypes
    <3>2. Holds(readData', WordBytes) /\ Holds(fetchData', WordBytes)
      BY <1>1, <2>1, HoldsRest DEF QueuesInv, TypeInv, QueueTypes
    <3> QED BY <1>1, <2>1, <2>5, <3>1, <3>2 DEF TypeInv, QueueTypes
  <2> QED BY <1>1, <2>1, <2>2, <2>3, <2>4, <2>6 DEF TypeInv, RomTypes, DataInv
<1>4. CASE RunCycle \/ Finish \/ DivideTrap
  <2>1. /\ at' \in Phase /\ calls' \in {calls, calls + 1} /\ old_cycle' \in {old_cycle, cycle_cnt}
        /\ calls' = calls + 1 => calls < image.cycles
        /\ retired' \in {retired, 0}
        /\ UNCHANGED <<image, variant, pc, regs, csr, current_instr, stalled, ram, rom,
                       writeReq, readReq, readData, fetchReq, fetchData>>
    <3>1. CASE RunCycle
      BY <3>1 DEF RunCycle, memVars, queues, romVars, Phase
    <3>2. CASE Finish \/ DivideTrap
      <4>1. /\ at' \in Phase
            /\ UNCHANGED <<image, variant, calls, old_cycle, cpuVars, memVars, romVars>>
        BY <3>2 DEF Finish, DivideTrap, Phase
      <4>2. calls \in Int
        BY <1>1, ImagesAssumption DEF TypeInv, MainTypes
      <4> QED BY <4>1, <4>2 DEF cpuVars, memVars, queues, romVars
    <3> QED BY <1>4, <3>1, <3>2
  <2>2. image.cycles \in Nat /\ cycle_cnt \in Nat
    BY <1>1, ImagesAssumption DEF TypeInv, MainTypes, Inv, PhaseInv
  <2>3. MainTypes'
    BY <1>1, <2>1, <2>2 DEF TypeInv, MainTypes
  <2>4. ProcessorTypes' /\ QueueTypes' /\ DataInv'
    BY <1>1, <2>1 DEF TypeInv, ProcessorTypes, QueueTypes, DataInv
  <2> QED BY <1>1, <2>1, <2>3, <2>4 DEF TypeInv, RomTypes
<1> QED BY <1>2, <1>3, <1>4

\* The memory's turn.
LEMMA MemoryTypesKept ==
  ASSUME IInv, MemoryTurn
  PROVE  TypeInv' /\ DataInv'
<1>1. TypeInv /\ DataInv /\ Inv
  BY DEF IInv
<1>2. /\ at = "memory" /\ at' = "cpu" /\ MemoryRun
      /\ UNCHANGED <<image, variant, calls, old_cycle, pc, regs, csr, current_instr, retired,
                     stalled, rom>>
  BY DEF MemoryTurn, cpuVars, romVars
<1>3. /\ Queue(writeReq) /\ Queue(readReq) /\ Queue(readData) /\ Queue(fetchReq)
      /\ Queue(fetchData) /\ ram \in Memory
      /\ Holds(writeReq, Request) /\ Holds(readReq, WordNum) /\ Holds(fetchReq, WordNum)
      /\ Holds(readData, WordBytes) /\ Holds(fetchData, WordBytes)
      /\ writeReq.count = 1 => Front(writeReq).mask \in {1, 2, 4}
  BY <1>1 DEF Inv, QueuesInv, TypeInv, QueueTypes
<1>4. MainTypes' /\ ProcessorTypes' /\ RomTypes'
  BY <1>1, <1>2 DEF TypeInv, MainTypes, ProcessorTypes, RomTypes, Phase
<1>5. writeReq'.count = 0
  BY <1>1, ServeEffect
<1>6. CASE CanWrite
  <2>1. ServeWrite /\ writeReq.count = 1
    BY <1>2, <1>3, <1>6, Levels DEF MemoryRun, CanWrite
  <2>2. ~stalled
    BY <1>1, <2>1 DEF Inv, OneInFlight
  <2>3. Front(writeReq) \in Request
    BY <1>3, HoldsRest
  <2>4. ram' \in Memory
    <3> DEFINE w == Front(writeReq)
    <3>1. w.address \in WordNum /\ w.mask \in {1, 2, 4} /\ w.data \in WordBytes
      BY <1>3, <2>1, <2>3 DEF Request
    <3>2. ram' = WriteWord(ram, w.address, w.mask, w.data)
      BY <2>1 DEF ServeWrite, Apply
    <3> HIDE DEF w
    <3> QED BY <1>3, <3>1, <3>2, WriteBytes
  <2>5. Holds(writeReq', Request)
    BY <1>3, <2>1, HoldsRest DEF ServeWrite
  <2>6. QueueTypes'
    BY <1>3, <1>5, <2>1, <2>5 DEF ServeWrite, QueueTypes
  <2> QED BY <1>2, <1>4, <2>2, <2>4, <2>6 DEF TypeInv, DataInv
<1>7. CASE ~CanWrite /\ CanRead
  <2>1. ServeRead /\ readReq.count = 1
    BY <1>2, <1>3, <1>7, Levels DEF MemoryRun, CanRead
  <2>2. stalled /\ readData.count = 0
    BY <1>1, <1>3, <2>1, Levels DEF Inv, OneInFlight
  <2>3. Front(readReq) \in WordNum
    BY <1>3, HoldsRest
  <2>4. ReadWord(ram, Front(readReq)) \in WordBytes
    BY <1>3, <2>3, ReadBytes
  <2>5. Holds(readReq', WordNum) /\ Holds(readData', WordBytes)
    BY <1>3, <2>1, <2>4, HoldsRest, HoldsPush DEF ServeRead
  <2>6. QueueTypes'
    BY <1>3, <1>5, <2>1, <2>5 DEF ServeRead, QueueTypes
  <2>7. readReq'.count = 0
    BY <1>1, ServeEffect
  <2>8. Front(readData') = ReadWord(ram, Front(readReq))
    BY <1>3, <2>1, <2>2, PushQueue DEF ServeRead
  <2>9. DataInv'
    BY <1>1, <1>2, <2>1, <2>2, <2>7, <2>8 DEF DataInv, ServeRead
  <2> QED BY <1>3, <1>4, <2>1, <2>6, <2>9 DEF TypeInv, ServeRead
<1>8. CASE ~CanWrite /\ ~CanRead
  <2>1. CASE CanFetch
    <3>1. ServeFetch
      BY <1>2, <1>8, <2>1 DEF MemoryRun
    <3>2. Front(fetchReq) \in WordNum
      BY <1>3, HoldsRest
    <3>3. ReadWord(ram, Front(fetchReq)) \in WordBytes
      BY <1>3, <3>2, ReadBytes
    <3>4. Holds(fetchReq', WordNum) /\ Holds(fetchData', WordBytes)
      BY <1>3, <3>1, <3>3, HoldsRest, HoldsPush DEF ServeFetch
    <3>5. QueueTypes'
      BY <1>3, <1>5, <3>1, <3>4 DEF ServeFetch, QueueTypes
    <3> QED BY <1>1, <1>2, <1>3, <1>4, <3>1, <3>5 DEF TypeInv, DataInv, ServeFetch
  <2>2. CASE ~CanFetch
    <3>1. UNCHANGED <<ram, writeReq, readReq, readData, fetchReq, fetchData>>
      BY <1>2, <1>8, <2>2 DEF MemoryRun, memVars, queues
    <3> QED BY <1>1, <1>2, <1>4, <3>1 DEF TypeInv, QueueTypes, DataInv
  <2> QED BY <2>1, <2>2
<1> QED BY <1>6, <1>7, <1>8

\* The fetched word decodes to an instruction or to none.
LEMMA FetchedType ==
  ASSUME IInv
  PROVE  /\ Fetched \in WordNum /\ Decode[Fetched] \in Instr
         /\ Decode[Fetched].op # "invalid" => Decode[Fetched].op \in DOMAIN Opcodes
<1>1. Queue(fetchData) /\ Holds(fetchData, WordBytes)
  BY DEF IInv, Inv, QueuesInv, TypeInv, QueueTypes
<1>2. Front(fetchData) \in WordBytes
  BY <1>1, HoldsRest
<1>3. Fetched \in WordNum
  BY <1>2, NumberType DEF Fetched
<1> QED BY <1>3, DecodeType, InstrType

\* The processor's turn, when it does not execute an instruction.
LEMMA IdleTypesKept ==
  ASSUME IInv, RiscvRun, NEW c \in Csrs, Misaligned(c) \/ AwaitFetch(c)
  PROVE  TypeInv' /\ DataInv'
<1>1. TypeInv /\ DataInv /\ Inv /\ ProcessorTypes
  BY DEF IInv, TypeInv
<1>2. /\ UNCHANGED <<image, variant, calls, old_cycle, rom, ram, current_instr, stalled>>
      /\ UNCHANGED <<pc, regs, writeReq, readReq, readData, fetchData>>
      /\ at' \in Phase
      /\ Waits(c) \/ Fails(c)
      /\ fetchReq' = fetchReq \/ fetchReq' = Push(fetchReq, pc)
  BY DEF RiscvRun, Misaligned, AwaitFetch, Untouched, Waits, Fails, queues, romVars,
         MemoryFetchRequest, NextTurn, Phase
<1>3. csr' \in Csrs /\ retired' \in Nat
  BY <1>1, <1>2, WaitsTypes
<1>4. Holds(fetchReq', WordNum)
  BY <1>1, <1>2, HoldsPush DEF Inv, QueuesInv, TypeInv, QueueTypes, ProcessorTypes
<1>5. MainTypes' /\ ProcessorTypes' /\ QueueTypes' /\ RomTypes'
  BY <1>1, <1>2, <1>3, <1>4 DEF TypeInv, MainTypes, ProcessorTypes, QueueTypes, RomTypes
<1> QED BY <1>1, <1>2, <1>5 DEF TypeInv, DataInv

\* The processor's turn, when the word arrives.
LEMMA TakeFetchTypesKept ==
  ASSUME IInv, RiscvRun, NEW c \in Csrs, TakeFetch(c)
  PROVE  TypeInv' /\ DataInv'
<1> DEFINE in == Decode[Fetched]
<1>1. TypeInv /\ DataInv /\ Inv /\ ProcessorTypes
  BY DEF IInv, TypeInv
<1>2. /\ UNCHANGED <<image, variant, calls, old_cycle, rom, ram, fetchReq>>
      /\ at' \in Phase /\ at = "cpu" /\ ~stalled /\ fetch_in_progress /\ ~Empty(fetchData)
      /\ current_instr' = Fetched /\ fetchData' = Pop(fetchData)
  BY DEF RiscvRun, TakeFetch, romVars, MemoryFetchData, NextTurn, Phase
<1>3. /\ Fetched \in WordNum /\ in \in Instr
      /\ in.op # "invalid" => in.op \in DOMAIN Opcodes
  BY FetchedType
<1>4. Holds(fetchData', WordBytes)
  BY <1>1, <1>2, HoldsRest DEF Inv, QueuesInv, TypeInv, QueueTypes
<1>5. CASE in.op = "invalid"
  <2>1. Fails(c) /\ UNCHANGED <<stalled, writeReq, readReq, readData>>
    BY <1>5 DEF TakeFetch
  <2>2. pc' \in WordNum /\ regs' \in Regs /\ regs'[0] = 0 /\ csr' \in Csrs /\ retired' \in Nat
    BY <1>1, <2>1, WaitsTypes
  <2>3. MainTypes' /\ ProcessorTypes' /\ QueueTypes' /\ RomTypes'
    BY <1>1, <1>2, <1>3, <1>4, <2>1, <2>2
       DEF TypeInv, MainTypes, ProcessorTypes, QueueTypes, RomTypes
  <2> QED BY <1>1, <1>2, <2>1, <2>3 DEF TypeInv, DataInv
<1>6. CASE in.op # "invalid"
  <2>1. Execute(in, FALSE, c) /\ in.op \in DOMAIN Opcodes
    BY <1>3, <1>6 DEF TakeFetch
  <2>2. /\ pc' \in WordNum /\ regs' \in Regs /\ regs'[0] = 0 /\ csr' \in Csrs /\ retired' \in Nat
        /\ Holds(writeReq', Request)
        /\ writeReq'.count = 1 => Front(writeReq').mask \in {1, 2, 4}
        /\ Holds(readReq', WordNum) /\ Holds(readData', WordBytes)
    BY <1>1, <1>3, <2>1, ExecuteTypes
  <2>3. MainTypes' /\ ProcessorTypes' /\ QueueTypes' /\ RomTypes'
    BY <1>1, <1>2, <1>3, <1>4, <2>1, <2>2
       DEF TypeInv, MainTypes, ProcessorTypes, QueueTypes, RomTypes
  <2>4. CASE ~stalled'
    BY <1>1, <1>2, <2>3, <2>4 DEF TypeInv, DataInv
  <2>5. CASE stalled'
    <3>1. Queue(readReq) /\ readReq.count = 0 /\ readData.count = 0
      BY <1>1, <1>2, Levels DEF Inv, QueuesInv, OneInFlight
    <3>2. /\ UNCHANGED <<pc, regs, readData>>
          /\ readReq' = Push(readReq, Wrap(regs[in.rs1] + in.imm))
      <4>1. ~Empty(readReq) \/ ~Full(readReq)
        BY <3>1, Levels
      <4>2. writeReq.count = 0 /\ ~Full(writeReq)
        BY <1>1, <1>2, Levels DEF Inv, QueuesInv, ServedInv
      <4>3. RequestLoad(in, c) /\ UNCHANGED readData
        BY <1>2, <2>1, <2>5, <4>2 DEF Execute, Store
      <4> QED BY <3>1, <4>3, Levels DEF RequestLoad, Waits, MemoryReadRequest
    <3>3. Front(readReq') = Wrap(regs[in.rs1] + in.imm)
      BY <3>1, <3>2, PushQueue
    <3>4. Fetched = Number(ReadWord(ram, pc))
      <4>1. fetchData.count = 1
        BY <1>1, <1>2, Levels DEF Inv, QueuesInv
      <4> QED BY <1>1, <4>1 DEF Inv, FetchInv, Fetched
    <3>5. DataInv'
      BY <1>2, <3>1, <3>2, <3>3, <3>4 DEF DataInv
    <3> QED BY <1>1, <1>2, <2>3, <3>5 DEF TypeInv
  <2> QED BY <2>4, <2>5
<1> QED BY <1>5, <1>6

\* The processor's turn, when the data of the stalled load has arrived.
LEMMA RetryTypesKept ==
  ASSUME IInv, RiscvRun, NEW c \in Csrs, Retry(c)
  PROVE  TypeInv' /\ DataInv'
<1> DEFINE in == Decode[current_instr]
<1>1. TypeInv /\ DataInv /\ Inv /\ ProcessorTypes
  BY DEF IInv, TypeInv
<1>2. /\ UNCHANGED <<image, variant, calls, old_cycle, rom, ram, fetchReq, fetchData,
                     current_instr>>
      /\ at' \in Phase /\ at = "cpu" /\ stalled
      /\ Execute(in, read_dispatched, c)
  BY DEF RiscvRun, Retry, romVars, NextTurn, Phase
<1>3. in \in Instr /\ in.op \in DOMAIN Opcodes
  BY <1>1, <1>2, DecodeType DEF ProcessorTypes
<1>4. ~stalled'
  BY <1>1, <1>2, SecondExecution DEF Completed
<1>5. /\ pc' \in WordNum /\ regs' \in Regs /\ regs'[0] = 0 /\ csr' \in Csrs /\ retired' \in Nat
      /\ Holds(writeReq', Request)
      /\ writeReq'.count = 1 => Front(writeReq').mask \in {1, 2, 4}
      /\ Holds(readReq', WordNum) /\ Holds(readData', WordBytes)
  BY <1>1, <1>2, <1>3, ExecuteTypes
<1>6. MainTypes' /\ ProcessorTypes' /\ QueueTypes' /\ RomTypes'
  BY <1>1, <1>2, <1>4, <1>5 DEF TypeInv, MainTypes, ProcessorTypes, QueueTypes, RomTypes
<1> QED BY <1>1, <1>2, <1>4, <1>6 DEF TypeInv, DataInv

\* The types and the data in flight are kept by every step.
LEMMA StepTypes ==
  ASSUME IInv, [Next]_vars
  PROVE  IInv'
<1>1. Inv'
  BY StepInv DEF IInv
<1>2. CASE RiscvRun
  <2>1. CountCycle \in Csrs
    BY CountTypes DEF IInv, TypeInv, ProcessorTypes
  <2>2. \/ Misaligned(CountCycle) \/ AwaitFetch(CountCycle)
        \/ TakeFetch(CountCycle) \/ Retry(CountCycle)
    BY <1>2 DEF RiscvRun
  <2> QED BY <1>1, <1>2, <2>1, <2>2, IdleTypesKept, TakeFetchTypesKept, RetryTypesKept DEF IInv
<1>3. CASE UNCHANGED vars
  BY <1>1, <1>3 DEF IInv, vars, cpuVars, memVars, queues, romVars, TypeInv, MainTypes,
     ProcessorTypes, QueueTypes, RomTypes, DataInv
<1>4. CASE MemoryTurn
  BY <1>1, <1>4, MemoryTypesKept DEF IInv
<1>5. CASE Load \/ RiscvReset \/ RunCycle \/ Finish \/ DivideTrap
  BY <1>1, <1>5, MainTypesKept DEF IInv
<1> QED BY <1>2, <1>3, <1>4, <1>5 DEF Next

\* They hold in every reachable state.
LEMMA IInvHolds == Spec => []IInv
<1>1. Init => IInv
  BY InitInv, InitTypes DEF IInv
<1> QED BY <1>1, StepTypes, PTL DEF Spec

\* The emulator's variables keep their C types and the queues' pointers
\* agree with their counts, for every program, width, RAM and queue size.
THEOREM TypeCorrect == Spec => []TypeOK
<1>1. IInv => TypeOK
  <2> SUFFICES ASSUME IInv PROVE TypeOK
    OBVIOUS
  <2>1. /\ IsFifo(writeReq, Request) /\ IsFifo(readReq, WordNum) /\ IsFifo(fetchReq, WordNum)
        /\ IsFifo(readData, WordBytes) /\ IsFifo(fetchData, WordBytes)
    BY QueueIsFifo DEF IInv, Inv, QueuesInv, TypeInv, QueueTypes
  <2> QED BY <2>1 DEF IInv, Inv, FlagsInv, PhaseInv, TypeInv, MainTypes, ProcessorTypes, Phase,
              Regs, Csrs, Memory, TypeOK
<1> QED BY <1>1, IInvHolds, PTL

-----------------------------------------------------------------------------
(* What the instructions compute.                                          *)

ImmediateOps == {"addi", "slti", "sltiu", "xori", "ori", "andi", "slli", "srli", "srai"}

\* The mode of each row that computes.
LEMMA ComputeModes ==
  /\ \A op \in {"add", "addi"} : Opcodes[op].alu_mode = "ADD"
  /\ \A op \in {"slt", "slti"} : Opcodes[op].alu_mode = "SLT"
  /\ \A op \in {"sltu", "sltiu"} : Opcodes[op].alu_mode = "SLTU"
  /\ \A op \in {"xor", "xori"} : Opcodes[op].alu_mode = "XOR"
  /\ \A op \in {"or", "ori"} : Opcodes[op].alu_mode = "OR"
  /\ \A op \in {"and", "andi"} : Opcodes[op].alu_mode = "AND"
  /\ \A op \in {"sll", "slli"} : Opcodes[op].alu_mode = "SLL"
  /\ \A op \in {"srl", "srli"} : Opcodes[op].alu_mode = "SRL"
  /\ \A op \in {"sra", "srai"} : Opcodes[op].alu_mode = "SRA"
  /\ Opcodes["sub"].alu_mode = "SUB" /\ Opcodes["mul"].alu_mode = "MUL"
  /\ \A op \in {"mulh", "mulhsu", "mulhu"} : Opcodes[op].alu_mode \in {"MULH", "MULHSU", "MULHU"}
  /\ Opcodes["div"].alu_mode = "DIV" /\ Opcodes["divu"].alu_mode = "DIVU"
  /\ Opcodes["rem"].alu_mode = "REM" /\ Opcodes["remu"].alu_mode = "REMU"
  /\ Opcodes["auipc"].alu_mode = "PC_U20" /\ Opcodes["lui"].alu_mode = "U20"
  /\ \A op \in ImmediateOps : Opcodes[op].op2_immediate
  /\ \A op \in Machine!Computes \ ImmediateOps : ~Opcodes[op].op2_immediate
<1>1. ASSUME NEW m
      PROVE  /\ Compute(m).alu_mode = m /\ ~Compute(m).op2_immediate
             /\ ComputeImm(m).alu_mode = m /\ ComputeImm(m).op2_immediate
  BY SMTT(30) DEF Compute, ComputeImm, Plain
<1>2. /\ Opcodes["add"] = Compute("ADD") /\ Opcodes["sub"] = Compute("SUB")
      /\ Opcodes["sll"] = Compute("SLL") /\ Opcodes["slt"] = Compute("SLT")
      /\ Opcodes["sltu"] = Compute("SLTU") /\ Opcodes["xor"] = Compute("XOR")
      /\ Opcodes["srl"] = Compute("SRL") /\ Opcodes["sra"] = Compute("SRA")
      /\ Opcodes["or"] = Compute("OR") /\ Opcodes["and"] = Compute("AND")
      /\ Opcodes["mul"] = Compute("MUL") /\ Opcodes["mulh"] = Compute("MULH")
      /\ Opcodes["mulhsu"] = Compute("MULHSU") /\ Opcodes["mulhu"] = Compute("MULHU")
      /\ Opcodes["div"] = Compute("DIV") /\ Opcodes["divu"] = Compute("DIVU")
      /\ Opcodes["rem"] = Compute("REM") /\ Opcodes["remu"] = Compute("REMU")
      /\ Opcodes["auipc"] = Compute("PC_U20") /\ Opcodes["lui"] = Compute("U20")
  BY DEF Opcodes
<1>3. /\ Opcodes["addi"] = ComputeImm("ADD") /\ Opcodes["slti"] = ComputeImm("SLT")
      /\ Opcodes["sltiu"] = ComputeImm("SLTU") /\ Opcodes["xori"] = ComputeImm("XOR")
      /\ Opcodes["ori"] = ComputeImm("OR") /\ Opcodes["andi"] = ComputeImm("AND")
      /\ Opcodes["slli"] = ComputeImm("SLL") /\ Opcodes["srli"] = ComputeImm("SRL")
      /\ Opcodes["srai"] = ComputeImm("SRA")
  BY DEF Opcodes
<1>4. /\ Opcodes["add"].alu_mode = "ADD" /\ Opcodes["sub"].alu_mode = "SUB"
      /\ Opcodes["sll"].alu_mode = "SLL" /\ Opcodes["slt"].alu_mode = "SLT"
      /\ Opcodes["sltu"].alu_mode = "SLTU" /\ Opcodes["xor"].alu_mode = "XOR"
      /\ Opcodes["srl"].alu_mode = "SRL" /\ Opcodes["sra"].alu_mode = "SRA"
      /\ Opcodes["or"].alu_mode = "OR" /\ Opcodes["and"].alu_mode = "AND"
      /\ Opcodes["mul"].alu_mode = "MUL" /\ Opcodes["mulh"].alu_mode = "MULH"
      /\ Opcodes["mulhsu"].alu_mode = "MULHSU" /\ Opcodes["mulhu"].alu_mode = "MULHU"
      /\ Opcodes["div"].alu_mode = "DIV" /\ Opcodes["divu"].alu_mode = "DIVU"
      /\ Opcodes["rem"].alu_mode = "REM" /\ Opcodes["remu"].alu_mode = "REMU"
      /\ Opcodes["auipc"].alu_mode = "PC_U20" /\ Opcodes["lui"].alu_mode = "U20"
      /\ Opcodes["addi"].alu_mode = "ADD" /\ Opcodes["slti"].alu_mode = "SLT"
      /\ Opcodes["sltiu"].alu_mode = "SLTU" /\ Opcodes["xori"].alu_mode = "XOR"
      /\ Opcodes["ori"].alu_mode = "OR" /\ Opcodes["andi"].alu_mode = "AND"
      /\ Opcodes["slli"].alu_mode = "SLL" /\ Opcodes["srli"].alu_mode = "SRL"
      /\ Opcodes["srai"].alu_mode = "SRA"
  BY <1>1, <1>2, <1>3
<1>5. /\ ~Opcodes["add"].op2_immediate /\ ~Opcodes["sub"].op2_immediate
      /\ ~Opcodes["sll"].op2_immediate /\ ~Opcodes["slt"].op2_immediate
      /\ ~Opcodes["sltu"].op2_immediate /\ ~Opcodes["xor"].op2_immediate
      /\ ~Opcodes["srl"].op2_immediate /\ ~Opcodes["sra"].op2_immediate
      /\ ~Opcodes["or"].op2_immediate /\ ~Opcodes["and"].op2_immediate
      /\ ~Opcodes["mul"].op2_immediate /\ ~Opcodes["mulh"].op2_immediate
      /\ ~Opcodes["mulhsu"].op2_immediate /\ ~Opcodes["mulhu"].op2_immediate
      /\ ~Opcodes["div"].op2_immediate /\ ~Opcodes["divu"].op2_immediate
      /\ ~Opcodes["rem"].op2_immediate /\ ~Opcodes["remu"].op2_immediate
      /\ ~Opcodes["auipc"].op2_immediate /\ ~Opcodes["lui"].op2_immediate
  BY <1>1, <1>2
<1>6. /\ Opcodes["addi"].op2_immediate /\ Opcodes["slti"].op2_immediate
      /\ Opcodes["sltiu"].op2_immediate /\ Opcodes["xori"].op2_immediate
      /\ Opcodes["ori"].op2_immediate /\ Opcodes["andi"].op2_immediate
      /\ Opcodes["slli"].op2_immediate /\ Opcodes["srli"].op2_immediate
      /\ Opcodes["srai"].op2_immediate
  BY <1>1, <1>3
<1>7. \A op \in ImmediateOps : Opcodes[op].op2_immediate
  BY <1>6 DEF ImmediateOps
<1>8. \A op \in Machine!Computes \ ImmediateOps : ~Opcodes[op].op2_immediate
  BY <1>5 DEF ImmediateOps, Machine!Computes
<1> QED BY <1>4, <1>7, <1>8

\* Order in two's complement, as a comparison of words.
LEMMA LessSigned ==
  ASSUME NEW a \in WordNum, NEW b \in WordNum
  PROVE  Machine!Less(a, b) <=> Signed(a) < Signed(b)
<1>1. PICK h \in Nat \ {0} : WORD = 2 * h /\ WORD \div 2 = h
  <2>1. WORD = 2 * 128 \/ WORD = 2 * 32768 \/ WORD = 2 * 2147483648
    BY Widths
  <2>2. ASSUME NEW h \in Nat \ {0}, WORD = 2 * h PROVE WORD \div 2 = h
    BY <2>2
  <2>3. \E h \in Nat \ {0} : WORD = 2 * h
    BY <2>1
  <2> QED BY <2>2, <2>3
<1>2. a \in Nat /\ b \in Nat /\ a < WORD /\ b < WORD /\ WORD \in Nat
  BY Widths, SMT DEF WordNum
<1>3. ASSUME NEW x \in Nat, x < WORD
      PROVE  Wrap(x + h) = (IF x < h THEN x + h ELSE x - h)
             /\ Signed(x) = (IF x < h THEN x ELSE x - 2 * h)
  <2>1. CASE x < h
    <3>1. (x + h) % WORD = x + h
      BY <1>1, <1>2, <2>1
    <3> QED BY <1>1, <2>1, <3>1 DEF Wrap, Signed
  <2>2. CASE ~(x < h)
    <3>1. (WORD * 1 + (x - h)) % WORD = x - h
      <4> DEFINE r == x - h
      <4>1. r \in Nat /\ r < WORD /\ WORD \in Nat \ {0}
        BY <1>1, <1>2, <1>3, <2>2
      <4> HIDE DEF r
      <4>2. (WORD * 1 + r) % WORD = r
        BY <4>1, Quotients
      <4> QED BY <4>2 DEF r
    <3>2. WORD * 1 + (x - h) = x + h
      BY <1>1, <1>2
    <3> QED BY <1>1, <2>2, <3>1, <3>2 DEF Wrap, Signed
  <2> QED BY <2>1, <2>2
<1>4. Machine!Less(a, b) <=> Wrap(a + h) < Wrap(b + h)
  BY <1>1, SameOperators, SameWords DEF Machine!Less
<1>5. /\ Wrap(a + h) = (IF a < h THEN a + h ELSE a - h)
      /\ Signed(a) = (IF a < h THEN a ELSE a - 2 * h)
      /\ Wrap(b + h) = (IF b < h THEN b + h ELSE b - h)
      /\ Signed(b) = (IF b < h THEN b ELSE b - 2 * h)
  BY <1>2, <1>3
<1> QED BY <1>1, <1>2, <1>4, <1>5

\* Division and remainder, by truncation and by what they promise.
LEMMA SameQuotient ==
  ASSUME NEW a \in -WORD .. WORD, NEW b \in Int, b # 0
  PROVE  Machine!Quotient(a, b) = DivTrunc(a, b)
<1>1. Machine!Quotient(a, b) = CHOOSE q \in -WORD .. WORD : IsQuotient(a, b, q)
  BY SameWords DEF Machine!Quotient, IsQuotient
<1> QED BY <1>1, QuotientIs

\* The rows that compute do what the instruction promises.
LEMMA ValueIs ==
  ASSUME pc \in WordNum, regs \in Regs, Machine!In \in Instr,
         Machine!In.op \in Machine!Computes, NEW c
  PROVE  Result(Machine!In, Opcodes[Machine!In.op], c) = Machine!Value
<1> DEFINE op  == Machine!In.op
           row == Opcodes[op]
           a   == regs[Machine!In.rs1]
           b   == Operand2(Machine!In, row)
           res == Result(Machine!In, row, c)
<1>1. Machine!A = a /\ a \in WordNum /\ b \in WordNum
  BY OperandType DEF Machine!A
<1>2. /\ \A n : Machine!Wrap(n) = Wrap(n) /\ Machine!Signed(n) = Signed(n)
      /\ \A p : Machine!OneIf(p) = Flag(p)
  BY SameOperators DEF Machine!OneIf, Flag
<1>3. ASSUME NEW imm \in ImmediateOps \cup {""}, op \in ImmediateOps => op = imm
      PROVE  Machine!B(imm) = b
  <2>1. CASE op \in ImmediateOps
    BY <1>2, <1>3, <2>1, ComputeModes DEF Machine!B, Operand2
  <2>2. CASE op \notin ImmediateOps
    <3>1. op # "" /\ op # imm
      BY <1>3, <2>2 DEF Machine!Computes
    <3> QED BY <2>2, <3>1, ComputeModes DEF Machine!B, Operand2
  <2> QED BY <2>1, <2>2
<1>4. ASSUME row.alu_mode \notin {"NEXT_I", "PC_U20", "U20", "CSR"}
      PROVE  res = Alu(row.alu_mode, a, b)
  BY <1>4 DEF Result
<1>5. /\ Machine!XLEN = XLEN /\ Machine!WORD = WORD /\ Machine!BitIndex = BitIndex
      /\ b % XLEN \in 0 .. XLEN - 1
  <2>1. b \in Nat
    BY <1>1, Widths, SMT DEF WordNum
  <2>2. b % XLEN \in 0 .. XLEN - 1
    BY <2>1, ByteBitsAssumption DEF XLEN
  <2> QED BY <2>2, SameWords
<1> SUFFICES res = Machine!Value
  OBVIOUS
<1> HIDE DEF a, b, res
<1>6. CASE op \in {"add", "addi"}
  <2>1. res = Wrap(a + b)
    <3>1. row.alu_mode = "ADD"
      BY <1>6, ComputeModes
    <3> QED BY <1>4, <3>1 DEF Alu
  <2>2. Machine!B("addi") = b
    BY <1>3, <1>6 DEF ImmediateOps
  <2>3. Machine!Value = Wrap(a + b)
    BY <1>1, <1>2, <1>5, <1>6, <2>2 DEF Machine!Value
  <2> QED BY <2>1, <2>3
<1>7. CASE op = "sub"
  <2>1. res = Wrap(a - b)
    <3>1. row.alu_mode = "SUB"
      BY <1>7, ComputeModes
    <3> QED BY <1>4, <3>1 DEF Alu
  <2>2. Machine!B("") = b
    BY <1>3, <1>7 DEF ImmediateOps
  <2>3. Machine!Value = Wrap(a - b)
    BY <1>1, <1>2, <1>5, <1>7, <2>2 DEF Machine!Value
  <2> QED BY <2>1, <2>3
<1>8. CASE op \in {"xor", "xori"}
  <2>1. res = BitXor(a, b)
    <3>1. row.alu_mode = "XOR"
      BY <1>8, ComputeModes
    <3> QED BY <1>4, <3>1 DEF Alu
  <2>2. Machine!B("xori") = b
    BY <1>3, <1>8 DEF ImmediateOps
  <2>3. Machine!Value = Machine!BitXor(a, b)
    BY <1>1, <1>8, <2>2 DEF Machine!Value
  <2> QED BY <2>1, <2>3, SameOperators
<1>9. CASE op \in {"or", "ori"}
  <2>1. res = BitOr(a, b)
    <3>1. row.alu_mode = "OR"
      BY <1>9, ComputeModes
    <3> QED BY <1>4, <3>1 DEF Alu
  <2>2. Machine!B("ori") = b
    BY <1>3, <1>9 DEF ImmediateOps
  <2>3. Machine!Value = Machine!BitOr(a, b)
    BY <1>1, <1>9, <2>2 DEF Machine!Value
  <2> QED BY <2>1, <2>3, SameOperators
<1>10. CASE op \in {"and", "andi"}
  <2>1. res = BitAnd(a, b)
    <3>1. row.alu_mode = "AND"
      BY <1>10, ComputeModes
    <3> QED BY <1>4, <3>1 DEF Alu
  <2>2. Machine!B("andi") = b
    BY <1>3, <1>10 DEF ImmediateOps
  <2>3. Machine!Value = Machine!BitAnd(a, b)
    BY <1>1, <1>10, <2>2 DEF Machine!Value
  <2> QED BY <2>1, <2>3, SameOperators
<1>11. CASE op \in {"sltu", "sltiu"}
  <2>1. res = Flag(a < b)
    <3>1. row.alu_mode = "SLTU"
      BY <1>11, ComputeModes
    <3> QED BY <1>4, <3>1 DEF Alu
  <2>2. Machine!B("sltiu") = b
    BY <1>3, <1>11 DEF ImmediateOps
  <2>3. Machine!Value = Flag(a < b)
    BY <1>1, <1>2, <1>5, <1>11, <2>2 DEF Machine!Value
  <2> QED BY <2>1, <2>3
<1>12. CASE op = "mul"
  <2>1. res = Wrap(a * b)
    <3>1. row.alu_mode = "MUL"
      BY <1>12, ComputeModes
    <3> QED BY <1>4, <3>1 DEF Alu
  <2>2. Machine!B("") = b
    BY <1>3, <1>12 DEF ImmediateOps
  <2>3. Machine!Value = Wrap(a * b)
    BY <1>1, <1>2, <1>5, <1>12, <2>2 DEF Machine!Value
  <2> QED BY <2>1, <2>3
<1>13. CASE op = "divu"
  <2>1. res = IF b = 0 THEN WORD - 1 ELSE a \div b
    <3>1. row.alu_mode = "DIVU"
      BY <1>13, ComputeModes
    <3> QED BY <1>4, <3>1 DEF Alu, AllOnes
  <2>2. Machine!B("") = b
    BY <1>3, <1>13 DEF ImmediateOps
  <2>3. Machine!Value = IF b = 0 THEN WORD - 1 ELSE a \div b
    BY <1>1, <1>2, <1>5, <1>13, <2>2 DEF Machine!Value
  <2> QED BY <2>1, <2>3
<1>14. CASE op = "remu"
  <2>1. res = IF b = 0 THEN WORD - 1 ELSE a % b
    <3>1. row.alu_mode = "REMU"
      BY <1>14, ComputeModes
    <3> QED BY <1>4, <3>1 DEF Alu, AllOnes
  <2>2. Machine!B("") = b
    BY <1>3, <1>14 DEF ImmediateOps
  <2>3. Machine!Value = IF b = 0 THEN WORD - 1 ELSE a % b
    BY <1>1, <1>2, <1>5, <1>14, <2>2 DEF Machine!Value
  <2> QED BY <2>1, <2>3
<1>15. CASE op \in {"slt", "slti"}
  <2>1. res = Flag(Signed(a) < Signed(b))
    <3>1. row.alu_mode = "SLT"
      BY <1>15, ComputeModes
    <3> QED BY <1>4, <3>1 DEF Alu
  <2>2. Machine!B("slti") = b
    BY <1>3, <1>15 DEF ImmediateOps
  <2>3. Machine!Value = Flag(Machine!Less(a, b))
    BY <1>1, <1>2, <1>15, <2>2 DEF Machine!Value
  <2>4. Machine!Less(a, b) <=> Signed(a) < Signed(b)
    BY <1>1, LessSigned
  <2> QED BY <2>1, <2>3, <2>4 DEF Flag
<1>16. CASE op \in {"mulh", "mulhsu", "mulhu"}
  <2>1. res = (a * b) \div WORD
    <3>1. row.alu_mode \in {"MULH", "MULHSU", "MULHU"}
      BY <1>16, ComputeModes
    <3> QED BY <1>4, <3>1 DEF Alu
  <2>2. Machine!B("") = b
    BY <1>3, <1>16 DEF ImmediateOps
  <2>3. Machine!Value = (a * b) \div WORD
    BY <1>1, <1>5, <1>16, <2>2 DEF Machine!Value
  <2> QED BY <2>1, <2>3
<1>17. CASE op \in {"sll", "slli"}
  <2>1. res = Wrap(a * 2 ^ (b % XLEN))
    <3>1. row.alu_mode = "SLL"
      BY <1>17, ComputeModes
    <3> QED BY <1>4, <3>1 DEF Alu
  <2>2. Machine!B("slli") = b
    BY <1>3, <1>17 DEF ImmediateOps
  <2> DEFINE s == b % XLEN
             f == [i \in BitIndex |-> IF i < s THEN 0 ELSE Bit(a, i - s)]
  <2>3. Machine!Value = Machine!ShiftedLeft(a, b % XLEN)
    BY <1>1, <1>5, <1>17, <2>2, SameOperators DEF Machine!Value
  <2>4. Machine!ShiftedLeft(a, b % XLEN) = Machine!OfBits(f)
    BY Zenon DEF Machine!ShiftedLeft, Machine!ShiftedRight, Machine!Bit, Bit, Machine!BitIndex,
       BitIndex, Machine!XLEN, XLEN
  <2>5. OfBits(f) = Wrap(a * 2 ^ (b % XLEN))
    <3>1. s \in 0 .. XLEN - 1
      BY <1>5
    <3> HIDE DEF s
    <3>2. OfBits([i \in BitIndex |-> IF i < s THEN 0 ELSE Bit(a, i - s)]) = Wrap(a * 2 ^ s)
      BY <1>1, <3>1, LeftBits
    <3> QED BY <3>2 DEF s
  <2> QED BY <2>1, <2>3, <2>4, <2>5, SameOperators
<1>18. CASE op \in {"srl", "srli"}
  <2>1. res = a \div (2 ^ (b % XLEN))
    <3>1. row.alu_mode = "SRL"
      BY <1>18, ComputeModes
    <3> QED BY <1>4, <3>1 DEF Alu
  <2>2. Machine!B("srli") = b
    BY <1>3, <1>18 DEF ImmediateOps
  <2> DEFINE s == b % XLEN
             f == [i \in BitIndex |-> IF i + s < XLEN THEN Bit(a, i + s) ELSE 0]
  <2>3. Machine!Value = Machine!ShiftedRight(a, b % XLEN, 0)
    BY <1>1, <1>5, <1>18, <2>2, SameOperators DEF Machine!Value
  <2>4. Machine!ShiftedRight(a, b % XLEN, 0) = Machine!OfBits(f)
    BY Zenon DEF Machine!ShiftedLeft, Machine!ShiftedRight, Machine!Bit, Bit, Machine!BitIndex,
       BitIndex, Machine!XLEN, XLEN
  <2>5. OfBits(f) = a \div (2 ^ (b % XLEN))
    <3>1. s \in 0 .. XLEN - 1
      BY <1>5
    <3> HIDE DEF s
    <3>2. OfBits([i \in BitIndex |-> IF i + s < XLEN THEN Bit(a, i + s) ELSE 0]) = a \div 2 ^ s
      BY <1>1, <3>1, LogicalBits
    <3> QED BY <3>2 DEF s
  <2> QED BY <2>1, <2>3, <2>4, <2>5, SameOperators
<1>19. CASE op \in {"sra", "srai"}
  <2>1. res = Wrap(Signed(a) \div (2 ^ (b % XLEN)))
    <3>1. row.alu_mode = "SRA"
      BY <1>19, ComputeModes
    <3> QED BY <1>4, <3>1 DEF Alu
  <2>2. Machine!B("srai") = b
    BY <1>3, <1>19 DEF ImmediateOps
  <2> DEFINE s == b % XLEN
             f == [i \in BitIndex |-> IF i + s < XLEN THEN Bit(a, i + s) ELSE Bit(a, XLEN - 1)]
  <2>3. Machine!Value = Machine!ShiftedRight(a, b % XLEN, Bit(a, XLEN - 1))
    BY <1>1, <1>5, <1>19, <2>2, SameOperators DEF Machine!Value
  <2>4. Machine!ShiftedRight(a, b % XLEN, Bit(a, XLEN - 1)) = Machine!OfBits(f)
    BY Zenon DEF Machine!ShiftedLeft, Machine!ShiftedRight, Machine!Bit, Bit, Machine!BitIndex,
       BitIndex, Machine!XLEN, XLEN
  <2>5. OfBits(f) = Wrap(Signed(a) \div (2 ^ (b % XLEN)))
    <3>1. s \in 0 .. XLEN - 1
      BY <1>5
    <3> HIDE DEF s
    <3>2. OfBits([i \in BitIndex |-> IF i + s < XLEN THEN Bit(a, i + s) ELSE Bit(a, XLEN - 1)]) = Wrap(Signed(a) \div 2 ^ s)
      BY <1>1, <3>1, ArithmeticBits
    <3> QED BY <3>2 DEF s
  <2> QED BY <2>1, <2>3, <2>4, <2>5, SameOperators
<1>20. CASE op = "lui"
  BY <1>2, <1>20, ComputeModes DEF Machine!Value, Result, res
<1>21. CASE op = "auipc"
  BY <1>2, <1>21, ComputeModes DEF Machine!Value, Result, res
<1>22. CASE op = "div"
  <2>1. res = IF b = 0 THEN WORD - 1 ELSE Wrap(DivTrunc(Signed(a), Signed(b)))
    <3>1. row.alu_mode = "DIV"
      BY <1>22, ComputeModes
    <3> QED BY <1>4, <3>1 DEF Alu, AllOnes
  <2>2. Machine!B("") = b
    BY <1>3, <1>22 DEF ImmediateOps
  <2>3. Machine!Value = IF b = 0 THEN WORD - 1
                        ELSE Wrap(Machine!Quotient(Signed(a), Signed(b)))
    BY <1>1, <1>2, <1>5, <1>22, <2>2 DEF Machine!Value
  <2>4. ASSUME b # 0 PROVE Wrap(Machine!Quotient(Signed(a), Signed(b))) = Wrap(DivTrunc(Signed(a), Signed(b)))
    <3> DEFINE x == Signed(a)
               y == Signed(b)
    <3>1. x \in -WORD .. WORD /\ x \in Int /\ y \in Int /\ y # 0
      BY <1>1, <2>4, SignedType
    <3> HIDE DEF x, y
    <3>2. Machine!Quotient(x, y) = DivTrunc(x, y)
      BY <3>1, SameQuotient
    <3> QED BY <3>2 DEF x, y
  <2> QED BY <2>1, <2>3, <2>4
<1>23. CASE op = "rem"
  <2>1. res = IF b = 0 THEN WORD - 1 ELSE Wrap(RemTrunc(Signed(a), Signed(b)))
    <3>1. row.alu_mode = "REM"
      BY <1>23, ComputeModes
    <3> QED BY <1>4, <3>1 DEF Alu, AllOnes
  <2>2. Machine!B("") = b
    BY <1>3, <1>23 DEF ImmediateOps
  <2>3. Machine!Value = IF b = 0 THEN WORD - 1
                        ELSE Wrap(Signed(a) - Machine!Quotient(Signed(a), Signed(b)) * Signed(b))
    BY <1>1, <1>2, <1>5, <1>23, <2>2 DEF Machine!Value
  <2>4. ASSUME b # 0 PROVE Wrap(Signed(a) - Machine!Quotient(Signed(a), Signed(b)) * Signed(b)) = Wrap(RemTrunc(Signed(a), Signed(b)))
    <3> DEFINE x == Signed(a)
               y == Signed(b)
    <3>1. x \in -WORD .. WORD /\ x \in Int /\ y \in Int /\ y # 0
      BY <1>1, <2>4, SignedType
    <3> HIDE DEF x, y
    <3>2. Machine!Quotient(x, y) = DivTrunc(x, y)
      BY <3>1, SameQuotient
    <3>3. RemTrunc(x, y) = x - DivTrunc(x, y) * y
      BY <3>1, TruncDivides
    <3> QED BY <3>2, <3>3 DEF x, y
  <2> QED BY <2>1, <2>3, <2>4
<1> QED BY <1>6, <1>7, <1>8, <1>9, <1>10, <1>11, <1>12, <1>13, <1>14, <1>15, <1>16, <1>17,
           <1>18, <1>19, <1>20, <1>21, <1>22, <1>23 DEF Machine!Computes

-----------------------------------------------------------------------------
(* One instruction of the emulator is one of the abstract machine.         *)

\* The processor's turn, when the instruction at pc is executed.
Executing(c) ==
  /\ IInv /\ at = "cpu" /\ at' # "load" /\ pc % 4 = 0
  /\ Machine!In \in Instr /\ Machine!In.op \in DOMAIN Opcodes
  /\ c \in Csrs /\ c["OTHER"] = csr["OTHER"]
  /\ UNCHANGED <<image, variant, ram>>
  /\ writeReq.count = 0

\* A register that is written, x0 excepted.
LEMMA SetRegister ==
  ASSUME regs \in Regs, NEW rd \in Reg, NEW v,
         regs' = IF rd # 0 THEN [regs EXCEPT ![rd] = v] ELSE regs
  PROVE  Machine!Set(rd, v)
<1>1. regs = [r \in Reg |-> regs[r]]
  BY DEF Regs
<1>2. regs' = [r \in Reg |-> IF r = rd /\ r # 0 THEN v ELSE regs[r]]
  <2>1. CASE rd = 0
    BY <1>1, <2>1
  <2>2. CASE rd # 0
    BY <2>2 DEF Regs
  <2> QED BY <2>1, <2>2
<1> QED BY <1>2, SameWords DEF Machine!Set

\* What completing an instruction writes, in the machine's terms.
LEMMA CompletesWrites ==
  ASSUME NEW c, Executing(c), NEW res,
         Completes(Machine!In, Opcodes[Machine!In.op], res, c)
  PROVE  /\ Opcodes[Machine!In.op].store_result => Machine!Set(Machine!In.rd, res)
         /\ ~Opcodes[Machine!In.op].store_result => UNCHANGED regs
         /\ csr'["OTHER"] =
              IF WritesCsr(Machine!In, Opcodes[Machine!In.op]) /\ Machine!In.csr = "OTHER"
              THEN CsrResult(Machine!In, Opcodes[Machine!In.op], c) ELSE csr["OTHER"]
         /\ pc' = NextPc(Machine!In, Opcodes[Machine!In.op], res)
<1> DEFINE in == Machine!In
           row == Opcodes[in.op]
           d == IF WritesCsr(in, row) THEN [c EXCEPT ![in.csr] = CsrResult(in, row, c)] ELSE c
<1>1. /\ in \in Instr /\ regs \in Regs /\ c \in Csrs /\ c["OTHER"] = csr["OTHER"]
      /\ in.rd \in Reg
  BY InstrType DEF Executing, IInv, TypeInv, ProcessorTypes
<1>2. /\ regs' = IF row.store_result /\ in.rd # 0 THEN [regs EXCEPT ![in.rd] = res] ELSE regs
      /\ csr' = CountTime(d)
      /\ pc' = NextPc(in, row, res)
  BY DEF Completes
<1>3. ASSUME row.store_result PROVE Machine!Set(in.rd, res)
  <2> DEFINE rd == in.rd
  <2>1. regs' = IF rd # 0 THEN [regs EXCEPT ![rd] = res] ELSE regs
    BY <1>2, <1>3
  <2>2. rd \in Reg
    BY <1>1
  <2> HIDE DEF rd
  <2>3. Machine!Set(rd, res)
    BY <1>1, <2>1, <2>2, SetRegister
  <2> QED BY <2>3 DEF rd
<1>4. csr'["OTHER"] = IF WritesCsr(in, row) /\ in.csr = "OTHER"
                      THEN CsrResult(in, row, c) ELSE csr["OTHER"]
  <2>1. CsrResult(in, row, c) \in WordNum
    BY <1>1, CsrResultType
  <2>2. d \in Csrs
    BY <1>1, <2>1 DEF Csrs
  <2>3. d["OTHER"] = IF WritesCsr(in, row) /\ in.csr = "OTHER"
                     THEN CsrResult(in, row, c) ELSE csr["OTHER"]
    BY <1>1 DEF Csrs, CsrId
  <2> HIDE DEF d
  <2> QED BY <1>2, <2>2, <2>3, CountTypes
<1> QED BY <1>2, <1>3, <1>4

\* The abstract memory while nothing is stored.
LEMMA MemoryRests ==
  ASSUME NEW c, Executing(c), UNCHANGED writeReq
  PROVE  ArchMem' = ArchMem
  BY DEF Executing, ArchMem

\* The address that follows, and the operands.
LEMMA SamePc ==
  /\ Machine!Wrap(pc + 4) = NextI
  /\ pc' = NextI => Machine!Advance
  /\ \A n : Machine!Wrap(n) = Wrap(n)
  BY SameOperators DEF NextI, Machine!Advance

\* Arithmetic.
LEMMA ComputeRefines ==
  ASSUME NEW c, Executing(c), Machine!In.op \in Machine!Computes, UNCHANGED writeReq,
         Completes(Machine!In, Opcodes[Machine!In.op],
                   Result(Machine!In, Opcodes[Machine!In.op], c), c)
  PROVE  Machine!Compute
<1> DEFINE in == Machine!In
           row == Opcodes[in.op]
           res == Result(in, row, c)
<1>1. res = Machine!Value
  BY ValueIs DEF Executing, IInv, TypeInv, ProcessorTypes
<1>2. row.store_result /\ row.csr_mode = "NOP" /\ row.pc_mode = "NEXT_I"
  BY ComputeRow
<1>3. ~WritesCsr(in, row) /\ NextPc(in, row, res) = NextI
  BY <1>2 DEF WritesCsr, NextPc
<1>4. Machine!Set(in.rd, res) /\ csr'["OTHER"] = csr["OTHER"] /\ pc' = NextI
  BY <1>2, <1>3, CompletesWrites
<1>5. ArchMem' = ArchMem
  BY MemoryRests
<1> HIDE DEF res
<1>6. at # "load" /\ at' # "load"
  BY DEF Executing
<1>7. Machine!Advance
  BY <1>4, SamePc
<1> QED BY <1>1, <1>4, <1>5, <1>6, <1>7 DEF Machine!Compute

\* A fence does nothing but go on.
LEMMA FenceRefines ==
  ASSUME NEW c, Executing(c), Machine!In.op \in FenceOps, UNCHANGED writeReq,
         NEW res, Completes(Machine!In, Opcodes[Machine!In.op], res, c)
  PROVE  Machine!Fence
<1> DEFINE in == Machine!In
           row == Opcodes[in.op]
<1>1. ~row.store_result /\ row.csr_mode = "NOP" /\ row.pc_mode = "NEXT_I"
  <2>1. row = Plain
    BY FenceRow
  <2> QED BY <2>1 DEF Plain
<1>2. ~WritesCsr(in, row) /\ NextPc(in, row, res) = NextI
  BY <1>1 DEF WritesCsr, NextPc
<1>3. UNCHANGED regs /\ csr'["OTHER"] = csr["OTHER"] /\ pc' = NextI
  BY <1>1, <1>2, CompletesWrites
<1>4. ArchMem' = ArchMem /\ at # "load" /\ at' # "load"
  BY MemoryRests DEF Executing
<1>5. Machine!Advance
  BY <1>3, SamePc
<1> QED BY <1>3, <1>4, <1>5 DEF Machine!Fence, FenceOps

\* A branch is taken when the comparison of its row says so.
LEMMA BranchRefines ==
  ASSUME NEW c, Executing(c), Machine!In.op \in BranchOps, UNCHANGED writeReq,
         Completes(Machine!In, Opcodes[Machine!In.op],
                   Result(Machine!In, Opcodes[Machine!In.op], c), c)
  PROVE  Machine!Branch
<1> DEFINE op == Machine!In.op
           row == Opcodes[op]
           a == regs[Machine!In.rs1]
           b == regs[Machine!In.rs2]
           res == Result(Machine!In, row, c)
           target == Wrap(pc + Machine!In.imm)
<1>1. /\ row.store_result = FALSE /\ row.csr_mode = "NOP" /\ row.op2_immediate = FALSE
      /\ row.pc_mode = IF op \in {"beq", "blt", "bltu"} THEN "COND_JUMP" ELSE "COND_JUMP_INV"
      /\ row.alu_mode = IF op \in {"beq", "bne"} THEN "SEQ"
                        ELSE IF op \in {"blt", "bge"} THEN "SLT" ELSE "SLTU"
  BY BranchRow
<1>2. /\ Machine!A = a /\ Machine!B("") = b /\ a \in WordNum /\ b \in WordNum
  <2>1. op # ""
    BY DEF BranchOps
  <2>2. a \in WordNum /\ b \in WordNum
    BY OperandType DEF Executing, IInv, TypeInv, ProcessorTypes
  <2> QED BY <2>1, <2>2 DEF Machine!A, Machine!B
<1>3. Operand2(Machine!In, row) = b
  BY <1>1 DEF Operand2
<1>4. res = Alu(row.alu_mode, a, b)
  BY <1>1, <1>3 DEF Result
<1> HIDE DEF res, b, a
<1>5. /\ op \in {"beq", "bne"} => res = Flag(a = b)
      /\ op \in {"blt", "bge"} => res = Flag(Signed(a) < Signed(b))
      /\ op \in {"bltu", "bgeu"} => res = Flag(a < b)
  <2>1. CASE op \in {"beq", "bne"}
    BY <1>1, <1>4, <2>1 DEF Alu
  <2>2. CASE op \in {"blt", "bge"}
    BY <1>1, <1>4, <2>2 DEF Alu
  <2>3. CASE op \in {"bltu", "bgeu"}
    BY <1>1, <1>4, <2>3 DEF Alu
  <2> QED BY <2>1, <2>2, <2>3 DEF BranchOps
<1>6. Machine!Less(a, b) <=> Signed(a) < Signed(b)
  BY <1>2, LessSigned
<1>7. NextPc(Machine!In, row, res) = IF Machine!Taken THEN target ELSE NextI
  <2>1. CASE op = "beq"
    <3>1. Machine!Taken <=> a = b
      BY <1>2, <2>1, Zenon DEF Machine!Taken
    <3>2. (res # 0) <=> (a = b)
      <4>1. res = Flag(a = b)
        BY <1>5, <2>1, Zenon
      <4>2. res # 0 <=> a = b
        BY <4>1 DEF Flag
      <4> QED BY <1>2, <4>2
    <3>3. row.pc_mode = "COND_JUMP"
      BY <1>1, <2>1
    <3> HIDE DEF row, target
    <3>4. NextPc(Machine!In, row, res) = IF res # 0 THEN target ELSE NextI
      BY <3>3 DEF NextPc, target
    <3> QED BY <3>1, <3>2, <3>4
  <2>2. CASE op = "bne"
    <3>1. Machine!Taken <=> a # b
      BY <1>2, <2>2, Zenon DEF Machine!Taken
    <3>2. (res # 0) <=> ~(a # b)
      <4>1. res = Flag(a = b)
        BY <1>5, <2>2, Zenon
      <4>2. res # 0 <=> a = b
        BY <4>1 DEF Flag
      <4> QED BY <1>2, <4>2
    <3>3. row.pc_mode = "COND_JUMP_INV"
      BY <1>1, <2>2
    <3> HIDE DEF row, target
    <3>4. NextPc(Machine!In, row, res) = IF res # 0 THEN NextI ELSE target
      BY <3>3 DEF NextPc, target
    <3> QED BY <3>1, <3>2, <3>4
  <2>3. CASE op = "blt"
    <3>1. Machine!Taken <=> Machine!Less(a, b)
      BY <1>2, <2>3, Zenon DEF Machine!Taken
    <3>2. (res # 0) <=> (Machine!Less(a, b))
      <4>1. res = Flag(Signed(a) < Signed(b))
        BY <1>5, <2>3, Zenon
      <4>2. res # 0 <=> Signed(a) < Signed(b)
        BY <4>1 DEF Flag
      <4> QED BY <1>6, <4>2
    <3>3. row.pc_mode = "COND_JUMP"
      BY <1>1, <2>3
    <3> HIDE DEF row, target
    <3>4. NextPc(Machine!In, row, res) = IF res # 0 THEN target ELSE NextI
      BY <3>3 DEF NextPc, target
    <3> QED BY <3>1, <3>2, <3>4
  <2>4. CASE op = "bge"
    <3>1. Machine!Taken <=> ~Machine!Less(a, b)
      BY <1>2, <2>4, Zenon DEF Machine!Taken
    <3>2. (res # 0) <=> ~(~Machine!Less(a, b))
      <4>1. res = Flag(Signed(a) < Signed(b))
        BY <1>5, <2>4, Zenon
      <4>2. res # 0 <=> Signed(a) < Signed(b)
        BY <4>1 DEF Flag
      <4> QED BY <1>6, <4>2
    <3>3. row.pc_mode = "COND_JUMP_INV"
      BY <1>1, <2>4
    <3> HIDE DEF row, target
    <3>4. NextPc(Machine!In, row, res) = IF res # 0 THEN NextI ELSE target
      BY <3>3 DEF NextPc, target
    <3> QED BY <3>1, <3>2, <3>4
  <2>5. CASE op = "bltu"
    <3>1. Machine!Taken <=> a < b
      BY <1>2, <2>5, Zenon DEF Machine!Taken
    <3>2. (res # 0) <=> (a < b)
      <4>1. res = Flag(a < b)
        BY <1>5, <2>5, Zenon
      <4>2. res # 0 <=> a < b
        BY <4>1 DEF Flag
      <4> QED BY <1>2, <4>2
    <3>3. row.pc_mode = "COND_JUMP"
      BY <1>1, <2>5
    <3> HIDE DEF row, target
    <3>4. NextPc(Machine!In, row, res) = IF res # 0 THEN target ELSE NextI
      BY <3>3 DEF NextPc, target
    <3> QED BY <3>1, <3>2, <3>4
  <2>6. CASE op = "bgeu"
    <3>1. Machine!Taken <=> a >= b
      BY <1>2, <2>6, Zenon DEF Machine!Taken
    <3>2. (res # 0) <=> ~(a >= b)
      <4>1. res = Flag(a < b)
        BY <1>5, <2>6, Zenon
      <4>2. res # 0 <=> a < b
        BY <4>1 DEF Flag
      <4>3. a >= b <=> ~(a < b)
        <5>1. a \in Nat /\ b \in Nat
          <6>1. a \in WordNum /\ b \in WordNum
            BY <1>2
          <6> QED BY <6>1, Widths, SMT DEF WordNum
        <5> QED BY <5>1
      <4> QED BY <4>2, <4>3
    <3>3. row.pc_mode = "COND_JUMP_INV"
      BY <1>1, <2>6
    <3> HIDE DEF row, target
    <3>4. NextPc(Machine!In, row, res) = IF res # 0 THEN NextI ELSE target
      BY <3>3 DEF NextPc, target
    <3> QED BY <3>1, <3>2, <3>4
  <2> QED BY <2>1, <2>2, <2>3, <2>4, <2>5, <2>6 DEF BranchOps
<1>8. ~WritesCsr(Machine!In, row)
  BY <1>1 DEF WritesCsr
<1>9. UNCHANGED regs /\ csr'["OTHER"] = csr["OTHER"]
      /\ pc' = IF Machine!Taken THEN target ELSE NextI
  BY <1>1, <1>7, <1>8, CompletesWrites DEF res
<1>10. ArchMem' = ArchMem /\ at # "load" /\ at' # "load"
  BY MemoryRests DEF Executing
<1>11. IF Machine!Taken THEN pc' = Machine!Wrap(pc + Machine!In.imm) ELSE Machine!Advance
  BY <1>9, SamePc
<1> QED BY <1>9, <1>10, <1>11 DEF Machine!Branch, BranchOps

\* A jump goes where it says, and jalr's target is even.
LEMMA JumpRefines ==
  ASSUME NEW c, Executing(c), Machine!In.op \in JumpOps, UNCHANGED writeReq,
         Completes(Machine!In, Opcodes[Machine!In.op],
                   Result(Machine!In, Opcodes[Machine!In.op], c), c)
  PROVE  Machine!Jump
<1> DEFINE in == Machine!In
           row == Opcodes[in.op]
           res == Result(in, row, c)
           t == Wrap(regs[in.rs1] + in.imm)
<1>1. /\ row.store_result = TRUE /\ row.csr_mode = "NOP" /\ row.alu_mode = "NEXT_I"
      /\ row.pc_mode = IF in.op = "jal" THEN "REL_JUMP" ELSE "INDIRECT"
  BY JumpRow
<1>2. res = NextI /\ ~WritesCsr(in, row)
  BY <1>1 DEF Result, WritesCsr
<1>3. 2 * (t \div 2) = t - (t % 2)
  <2>1. t \in Nat
    <3>1. t \in WordNum
      BY AddressType DEF Executing, IInv, TypeInv, ProcessorTypes
    <3> QED BY <3>1, Widths, SMT DEF WordNum
  <2> HIDE DEF t
  <2> QED BY <2>1
<1>4. NextPc(in, row, res) = IF in.op = "jal" THEN Wrap(pc + in.imm) ELSE 2 * (t \div 2)
  BY <1>1, <1>3 DEF NextPc
<1>5. /\ Machine!Set(in.rd, NextI) /\ csr'["OTHER"] = csr["OTHER"]
      /\ pc' = IF in.op = "jal" THEN Wrap(pc + in.imm) ELSE 2 * (t \div 2)
  BY <1>1, <1>2, <1>4, CompletesWrites
<1>6. ArchMem' = ArchMem /\ at # "load" /\ at' # "load"
  BY MemoryRests DEF Executing
<1>7. Machine!A = regs[in.rs1]
  BY DEF Machine!A
<1> QED BY <1>5, <1>6, <1>7, SamePc DEF Machine!Jump, JumpOps

\* Setting or clearing no bit changes nothing.
LEMMA NoBits ==
  ASSUME NEW x \in WordNum
  PROVE  BitOr(x, 0) = x /\ BitAnd(x, BitNot(0)) = x
<1> DEFINE f == [i \in BitIndex |-> IF i + 0 < XLEN THEN Bit(x, i + 0) ELSE 0]
<1>1. XLEN \in Nat \ {0} /\ x \in Nat /\ WORD = 2 ^ XLEN
  BY ByteBitsAssumption, Widths, SMT DEF XLEN, WORD, WordNum
<1>2. OfBits(f) = x
  <2> DEFINE s == 0
  <2>1. s \in 0 .. XLEN - 1
    BY <1>1
  <2> HIDE DEF s
  <2>2. OfBits([i \in BitIndex |-> IF i + s < XLEN THEN Bit(x, i + s) ELSE 0]) = x \div 2 ^ s
    BY <2>1, LogicalBits
  <2>3. 2 ^ s = 1
    BY DEF s
  <2>4. x \div 1 = x
    BY <1>1
  <2> QED BY <2>2, <2>3, <2>4 DEF s
<1>3. ASSUME NEW i \in BitIndex
      PROVE  /\ i \in Nat /\ i + 0 = i /\ i < XLEN /\ Bit(x, i) \in {0, 1}
             /\ Bit(0, i) = 0 /\ Bit(BitNot(0), i) = 1
  <2>1. i \in Nat /\ i < XLEN /\ i + 0 = i /\ XLEN - i - 1 \in Nat
    BY <1>1 DEF BitIndex
  <2>2. Bit(x, i) \in {0, 1}
    BY <1>1, <2>1, BitType
  <2> DEFINE m == 2 ^ i
             k == 2 ^ (XLEN - i - 1)
  <2>3. m \in Nat \ {0} /\ k \in Nat \ {0} /\ WORD = m * (2 * k)
    <3>1. 2 ^ i \in Nat \ {0} /\ 2 ^ (XLEN - i - 1) \in Nat \ {0}
          /\ 2 ^ ((XLEN - i - 1) + 1) = 2 * 2 ^ (XLEN - i - 1)
      BY <2>1, Power
    <3>2. 2 ^ (i + ((XLEN - i - 1) + 1)) = 2 ^ i * 2 ^ ((XLEN - i - 1) + 1)
      <4>1. (XLEN - i - 1) + 1 \in Nat
        BY <2>1
      <4> QED BY <2>1, <4>1, PowerSum
    <3>3. i + ((XLEN - i - 1) + 1) = XLEN
      BY <1>1, <2>1
    <3> QED BY <1>1, <3>1, <3>2, <3>3
  <2>4. Bit(0, i) = 0
    <3>1. 0 \div m = 0
      BY <2>3
    <3> QED BY <3>1 DEF Bit
  <2>5. Bit(BitNot(0), i) = 1
    <3> HIDE DEF m, k
    <3> DEFINE q == 2 * k - 1
               r == m - 1
    <3>1. q \in Nat /\ r \in Nat /\ r < m
      BY <2>3
    <3>2. WORD - 1 = m * q + r
      BY <2>3
    <3>3. q % 2 = 1
      BY <2>3
    <3> HIDE DEF q, r
    <3>4. (m * q + r) \div m = q
      BY <2>3, <3>1, Quotients
    <3>5. (WORD - 1 - 0) \div m = q
      <4>1. WORD - 1 - 0 = WORD - 1
        BY Widths
      <4> QED BY <3>2, <3>4, <4>1
    <3> QED BY <3>3, <3>5 DEF Bit, BitNot, m
  <2> QED BY <2>1, <2>2, <2>4, <2>5
<1>4. BitOr(x, 0) = OfBits(f)
  <2>1. ASSUME NEW i \in BitIndex
        PROVE  (IF Bit(x, i) + Bit(0, i) > 0 THEN 1 ELSE 0) = f[i]
    BY <1>3
  <2>2. [i \in BitIndex |-> IF Bit(x, i) + Bit(0, i) > 0 THEN 1 ELSE 0] = f
    BY <2>1
  <2> QED BY <2>2 DEF BitOr
<1>5. BitAnd(x, BitNot(0)) = OfBits(f)
  <2>1. ASSUME NEW i \in BitIndex
        PROVE  Bit(x, i) * Bit(BitNot(0), i) = f[i]
    BY <1>3
  <2>2. [i \in BitIndex |-> Bit(x, i) * Bit(BitNot(0), i)] = f
    BY <2>1
  <2> QED BY <2>2 DEF BitAnd
<1> QED BY <1>2, <1>4, <1>5

\* A CSR instruction; what a counter reads is open.
LEMMA CsrRefines ==
  ASSUME NEW c, Executing(c), Machine!In.op \in CsrOps, UNCHANGED writeReq,
         Completes(Machine!In, Opcodes[Machine!In.op],
                   Result(Machine!In, Opcodes[Machine!In.op], c), c)
  PROVE  Machine!Csr
<1> DEFINE in == Machine!In
           row == Opcodes[in.op]
           res == Result(in, row, c)
           old == c[in.csr]
           a == regs[in.rs1]
<1>1. /\ row.store_result = TRUE /\ row.alu_mode = "CSR" /\ row.pc_mode = "NEXT_I"
      /\ row.csr_mode =
           CASE in.op = "csrrw" -> "RW" [] in.op = "csrrs" -> "RS" [] in.op = "csrrc" -> "RC"
             [] in.op = "csrrwi" -> "RWI" [] in.op = "csrrsi" -> "RSI" [] in.op = "csrrci" -> "RCI"
  BY CsrRow
<1>2. res = old /\ NextPc(in, row, res) = NextI
  BY <1>1 DEF Result, NextPc
<1>3. old \in WordNum /\ (in.csr = "OTHER" => old = csr["OTHER"])
  BY InstrType DEF Executing, Csrs
<1>4. Machine!Set(in.rd, old) /\ pc' = NextI
      /\ csr'["OTHER"] = IF WritesCsr(in, row) /\ in.csr = "OTHER"
                         THEN CsrResult(in, row, c) ELSE csr["OTHER"]
  BY <1>1, <1>2, CompletesWrites
<1>5. /\ Machine!BitOr(csr["OTHER"], a) = BitOr(csr["OTHER"], a)
      /\ Machine!BitOr(csr["OTHER"], in.uimm) = BitOr(csr["OTHER"], in.uimm)
      /\ Machine!BitNot(a) = BitNot(a) /\ Machine!BitNot(in.uimm) = BitNot(in.uimm)
      /\ \A n : Machine!BitAnd(csr["OTHER"], n) = BitAnd(csr["OTHER"], n)
  BY SameOperators
<1>6. csr["OTHER"] \in WordNum /\ (in.rs1 = 0 => a = 0)
  BY DEF Executing, IInv, TypeInv, ProcessorTypes, Csrs, CsrId
<1>7. Machine!A = a
  BY DEF Machine!A
<1>8. csr'["OTHER"] =
        IF in.csr # "OTHER" THEN csr["OTHER"]
        ELSE CASE in.op = "csrrw"  -> IF in.rs1 = 0 THEN csr["OTHER"] ELSE a
               [] in.op = "csrrs"  -> BitOr(csr["OTHER"], a)
               [] in.op = "csrrc"  -> BitAnd(csr["OTHER"], BitNot(a))
               [] in.op = "csrrwi" -> in.uimm
               [] in.op = "csrrsi" -> BitOr(csr["OTHER"], in.uimm)
               [] in.op = "csrrci" -> BitAnd(csr["OTHER"], BitNot(in.uimm))
  <2> DEFINE o == csr["OTHER"]
             u == in.uimm
             w == CsrResult(in, row, c)
  <2>1. CASE in.csr # "OTHER"
    BY <1>4, <2>1
  <2>2. CASE in.csr = "OTHER"
    <3>1. old = o
      BY <1>3, <2>2
    <3>2. csr'["OTHER"] = IF WritesCsr(in, row) THEN w ELSE o
      BY <1>4, <2>2
    <3>3. in.rs1 = 0 => BitOr(o, a) = o /\ BitAnd(o, BitNot(a)) = o
      BY <1>6, NoBits
    <3>4. CASE in.op = "csrrw"
      BY <1>1, <2>2, <3>2, <3>4 DEF WritesCsr, CsrResult
    <3>5. CASE in.op = "csrrs"
      BY <1>1, <2>2, <3>1, <3>2, <3>3, <3>5 DEF WritesCsr, CsrResult
    <3>6. CASE in.op = "csrrc"
      BY <1>1, <2>2, <3>1, <3>2, <3>3, <3>6 DEF WritesCsr, CsrResult
    <3>7. CASE in.op = "csrrwi"
      BY <1>1, <2>2, <3>2, <3>7 DEF WritesCsr, CsrResult
    <3>8. CASE in.op = "csrrsi"
      BY <1>1, <2>2, <3>1, <3>2, <3>8 DEF WritesCsr, CsrResult
    <3>9. CASE in.op = "csrrci"
      BY <1>1, <2>2, <3>1, <3>2, <3>9 DEF WritesCsr, CsrResult
    <3> QED BY <3>4, <3>5, <3>6, <3>7, <3>8, <3>9 DEF CsrOps
  <2> QED BY <2>1, <2>2
<1>9. ArchMem' = ArchMem /\ at # "load" /\ at' # "load" /\ Machine!WordNum = WordNum
  BY MemoryRests, SameWords DEF Executing
<1>10. Machine!Advance
  BY <1>4, SamePc
<1> HIDE DEF res, row
<1> QED BY <1>3, <1>4, <1>5, <1>7, <1>8, <1>9, <1>10 DEF Machine!Csr, CsrOps

\* The bytes of a load are extended alike.
LEMMA SameExtension ==
  ASSUME NEW n, NEW sign \in BOOLEAN, NEW row, row.bytes = n, row.signed = sign, NEW data
  PROVE  Machine!Extended(n, sign, data) = Loaded(row, data)
<1> DEFINE f == [i \in Lane |-> IF i < n THEN data[i]
                                ELSE IF sign /\ data[n - 1] >= BYTE \div 2 THEN BYTE - 1 ELSE 0]
           fill == IF row.signed /\ data[row.bytes - 1] >= BYTE \div 2 THEN BYTE - 1 ELSE 0
           g == [i \in Lane |-> IF i < row.bytes THEN data[i] ELSE fill]
<1>1. Machine!Extended(n, sign, data) = Machine!Number(f)
  BY SameWords, Zenon DEF Machine!Extended, Machine!Lane, Lane, Machine!BYTE, BYTE
<1>2. Loaded(row, data) = Number(g)
  BY DEF Loaded
<1>3. f = g
  <2>1. ASSUME NEW i \in Lane PROVE f[i] = g[i]
    OBVIOUS
  <2> QED BY <2>1
<1> HIDE DEF f, g
<1> QED BY <1>1, <1>2, <1>3, SameOperators

\* A load writes the bytes at its address, extended, to a register other than x0.
LEMMA LoadRefines ==
  ASSUME NEW c, Executing(c), Machine!In.op \in LoadOps, UNCHANGED writeReq,
         NEW res, Completes(Machine!In, Opcodes[Machine!In.op], res, c),
         Machine!In.rd # 0 =>
           res = Loaded(Opcodes[Machine!In.op],
                        ReadWord(ram, Wrap(regs[Machine!In.rs1] + Machine!In.imm)))
  PROVE  Machine!Load
<1> DEFINE in == Machine!In
           row == Opcodes[in.op]
           a == Wrap(regs[in.rs1] + in.imm)
           n == CASE in.op \in {"lb", "lbu"} -> 1 [] in.op \in {"lh", "lhu"} -> 2 [] OTHER -> 4
           sign == in.op \in {"lb", "lh"}
           data == Machine!WordAt(a)
           ext == Machine!Extended(n, sign, data)
<1>1. /\ row.store_result = TRUE /\ row.csr_mode = "NOP" /\ row.pc_mode = "NEXT_I"
      /\ row.bytes = IF in.op \in {"lb", "lbu"} THEN 1
                     ELSE IF in.op \in {"lh", "lhu"} THEN 2 ELSE 4
      /\ row.signed = IF in.op \in {"lb", "lh"} THEN TRUE ELSE FALSE
  BY LoadRow
<1>2. data = ReadWord(ram, a)
  <2>1. ArchMem = ram /\ ram \in Memory /\ at # "load"
    BY DEF Executing, ArchMem, Empty, IInv, TypeInv
  <2>2. a \in WordNum
    BY AddressType DEF Executing, IInv, TypeInv, ProcessorTypes
  <2> HIDE DEF a
  <2> QED BY <2>1, <2>2, SameRead
<1>3. Loaded(row, data) = ext
  <2>1. row.bytes = n
    BY <1>1
  <2>2. sign \in BOOLEAN /\ row.signed = sign
    <3> DEFINE x == row.signed
    <3>1. x = IF sign THEN TRUE ELSE FALSE
      BY <1>1
    <3>2. sign \in BOOLEAN
      OBVIOUS
    <3> HIDE DEF x, sign
    <3> QED BY <3>1, <3>2, Zenon DEF x
  <2> HIDE DEF n, sign, data
  <2> QED BY <2>1, <2>2, SameExtension
<1>4. ~WritesCsr(in, row) /\ NextPc(in, row, res) = NextI
  BY <1>1 DEF WritesCsr, NextPc
<1>5. Machine!Set(in.rd, res) /\ csr'["OTHER"] = csr["OTHER"] /\ pc' = NextI
  BY <1>1, <1>4, CompletesWrites
<1>6. Machine!Set(in.rd, ext)
  <2>1. in.rd # 0 => res = ext
    BY <1>2, <1>3
  <2> HIDE DEF ext
  <2> QED BY <1>5, <2>1 DEF Machine!Set
<1>7. Machine!Wrap(Machine!A + in.imm) = a
  BY SameOperators DEF Machine!A
<1>8. ArchMem' = ArchMem /\ at # "load" /\ at' # "load"
  BY MemoryRests DEF Executing
<1>9. Machine!Advance
  BY <1>5, SamePc
<1>10. Machine!Set(in.rd, Machine!Extended(n, sign, Machine!WordAt(Machine!Wrap(Machine!A + in.imm))))
  <2> HIDE DEF n, sign, a
  <2> QED BY <1>6, <1>7
<1>11. csr["OTHER"]' = csr["OTHER"]
  BY <1>5
<1> QED BY <1>8, <1>9, <1>10, <1>11 DEF Machine!Load, LoadOps

\* A store is posted, and is in the abstract memory from then on.
LEMMA StoreRefines ==
  ASSUME NEW c, Executing(c), Machine!In.op \in StoreOps,
         Completes(Machine!In, Opcodes[Machine!In.op], 0, c),
         MemoryWriteRequest(Wrap(regs[Machine!In.rs1] + Machine!In.imm),
                            Opcodes[Machine!In.op].bytes, Bytes(regs[Machine!In.rs2]))
  PROVE  Machine!Store
<1> DEFINE in == Machine!In
           row == Opcodes[in.op]
           a == Wrap(regs[in.rs1] + in.imm)
           n == CASE in.op = "sb" -> 1 [] in.op = "sh" -> 2 [] OTHER -> 4
           v == regs[in.rs2]
           w == [address |-> a, mask |-> row.bytes, data |-> Bytes(v)]
<1>1. /\ row.store_result = FALSE /\ row.csr_mode = "NOP" /\ row.pc_mode = "NEXT_I"
      /\ row.bytes = IF in.op = "sb" THEN 1 ELSE IF in.op = "sh" THEN 2 ELSE 4
  BY StoreRow
<1>2. ~WritesCsr(in, row) /\ NextPc(in, row, 0) = NextI
  BY <1>1 DEF WritesCsr, NextPc
<1>3. UNCHANGED regs /\ csr'["OTHER"] = csr["OTHER"] /\ pc' = NextI
  BY <1>1, <1>2, CompletesWrites
<1>4. /\ ArchMem = ram /\ ram \in Memory /\ ram' = ram /\ at # "load" /\ at' # "load"
      /\ Queue(writeReq) /\ writeReq.count = 0
  BY DEF Executing, ArchMem, Empty, IInv, TypeInv, Inv, QueuesInv
<1>5. a \in WordNum /\ v \in Int
  <2>1. v \in WordNum
    BY OperandType DEF Executing, IInv, TypeInv, ProcessorTypes
  <2>2. v \in Int
    BY <2>1, Widths, SMT DEF WordNum
  <2> QED BY <2>2, AddressType DEF Executing, IInv, TypeInv, ProcessorTypes
<1>6. n = row.bytes /\ n \in {1, 2, 4}
  BY <1>1 DEF StoreOps
<1>7. ArchMem' = WriteWord(ram, a, n, Bytes(v))
  <2>1. writeReq' = Push(writeReq, w)
    BY DEF MemoryWriteRequest
  <2>2. w.address = a /\ w.mask = row.bytes /\ w.data = Bytes(v)
    OBVIOUS
  <2> HIDE DEF w, a, n, v, row
  <2>3. writeReq'.count = 1 /\ Front(writeReq') = w
    BY <1>4, <2>1, PushQueue
  <2>4. ArchMem' = Apply(ram', Front(writeReq'))
    BY <2>3 DEF ArchMem, Empty
  <2> QED BY <1>4, <1>6, <2>2, <2>3, <2>4 DEF Apply
<1>8. Machine!Written(a, n, v) = ArchMem'
  <2> HIDE DEF a, n, v
  <2> QED BY <1>4, <1>5, <1>6, <1>7, SameWrite
<1>9. Machine!Wrap(Machine!A + in.imm) = a /\ Machine!B("") = v
  <2>1. in.op # ""
    BY DEF StoreOps
  <2> QED BY <2>1, SameOperators DEF Machine!A, Machine!B
<1>10. Machine!Advance
  BY <1>3, SamePc
<1>11. ArchMem' = Machine!Written(Machine!Wrap(Machine!A + in.imm), n, Machine!B(""))
  <2> HIDE DEF a, n, v
  <2> QED BY <1>8, <1>9
<1> QED BY <1>3, <1>4, <1>10, <1>11 DEF Machine!Store, StoreOps

\* modelsim's copy goes on after an exception.
LEMMA SkipRefines ==
  ASSUME NEW c, Executing(c), Machine!In.op \in Exceptions, variant # "model_verify",
         UNCHANGED writeReq, RaiseException(c)
  PROVE  Machine!Skip
<1>1. variant = "modelsim"
  BY VariantsAssumption DEF Executing, IInv, TypeInv, MainTypes
<1>2. pc' = NextI /\ csr' = CountTime(c) /\ UNCHANGED regs
  BY DEF RaiseException
<1>3. csr'["OTHER"] = csr["OTHER"]
  BY <1>2, CountTypes DEF Executing
<1>4. ArchMem' = ArchMem /\ at # "load" /\ at' # "load"
  BY MemoryRests DEF Executing
<1>5. Machine!Advance
  BY <1>2, SamePc
<1> QED BY <1>1, <1>2, <1>3, <1>4, <1>5 DEF Machine!Skip, Exceptions

-----------------------------------------------------------------------------
(* Every step of the emulator is a step of the abstract machine, or none.  *)

\* The emulator starts with its registers at zero.
BootInv == at \in {"load", "reset"} => regs = [r \in Reg |-> 0]

\* The parser has left the program in the RAM.
ProgramLoaded == at = "reset" => ram = Machine!Program(image.words)

\* A step the machine does not see.
LEMMA Unseen ==
  ASSUME UNCHANGED <<image, variant, pc, regs>>, csr'["OTHER"] = csr["OTHER"],
         at # "load", at' # "load", ArchMem' = ArchMem
  PROVE  UNCHANGED Machine!isaVars
  BY DEF Machine!isaVars

\* A step that executes an instruction.
LEMMA Seen ==
  ASSUME UNCHANGED <<image, variant>>, at # "load", at' # "load", pc % 4 = 0,
         \/ Machine!Compute \/ Machine!Fence \/ Machine!Branch \/ Machine!Jump
         \/ Machine!Load \/ Machine!Store \/ Machine!Csr \/ Machine!Skip
  PROVE  Machine!Next
  BY DEF Machine!Next

\* The processor waits, or stands still.
LEMMA WaitsUnseen ==
  ASSUME IInv, UNCHANGED <<image, variant, ram, writeReq>>, at # "load", at' # "load",
         NEW c \in Csrs, c["OTHER"] = csr["OTHER"], Waits(c) \/ Fails(c)
  PROVE  UNCHANGED Machine!isaVars
<1>1. csr'["OTHER"] = csr["OTHER"]
  BY CountTypes DEF Waits, Fails
<1>2. ArchMem' = ArchMem
  BY DEF ArchMem
<1> QED BY <1>1, <1>2, Unseen DEF Waits, Fails

\* Executing the instruction at pc completes it as the machine does, or waits.
LEMMA ExecuteRefines ==
  ASSUME NEW c, Executing(c), NEW dispatched, Execute(Machine!In, dispatched, c),
         dispatched /\ ~Empty(readData) =>
           Front(readData) = ReadWord(ram, Wrap(regs[Machine!In.rs1] + Machine!In.imm))
  PROVE  Machine!Next \/ UNCHANGED Machine!isaVars
<1> DEFINE in == Machine!In
           row == Opcodes[in.op]
<1>1. /\ UNCHANGED <<image, variant, ram>> /\ at # "load" /\ at' # "load" /\ pc % 4 = 0
      /\ IInv /\ c \in Csrs /\ c["OTHER"] = csr["OTHER"] /\ in.op \in DOMAIN Opcodes
  BY DEF Executing
<1>2. /\ row.memory_mode = "LOAD" <=> in.op \in LoadOps
      /\ row.memory_mode = "STORE" <=> in.op \in StoreOps
  BY <1>1, RowTypes
<1>3. CASE in.op \in Exceptions /\ RaiseException(c) /\ UNCHANGED writeReq
  <2>1. CASE variant = "model_verify"
    BY <1>1, <1>3, <2>1, WaitsUnseen DEF RaiseException
  <2>2. CASE variant # "model_verify"
    BY <1>1, <1>3, <2>2, SkipRefines, Seen
  <2> QED BY <2>1, <2>2
<1>4. CASE row.memory_mode = "STORE" /\ Store(in, row, c)
  <2>1. ~Full(writeReq)
    BY Levels DEF Executing, IInv, Inv, QueuesInv
  <2>2. /\ Completes(in, row, 0, c)
        /\ MemoryWriteRequest(Wrap(regs[in.rs1] + in.imm), row.bytes, Bytes(regs[in.rs2]))
    BY <1>4, <2>1 DEF Store
  <2>3. Machine!Store
    BY <1>2, <1>4, <2>2, StoreRefines
  <2> QED BY <1>1, <2>3, Seen
<1>5. CASE RequestLoad(in, c) /\ UNCHANGED writeReq
  BY <1>1, <1>5, WaitsUnseen DEF RequestLoad
<1>6. CASE row.memory_mode = "LOAD" /\ dispatched /\ TakeLoad(in, row, c) /\ UNCHANGED writeReq
  <2>1. CASE Empty(readData)
    BY <1>1, <1>6, <2>1, WaitsUnseen DEF TakeLoad
  <2>2. CASE ~Empty(readData)
    <3>1. Completes(in, row, Loaded(row, Front(readData)), c)
      BY <1>6, <2>2 DEF TakeLoad
    <3>2. Front(readData) = ReadWord(ram, Wrap(regs[in.rs1] + in.imm))
      BY <1>6, <2>2
    <3>3. Machine!Load
      BY <1>2, <1>6, <3>1, <3>2, LoadRefines
    <3> QED BY <1>1, <3>3, Seen
  <2> QED BY <2>1, <2>2
<1>7. CASE /\ in.op \notin Exceptions /\ ~(row.memory_mode = "LOAD" /\ in.rd # 0)
           /\ row.memory_mode # "STORE"
           /\ Completes(in, row, Result(in, row, c), c) /\ UNCHANGED writeReq
  <2>1. in.op \in LoadOps => in.rd = 0
    BY <1>2, <1>7
  <2>2. in.op \notin StoreOps
    BY <1>2, <1>7
  <2>3. CASE in.op \in Machine!Computes
    BY <1>1, <1>7, <2>3, ComputeRefines, Seen
  <2>4. CASE in.op \in FenceOps
    BY <1>1, <1>7, <2>4, FenceRefines, Seen
  <2>5. CASE in.op \in BranchOps
    BY <1>1, <1>7, <2>5, BranchRefines, Seen
  <2>6. CASE in.op \in JumpOps
    BY <1>1, <1>7, <2>6, JumpRefines, Seen
  <2>7. CASE in.op \in LoadOps
    <3> DEFINE res == Result(in, row, c)
    <3>1. Completes(in, row, res, c) /\ in.rd = 0
      BY <1>7, <2>1, <2>7
    <3> HIDE DEF res
    <3>2. Machine!Load
      BY <1>7, <2>7, <3>1, LoadRefines
    <3> QED BY <1>1, <3>2, Seen
  <2>8. CASE in.op \in CsrOps
    BY <1>1, <1>7, <2>8, CsrRefines, Seen
  <2> QED BY <1>1, <1>7, <2>2, <2>3, <2>4, <2>5, <2>6, <2>7, <2>8, OpcodeKinds
<1> QED BY <1>3, <1>4, <1>5, <1>6, <1>7 DEF Execute

\* The instruction at pc, in memory and in flight.
LEMMA SameInstruction ==
  ASSUME IInv, at # "load", writeReq.count = 0
  PROVE  Machine!In = Decode[Number(ReadWord(ram, pc))]
<1>1. ArchMem = ram /\ ram \in Memory /\ pc \in WordNum
  BY DEF ArchMem, Empty, IInv, TypeInv, ProcessorTypes
<1>2. Machine!WordAt(pc) = ReadWord(ram, pc)
  BY <1>1, SameRead
<1> QED BY <1>2, SameOperators DEF Machine!In

\* The processor's turn.
LEMMA RunRefines ==
  ASSUME IInv, RiscvRun
  PROVE  Machine!Next \/ UNCHANGED Machine!isaVars
<1> DEFINE c == CountCycle
<1>1. c \in Csrs /\ c["OTHER"] = csr["OTHER"]
  BY CountTypes DEF IInv, TypeInv, ProcessorTypes
<1>2. Misaligned(c) \/ AwaitFetch(c) \/ TakeFetch(c) \/ Retry(c)
  BY DEF RiscvRun
<1>3. at = "cpu" /\ UNCHANGED <<image, variant, ram>>
  BY DEF RiscvRun
<1>4. at' # "load"
  BY <1>2 DEF Misaligned, AwaitFetch, TakeFetch, Retry, NextTurn
<1>5. writeReq.count = 0
  BY <1>3 DEF IInv, Inv, ServedInv
<1> HIDE DEF c
<1>6. CASE Misaligned(c) \/ AwaitFetch(c)
  <2>1. UNCHANGED writeReq /\ (Waits(c) \/ Fails(c))
    BY <1>6 DEF Misaligned, AwaitFetch, queues
  <2> QED BY <1>1, <1>3, <1>4, <2>1, WaitsUnseen
<1>7. CASE TakeFetch(c)
  <2>1. /\ ~stalled /\ fetch_in_progress /\ ~Empty(fetchData) /\ pc % 4 = 0
    BY <1>7 DEF TakeFetch
  <2>2. Machine!In = Decode[Fetched]
    <3>1. fetchData.count = 1
      BY <2>1, Levels DEF IInv, Inv, QueuesInv
    <3>2. Fetched = Number(ReadWord(ram, pc))
      BY <3>1 DEF IInv, Inv, FetchInv, Fetched
    <3> QED BY <1>3, <1>5, <3>2, SameInstruction
  <2>3. CASE Decode[Fetched].op = "invalid"
    <3>1. Fails(c) /\ UNCHANGED writeReq
      BY <1>7, <2>3 DEF TakeFetch
    <3> QED BY <1>1, <1>3, <1>4, <3>1, WaitsUnseen
  <2>4. CASE Decode[Fetched].op # "invalid"
    <3>1. Execute(Machine!In, FALSE, c)
      BY <1>7, <2>2, <2>4 DEF TakeFetch
    <3>2. Executing(c)
      BY <1>1, <1>3, <1>4, <1>5, <2>1, <2>2, <2>4, FetchedType DEF Executing
    <3> QED BY <3>1, <3>2, ExecuteRefines
  <2> QED BY <2>3, <2>4
<1>8. CASE Retry(c)
  <2>1. stalled /\ pc % 4 = 0 /\ Execute(Decode[current_instr], read_dispatched, c)
    BY <1>8 DEF Retry
  <2>2. Machine!In = Decode[current_instr]
    BY <1>3, <1>5, <2>1, SameInstruction DEF IInv, DataInv
  <2>3. Machine!In \in Instr /\ Machine!In.op \in DOMAIN Opcodes
    BY <2>1, <2>2, DecodeType DEF IInv, TypeInv, ProcessorTypes
  <2>4. Executing(c)
    BY <1>1, <1>3, <1>4, <1>5, <2>1, <2>3 DEF Executing
  <2>5. ~Empty(readData) =>
          Front(readData) = ReadWord(ram, Wrap(regs[Machine!In.rs1] + Machine!In.imm))
    BY <2>1, <2>2, Levels DEF IInv, DataInv, Inv, QueuesInv
  <2> QED BY <2>1, <2>2, <2>4, <2>5, ExecuteRefines
<1> QED BY <1>2, <1>6, <1>7, <1>8

\* The memory's turn stores what the machine has stored already.
LEMMA MemoryUnseen ==
  ASSUME IInv, MemoryTurn
  PROVE  UNCHANGED Machine!isaVars
<1>1. /\ UNCHANGED <<image, variant, pc, regs, csr>> /\ MemoryRun
      /\ at # "load" /\ at' # "load"
  BY DEF MemoryTurn, cpuVars
<1>2. Queue(writeReq)
  BY DEF IInv, Inv, QueuesInv
<1>3. ArchMem' = ArchMem
  <2>1. CASE CanWrite
    <3>1. ServeWrite /\ writeReq.count = 1
      BY <1>1, <1>2, <2>1, Levels DEF MemoryRun, CanWrite
    <3>2. writeReq'.count = 0
      BY <1>2, <3>1, PopQueue DEF ServeWrite
    <3>3. ArchMem' = ram' /\ ArchMem = Apply(ram, Front(writeReq))
      BY <3>1, <3>2 DEF ArchMem, Empty
    <3> QED BY <3>1, <3>3 DEF ServeWrite
  <2>2. CASE ~CanWrite
    BY <1>1, <2>2 DEF MemoryRun, ServeRead, ServeFetch, ArchMem, memVars, queues
  <2> QED BY <2>1, <2>2
<1> QED BY <1>1, <1>3, Unseen

\* main's own steps: the machine sees only that the image has been loaded.
LEMMA MainRefines ==
  ASSUME IInv, BootInv, ProgramLoaded', Load \/ RiscvReset \/ RunCycle \/ Finish \/ DivideTrap
  PROVE  Machine!Next \/ UNCHANGED Machine!isaVars
<1>1. CASE Load
  <2>1. /\ at = "load" /\ at' \in {"load", "reset"}
        /\ UNCHANGED <<image, variant, pc, regs, csr, writeReq>>
    BY <1>1 DEF Load, cpuVars, queues
  <2>2. CASE at' = "load"
    BY <2>1, <2>2 DEF Machine!isaVars
  <2>3. CASE at' = "reset"
    <3>1. writeReq.count = 0
      BY <2>1, Levels DEF IInv, Inv, QueuesInv, OneInFlight
    <3>2. ArchMem' = ram'
      BY <2>1, <3>1 DEF ArchMem, Empty
    <3>3. ram' = Machine!Program(image.words)
      BY <2>1, <2>3 DEF ProgramLoaded
    <3>4. Machine!Boot
      BY <2>1, <2>3, <3>2, <3>3 DEF Machine!Boot
    <3> QED BY <2>1, <3>4 DEF Machine!Next
  <2> QED BY <2>1, <2>2, <2>3
<1>2. CASE RiscvReset
  <2>1. /\ at = "reset" /\ at' = "main" /\ pc' = 0 /\ regs' = [r \in Reg |-> 0]
        /\ UNCHANGED <<image, variant, csr, ram>> /\ writeReq' = Clear(writeReq)
    BY <1>2 DEF RiscvReset, MemoryReset
  <2>2. pc = 0 /\ regs = [r \in Reg |-> 0]
    BY <2>1 DEF IInv, Inv, PhaseInv, Fresh, BootInv
  <2>3. writeReq.count = 0 /\ writeReq'.count = 0
    <3>1. Queue(writeReq)
      BY DEF IInv, Inv, QueuesInv
    <3> QED BY <2>1, <3>1, Levels, ClearQueue DEF IInv, Inv, OneInFlight
  <2>4. ArchMem' = ArchMem
    BY <2>1, <2>3 DEF ArchMem, Empty
  <2> QED BY <2>1, <2>2, <2>4, Unseen
<1>3. CASE RunCycle \/ Finish \/ DivideTrap
  <2>1. /\ UNCHANGED <<image, variant, pc, regs, csr, ram, writeReq>>
        /\ at # "load" /\ at' # "load"
    BY <1>3 DEF RunCycle, Finish, DivideTrap, cpuVars, memVars, queues
  <2>2. ArchMem' = ArchMem
    BY <2>1 DEF ArchMem
  <2> QED BY <2>1, <2>2, Unseen
<1> QED BY <1>1, <1>2, <1>3

\* Each step, under the invariants.
LEMMA StepRefines ==
  ASSUME IInv, BootInv, ProgramLoaded', [Next]_vars
  PROVE  [Machine!Next]_(Machine!isaVars)
<1>1. CASE RiscvRun
  BY <1>1, RunRefines
<1>2. CASE MemoryTurn
  BY <1>2, MemoryUnseen
<1>3. CASE Load \/ RiscvReset \/ RunCycle \/ Finish \/ DivideTrap
  BY <1>3, MainRefines
<1>4. CASE UNCHANGED vars
  BY <1>4 DEF vars, cpuVars, memVars, queues, Machine!isaVars, ArchMem
<1> QED BY <1>1, <1>2, <1>3, <1>4 DEF Next

\* The first state is the machine's.
LEMMA InitRefines == Init => Machine!Init
<1> SUFFICES ASSUME Init PROVE Machine!Init
  OBVIOUS
<1>1. ~(at \notin {"load"})
  BY DEF Init
<1>2. (at \notin {"load"}) = FALSE
  <2> HIDE DEF Init
  <2> QED BY Zenon, <1>1
<1>3. regs = [r \in Machine!Reg |-> 0]
  BY SameWords DEF Init
<1>4. csr["OTHER"] = 0
  BY DEF Init, CsrId
<1>5. (IF at = "load" THEN [l \in Location |-> 0] ELSE ArchMem) = [l \in Machine!Loc |-> 0]
  BY SameWords DEF Init
<1> QED
  <2>1. image \in Images /\ variant \in Variants /\ pc = 0
    BY DEF Init
  <2> QED BY Zenon, <2>1, <1>2, <1>3, <1>4, <1>5 DEF Machine!Init

\* Nothing writes a register before the reset.
LEMMA BootHolds == Spec => []BootInv
<1>1. Init => BootInv
  BY DEF Init, BootInv
<1>2. ASSUME BootInv, [Next]_vars PROVE BootInv'
  <2>1. CASE Load
    BY <1>2, <2>1 DEF Load, cpuVars, BootInv
  <2>2. CASE RiscvReset \/ RunCycle \/ MemoryTurn \/ DivideTrap \/ Finish
    BY <2>2 DEF RiscvReset, RunCycle, MemoryTurn, DivideTrap, Finish, BootInv
  <2>3. CASE RiscvRun
    <3>1. at' \in {"memory", "main"}
      BY <2>3 DEF RiscvRun, Misaligned, AwaitFetch, TakeFetch, Retry, NextTurn
    <3> QED BY <3>1 DEF BootInv
  <2>4. CASE UNCHANGED vars
    BY <1>2, <2>4 DEF vars, cpuVars, BootInv
  <2> QED BY <1>2, <2>1, <2>2, <2>3, <2>4 DEF Next
<1> QED BY <1>1, <1>2, PTL DEF Spec

\* The queued, stalling emulator executes what it has loaded as the abstract
\* machine does, one instruction at a time.
THEOREM Refinement == Spec /\ []ProgramLoaded => ImplementsIsa
<1>1. IInv /\ BootInv /\ ProgramLoaded' /\ [Next]_vars => [Machine!Next]_(Machine!isaVars)
  BY StepRefines
<1> QED BY <1>1, InitRefines, IInvHolds, BootHolds, PTL DEF Spec, ImplementsIsa, Machine!Spec

-----------------------------------------------------------------------------
(* The text of a program.                                                  *)

Line == Digits + 1

\* The digits of line m, of a program of n words whose last lacks some.
Width(n, missing, m) == Digits - IF m = n THEN missing ELSE 0

\* A program and the digits its last word may lack: they are zeros, and the
\* word has its place in the RAM.
Writable(words, missing) ==
  /\ words \in Seq(WordNum) /\ missing \in 0 .. Digits - 1
  /\ missing > 0 /\ Len(words) > 0 =>
       /\ words[Len(words)] < 16 ^ (Digits - missing)
       /\ 4 * Len(words) <= RamSize

\* The first k lines of the text, character by character.
Lines(text, words, missing, k) ==
  /\ text \in Seq(Nat)
  /\ Len(text) = k * Line - IF k = Len(words) /\ k > 0 THEN missing ELSE 0
  /\ \A m \in 1 .. k :
       LET w == Width(Len(words), missing, m)
       IN /\ \A j \in 1 .. w : text[(m - 1) * Line + j] = HexDigit(words[m], w - j)
          /\ text[(m - 1) * Line + w + 1] = NL

\* Two, four or eight digits.
LEMMA DigitsOf == Digits \in {2, 4, 8}
  BY ByteBitsAssumption DEF Digits, XLEN

\* Where lines start.
LEMMA Starts ==
  ASSUME NEW k \in Nat, NEW m \in Nat
  PROVE  /\ k * Line \in Nat /\ (k + 1) * Line = k * Line + Line
         /\ m < k => m * Line + Line <= k * Line
<1>1. CASE Digits = 2
  BY <1>1 DEF Line
<1>2. CASE Digits = 4
  BY <1>2 DEF Line
<1>3. CASE Digits = 8
  BY <1>3 DEF Line
<1> QED BY <1>1, <1>2, <1>3, DigitsOf

\* The powers of sixteen that a word has digits for.
LEMMA Sixteens ==
  ASSUME NEW i \in 0 .. 7
  PROVE  16 ^ i \in Nat \ {0} /\ 16 ^ (i + 1) = 16 * 16 ^ i
<1>1. 16 ^ 0 = 1 /\ 16 ^ 1 = 16 /\ 16 ^ 2 = 256 /\ 16 ^ 3 = 4096 /\ 16 ^ 4 = 65536
  BY SMT
<1>2. 16 ^ 5 = 1048576 /\ 16 ^ 6 = 16777216 /\ 16 ^ 7 = 268435456 /\ 16 ^ 8 = 4294967296
  BY SMT
<1>3. CASE i = 0
  BY <1>1, <1>3, SMT
<1>4. CASE i = 1
  BY <1>1, <1>4, SMT
<1>5. CASE i = 2
  BY <1>1, <1>5, SMT
<1>6. CASE i = 3
  BY <1>1, <1>6, SMT
<1>7. CASE i = 4
  BY <1>1, <1>2, <1>7, SMT
<1>8. CASE i = 5
  BY <1>2, <1>8, SMT
<1>9. CASE i = 6
  BY <1>2, <1>9, SMT
<1>10. CASE i = 7
  BY <1>2, <1>10, SMT
<1>11. i = 0 \/ i = 1 \/ i = 2 \/ i = 3 \/ i = 4 \/ i = 5 \/ i = 6 \/ i = 7
  BY SMT
<1> QED BY Zenon, <1>3, <1>4, <1>5, <1>6, <1>7, <1>8, <1>9, <1>10, <1>11

\* A word has no digit beyond its width.
LEMMA WordDigits16 == WORD = 16 ^ Digits
<1>1. CASE ByteBits = 2
  BY <1>1, SMTT(20) DEF WORD, XLEN, Digits
<1>2. CASE ByteBits = 4
  BY <1>2, SMTT(20) DEF WORD, XLEN, Digits
<1>3. CASE ByteBits = 8
  BY <1>3, SMTT(20) DEF WORD, XLEN, Digits
<1> QED BY <1>1, <1>2, <1>3, ByteBitsAssumption, SMT

\* Dividing by p and then by sixteen.
LEMMA SixteenthQuotient ==
  ASSUME NEW y \in Nat, NEW p \in Nat \ {0}
  PROVE  (y \div p) \div 16 = y \div (16 * p)
<1> DEFINE h == y \div p
           b == y % p
           q == h \div 16
           r == h % 16
           n == 16 * p
           c == p * r + b
<1>1. h \in Int /\ b \in Nat /\ b < p /\ y = p * h + b
  BY Divided
<1>2. q \in Int /\ r \in 0 .. 15 /\ h = 16 * q + r
  <2> HIDE DEF h
  <2> QED BY <1>1
<1> HIDE DEF h, b, q, r
<1>3. p * r \in Nat /\ p * r <= p * 15
  BY <1>2
<1>4. n \in Nat \ {0} /\ c \in Nat /\ c < n
  BY <1>1, <1>3
<1>5. y = n * q + c
  <2>1. p * h = p * (16 * q) + p * r
    BY <1>1, <1>2
  <2>2. p * (16 * q) = (16 * p) * q
    BY <1>2
  <2>3. n * q = (16 * p) * q /\ c = p * r + b
    OBVIOUS
  <2> DEFINE X == p * (16 * q)
             Y == p * r
             Z == (16 * p) * q
             V == p * h
             W == n * q
  <2>4. X \in Int /\ Y \in Int /\ V = X + Y /\ X = Z /\ W = Z /\ c = Y + b /\ y = V + b
    BY <1>1, <1>2, <1>3, <2>1, <2>2, <2>3
  <2> HIDE DEF X, Y, Z, V
  <2>5. y = W + c
    <3> HIDE DEF W, c
    <3> QED BY <1>1, <2>4
  <2> QED BY <2>5
<1> HIDE DEF n, c
<1>6. y \div n = q
  BY <1>2, <1>4, <1>5, Quotients
<1> QED BY <1>6 DEF n, q, h

\* One digit more of a number read from the top.
LEMMA NextDigit ==
  ASSUME NEW w \in Nat, NEW i \in 0 .. 7
  PROVE  /\ HexDigit(w, i) \in Digit
         /\ 16 * (w \div 16 ^ (i + 1)) + HexDigit(w, i) = w \div 16 ^ i
         /\ w \div 16 ^ i \in 0 .. w
         /\ w < 16 ^ (i + 1) => HexDigit(w, i) = w \div 16 ^ i
<1> DEFINE p == 16 ^ i
           q == w \div p
<1>1. p \in Nat \ {0} /\ 16 ^ (i + 1) = 16 * p
  BY Sixteens
<1>2. (w \div p) \div 16 = w \div (16 * p)
  <2> HIDE DEF p
  <2> QED BY <1>1, SixteenthQuotient
<1>3. q \in Nat /\ w % p \in Nat /\ w = p * q + (w % p)
  <2> HIDE DEF p
  <2> QED BY <1>1, Divided
<1>4. w \div 16 ^ (i + 1) = q \div 16 /\ HexDigit(w, i) = q % 16
  BY <1>1, <1>2 DEF HexDigit
<1> HIDE DEF p, q
<1>5. q <= p * q
  BY <1>1, <1>3
<1>6. w < 16 * p => q < 16
  <2> SUFFICES ASSUME w < 16 * p, q >= 16 PROVE FALSE
    BY <1>3
  <2>1. p * 16 <= p * q
    BY <1>1, <1>3
  <2> QED BY <1>1, <1>3, <2>1
<1>7. q % 16 \in 0 .. 15 /\ 16 * (q \div 16) + (q % 16) = q
  BY <1>3
<1>8. q < 16 => q % 16 = q
  BY <1>3
<1> QED BY <1>1, <1>3, <1>4, <1>5, <1>6, <1>7, <1>8 DEF p, q, Digit

\* The lowest digit is the last.
LEMMA LastDigit ==
  ASSUME NEW w \in Nat
  PROVE  w \div 16 ^ 0 = w
<1>1. 16 ^ 0 = 1
  BY SMT
<1> QED BY <1>1

\* A line written after what is there.
LEMMA LineAdded ==
  ASSUME NEW t \in Seq(Nat), NEW d \in Nat, NEW h \in [1 .. d -> Nat]
  PROVE  LET u == t \o h \o <<NL>>
         IN /\ u \in Seq(Nat) /\ Len(u) = Len(t) + d + 1
            /\ \A j \in 1 .. Len(t) : u[j] = t[j]
            /\ \A j \in 1 .. d : u[Len(t) + j] = h[j]
            /\ u[Len(t) + d + 1] = NL
<1> DEFINE s == t \o h
           e == <<NL>>
           u == s \o e
<1>1. h \in Seq(Nat) /\ Len(h) = d /\ Len(t) \in Nat
  BY LenProperties
<1>2. e \in Seq(Nat) /\ Len(e) = 1 /\ e[1] = NL
  BY DEF NL
<1>3. /\ s \in Seq(Nat) /\ Len(s) = Len(t) + d
      /\ \A i \in 1 .. Len(t) + d : s[i] = IF i <= Len(t) THEN t[i] ELSE h[i - Len(t)]
  BY <1>1, ConcatProperties
<1> HIDE DEF s, e
<1>4. /\ u \in Seq(Nat) /\ Len(u) = Len(s) + 1
      /\ \A i \in 1 .. Len(s) + 1 : u[i] = IF i <= Len(s) THEN s[i] ELSE e[i - Len(s)]
  <2>1. s \in Seq(Nat) /\ e \in Seq(Nat)
    BY <1>2, <1>3
  <2>2. /\ s \o e \in Seq(Nat) /\ Len(s \o e) = Len(s) + Len(e)
        /\ \A i \in 1 .. Len(s) + Len(e) :
             (s \o e)[i] = IF i <= Len(s) THEN s[i] ELSE e[i - Len(s)]
    BY <2>1, ConcatProperties
  <2> QED BY <1>2, <2>2, Zenon
<1> HIDE DEF u
<1> DEFINE n == Len(t)
<1>5. /\ n \in Nat /\ Len(u) = n + d + 1 /\ e[1] = NL
      /\ \A i \in 1 .. n + d : s[i] = IF i <= n THEN t[i] ELSE h[i - n]
      /\ \A i \in 1 .. n + d + 1 : u[i] = IF i <= n + d THEN s[i] ELSE e[i - (n + d)]
  <2>1. n \in Nat /\ Len(s) = n + d /\ e[1] = NL
    BY <1>1, <1>2, <1>3, Zenon
  <2>2. \A i \in 1 .. n + d : s[i] = IF i <= n THEN t[i] ELSE h[i - n]
    BY <1>3, Zenon
  <2>3. /\ Len(u) = n + d + 1
        /\ \A i \in 1 .. n + d + 1 : u[i] = IF i <= n + d THEN s[i] ELSE e[i - (n + d)]
    BY <1>4, <2>1, Zenon
  <2> QED BY <2>1, <2>2, <2>3, Zenon
<1> HIDE DEF n
<1>6. \A j \in 1 .. n : u[j] = t[j]
  BY <1>5
<1>7. \A j \in 1 .. d : u[n + j] = h[j]
  <2> SUFFICES ASSUME NEW j \in 1 .. d PROVE u[n + j] = h[j]
    OBVIOUS
  <2> DEFINE k == n + j
  <2>2. k \in 1 .. n + d /\ k \in 1 .. n + d + 1 /\ ~(k <= n) /\ k <= n + d /\ k - n = j
    BY <1>5
  <2> HIDE DEF k
  <2>3. s[k] = h[k - n]
    BY <1>5, <2>2
  <2>4. u[k] = s[k]
    BY <1>5, <2>2
  <2> QED BY <2>2, <2>3, <2>4 DEF k
<1>8. u[n + d + 1] = NL
  <2>1. n + d + 1 \in 1 .. n + d + 1 /\ ~(n + d + 1 <= n + d) /\ n + d + 1 - (n + d) = 1
    BY <1>5
  <2> QED BY <1>5, <2>1
<1> QED BY <1>4, <1>5, <1>6, <1>7, <1>8, Zenon DEF u, s, n, e

\* g[k] is the text of the first k lines, as RomFile builds it.
Texts(g, words, missing) ==
  g = [i \in 0 .. Len(words) |->
         IF i = 0 THEN <<>>
         ELSE g[i - 1] \o HexWord(words[i], Width(Len(words), missing, i)) \o <<NL>>]

\* The digits of a line.
LEMMA HexWordType ==
  ASSUME NEW words, NEW missing, Writable(words, missing), NEW k \in 1 .. Len(words)
  PROVE  LET d == Width(Len(words), missing, k)
         IN /\ d \in 1 .. Digits /\ words[k] \in Nat
            /\ HexWord(words[k], d) \in [1 .. d -> Nat]
<1> DEFINE d == Width(Len(words), missing, k)
<1>1. d \in 1 .. Digits /\ d \in 1 .. 8
  BY DigitsOf DEF Writable, Width
<1>2. words[k] \in Nat
  <2>1. words[k] \in WordNum
    BY ElementOfSeq DEF Writable
  <2> QED BY <2>1, Widths, SMT DEF WordNum
<1> HIDE DEF d
<1>3. HexWord(words[k], d) \in [1 .. d -> Nat]
  <2> DEFINE w == words[k]
  <2>0. w \in Nat
    BY <1>2
  <2> HIDE DEF w
  <2>1. ASSUME NEW i \in 1 .. d PROVE HexDigit(w, d - i) \in Nat
    <3> DEFINE e == d - i
    <3>1. e \in 0 .. 7
      BY <1>1
    <3> HIDE DEF e
    <3>2. HexDigit(w, e) \in Digit
      BY <2>0, <3>1, NextDigit
    <3> QED BY <3>2 DEF Digit, e
  <2>2. [i \in 1 .. d |-> HexDigit(w, d - i)] \in [1 .. d -> Nat]
    BY <2>1
  <2> QED BY <2>2 DEF HexWord, w
<1> QED BY <1>1, <1>2, <1>3 DEF d

\* The recursion of RomFile has a solution.
LEMMA TextsExist ==
  ASSUME NEW words, NEW missing, Writable(words, missing)
  PROVE  \E g : Texts(g, words, missing)
<1> DEFINE n == Len(words)
           More(t, i) == t \o HexWord(words[i], Width(n, missing, i)) \o <<NL>>
           Right(g, k) == \A i \in 0 .. n : i <= k => g[i] = IF i = 0 THEN <<>> ELSE More(g[i - 1], i)
           S == {k \in Nat : k <= n => \E g \in [0 .. n -> Seq(Nat)] : Right(g, k)}
<1>1. n \in Nat
  BY LenProperties DEF Writable
<1>2. ASSUME NEW t \in Seq(Nat), NEW i \in 1 .. n PROVE More(t, i) \in Seq(Nat)
  <2> DEFINE d == Width(n, missing, i)
             h == HexWord(words[i], d)
  <2>1. d \in Nat /\ h \in [1 .. d -> Nat] 
    BY <1>2, DigitsOf, HexWordType DEF Width
  <2> HIDE DEF d
  <2>2. t \o h \o <<NL>> \in Seq(Nat)
    <3> HIDE DEF h
    <3> QED BY <2>1, LineAdded
  <2> QED BY <2>2, Zenon DEF d
<1> HIDE DEF More
<1>3. 0 \in S
  <2> DEFINE g == [i \in 0 .. n |-> <<>>]
  <2>1. <<>> \in Seq(Nat)
    BY EmptySeq
  <2>2. g \in [0 .. n -> Seq(Nat)] /\ Right(g, 0)
    BY <1>1, <2>1
  <2> QED BY <2>2
<1>4. ASSUME NEW k \in Nat, k \in S PROVE k + 1 \in S
  <2> SUFFICES ASSUME k + 1 <= n PROVE \E h \in [0 .. n -> Seq(Nat)] : Right(h, k + 1)
    OBVIOUS
  <2>1. PICK g \in [0 .. n -> Seq(Nat)] : Right(g, k)
    BY <1>1, <1>4
  <2> DEFINE h == [g EXCEPT ![k + 1] = More(g[k], k + 1)]
  <2>2. k \in 0 .. n /\ k + 1 \in 1 .. n /\ k + 1 \in 0 .. n
    BY <1>1
  <2>3. More(g[k], k + 1) \in Seq(Nat)
    BY <1>2, <2>1, <2>2
  <2>4. h \in [0 .. n -> Seq(Nat)]
    BY <2>3
  <2>5. Right(h, k + 1)
    BY <1>1, <2>1, <2>2, <2>4
  <2> QED BY <2>4, <2>5
<1>5. n \in S
  <2> HIDE DEF S, n
  <2> QED BY <1>1, <1>3, <1>4, Induction
<1>6. PICK g \in [0 .. n -> Seq(Nat)] : Right(g, n)
  BY <1>1, <1>5
<1>7. g = [i \in 0 .. n |-> IF i = 0 THEN <<>> ELSE More(g[i - 1], i)]
  BY <1>1, <1>6
<1> QED BY <1>7, Zenon DEF Texts, More

\* The file is the last of such texts.
LEMMA RomFileTexts ==
  ASSUME NEW words, NEW missing, Writable(words, missing)
  PROVE  \E g : Texts(g, words, missing) /\ RomFile(words, missing) = g[Len(words)]
<1>1. Texts(CHOOSE g : Texts(g, words, missing), words, missing)
  BY TextsExist, Zenon
<1>2. RomFile(words, missing) = (CHOOSE g : Texts(g, words, missing))[Len(words)]
  BY Zenon DEF RomFile, Texts, Width
<1> QED BY <1>1, <1>2, Zenon

\* The file has a line for each word, with the digits of the word.
LEMMA RomFileLines ==
  ASSUME NEW words, NEW missing, Writable(words, missing)
  PROVE  Lines(RomFile(words, missing), words, missing, Len(words))
<1> DEFINE n == Len(words)
           W(m) == Width(n, missing, m)
<1>1. n \in Nat
  BY LenProperties DEF Writable
<1>2. PICK g : Texts(g, words, missing) /\ RomFile(words, missing) = g[n]
  BY RomFileTexts
<1> DEFINE S == {k \in Nat : k <= n => Lines(g[k], words, missing, k)}
<1>3. 0 \in S
  <2>1. g[0] = <<>>
    BY <1>1, <1>2 DEF Texts
  <2>2. 0 * Line = 0
    BY DigitsOf DEF Line
  <2>3. g[0] \in Seq(Nat) /\ Len(g[0]) = 0
    BY <2>1, EmptySeq
  <2>4. 0 * Line - (IF 0 = Len(words) /\ 0 > 0 THEN missing ELSE 0) = 0
    BY <2>2
  <2>5. \A m \in 1 .. 0 : FALSE
    OBVIOUS
  <2>6. Lines(g[0], words, missing, 0)
    BY <2>3, <2>4, <2>5 DEF Lines
  <2> QED BY <2>6
<1>4. ASSUME NEW k \in Nat, k \in S PROVE k + 1 \in S
  <2> SUFFICES ASSUME k + 1 <= n PROVE Lines(g[k + 1], words, missing, k + 1)
    OBVIOUS
  <2> DEFINE t == g[k]
             d == W(k + 1)
             h == HexWord(words[k + 1], d)
             u == g[k + 1]
  <2>1. /\ t \in Seq(Nat) /\ Len(t) = k * Line
        /\ \A m \in 1 .. k :
             /\ \A j \in 1 .. W(m) : t[(m - 1) * Line + j] = HexDigit(words[m], W(m) - j)
             /\ t[(m - 1) * Line + W(m) + 1] = NL
    <3>1. Lines(t, words, missing, k)
      BY <1>1, <1>4
    <3>2. (IF k = n /\ k > 0 THEN missing ELSE 0) = 0
      BY <1>1
    <3>3. k * Line \in Int
      BY Starts
    <3>4. Len(t) = k * Line
      BY <3>1, <3>2, <3>3 DEF Lines
    <3> QED BY <3>1, <3>4, Zenon DEF Lines
  <2>2. u = t \o h \o <<NL>>
    <3>1. k + 1 \in 0 .. n /\ k + 1 # 0 /\ k + 1 - 1 = k
      BY <1>1
    <3> DEFINE i == k + 1
    <3>2. i \in 0 .. Len(words) /\ i # 0 /\ i - 1 = k
      BY <3>1
    <3> HIDE DEF i
    <3>3. g[i] = g[i - 1] \o HexWord(words[i], Width(Len(words), missing, i)) \o <<NL>>
      BY <1>2, <3>2, Zenon DEF Texts
    <3> QED BY Zenon, <3>2, <3>3 DEF i
  <2>3. k + 1 \in 1 .. n
    BY <1>1
  <2>4. d \in 1 .. Digits /\ h \in [1 .. d -> Nat] /\ Digits \in Nat
    BY <2>3, HexWordType, DigitsOf
  <2>5. h = [i \in 1 .. d |-> HexDigit(words[k + 1], d - i)]
    BY DEF HexWord
  <2> DEFINE p == k * Line
  <2>6. p \in Nat /\ (k + 1) * Line = p + Line /\ Line = Digits + 1 /\ k + 1 - 1 = k
    <3>1. k * Line \in Nat /\ (k + 1) * Line = k * Line + Line
      BY Starts
    <3> QED BY <3>1 DEF Line
  <2> HIDE DEF h, t, u, d
  <2>7. /\ u \in Seq(Nat) /\ Len(u) = p + d + 1
        /\ \A j \in 1 .. p : u[j] = t[j]
        /\ \A j \in 1 .. d : u[p + j] = h[j]
        /\ u[p + d + 1] = NL
    <3>1. d \in Nat
      BY <2>4
    <3>2. Len(t) = p
      BY <2>1
    <3> DEFINE v == t \o h \o <<NL>>
    <3>3. /\ v \in Seq(Nat) /\ Len(v) = Len(t) + d + 1
          /\ \A j \in 1 .. Len(t) : v[j] = t[j]
          /\ \A j \in 1 .. d : v[Len(t) + j] = h[j]
          /\ v[Len(t) + d + 1] = NL
      BY <2>1, <2>4, <3>1, LineAdded
    <3> QED BY <2>2, <3>2, <3>3, Zenon
  <2>8. Len(u) = (k + 1) * Line - IF k + 1 = n THEN missing ELSE 0
    <3>1. d = Digits - IF k + 1 = n THEN missing ELSE 0
      BY DEF d, Width
    <3>2. (IF k + 1 = n THEN missing ELSE 0) \in Int
      BY DEF Writable
    <3> DEFINE c == IF k + 1 = n THEN missing ELSE 0
    <3> HIDE DEF p, c
    <3>3. d = Digits - c /\ c \in Int
      BY <3>1, <3>2, Zenon DEF c
    <3>4. Len(u) = (p + Line) - c
      BY <2>4, <2>6, <2>7, <3>3
    <3> QED BY <2>6, <3>4, Zenon DEF c
  <2>9. ASSUME NEW m \in 1 .. k + 1
        PROVE  /\ \A j \in 1 .. W(m) : u[(m - 1) * Line + j] = HexDigit(words[m], W(m) - j)
               /\ u[(m - 1) * Line + W(m) + 1] = NL
    <3>1. CASE m = k + 1
      <4>1. W(m) = d /\ (m - 1) * Line = p
        BY <2>6, <3>1 DEF d
      <4>2. \A j \in 1 .. d : u[p + j] = HexDigit(words[m], d - j)
        BY <2>5, <2>7, <3>1
      <4> HIDE DEF p
      <4> QED BY <2>7, <4>1, <4>2
    <3>2. CASE m # k + 1
      <4>1. m \in 1 .. k /\ m \in 1 .. n /\ m - 1 \in Nat /\ m - 1 < k
        BY <1>1, <3>2
      <4> DEFINE q == (m - 1) * Line
                 e == W(m)
      <4>2. q \in Nat /\ q + Line <= p
        BY <4>1, Starts
      <4>3. e \in 1 .. Digits
        BY <4>1, HexWordType
      <4>4. /\ \A j \in 1 .. e : t[q + j] = HexDigit(words[m], e - j)
            /\ t[q + e + 1] = NL
        BY <2>1, <4>1
      <4> HIDE DEF q, e, p
      <4>5. q + e + 1 \in 1 .. p /\ \A j \in 1 .. e : q + j \in 1 .. p
        BY <2>4, <2>6, <4>2, <4>3
      <4>6. \A j \in 1 .. e : u[q + j] = HexDigit(words[m], e - j)
        BY <2>7, <4>4, <4>5
      <4>7. u[q + e + 1] = NL
        BY <2>7, <4>4, <4>5
      <4> QED BY <4>6, <4>7, Zenon DEF q, e
    <3> QED BY <3>1, <3>2
  <2>10. k + 1 > 0
    OBVIOUS
  <2>11. Len(u) = (k + 1) * Line - IF k + 1 = Len(words) /\ k + 1 > 0 THEN missing ELSE 0
    BY <2>8, <2>10, Zenon
  <2>12. Lines(u, words, missing, k + 1)
    BY <2>7, <2>9, <2>11, Zenon DEF Lines
  <2> QED BY <2>12 DEF u
<1>5. n \in S
  <2> HIDE DEF S, n
  <2> QED BY <1>1, <1>3, <1>4, Induction
<1> QED BY <1>1, <1>2, <1>5

-----------------------------------------------------------------------------
(* The parser.                                                             *)

\* What generate_rom.py writes of a binary.
Generated(i) == \E missing : Writable(i.words, missing) /\ i.file = RomFile(i.words, missing)

\* The first k words in the RAM, and nothing else.
Part(words, k) ==
  [l \in Location |-> IF l \div 4 < k THEN Bytes(words[l \div 4 + 1])[l % 4] ELSE 0]

\* Where the parser stands when it has stored r.a words: before a line, after
\* r.i + 1 of its digits, with their value, or at its end.
Place(words, missing, r) ==
  LET n    == Len(words)
      w(m) == Width(n, missing, m)
  IN \/ /\ r.at = "line" /\ r.a \in 0 .. n
        /\ r.pos = IF r.a = n THEN Len(file) + 1 ELSE r.a * Line + 1
     \/ /\ r.at = "digits" /\ r.a \in 0 .. n - 1
        /\ r.i \in 0 .. Digits - 2 /\ r.i < w(r.a + 1)
        /\ r.pos = r.a * Line + r.i + 2
        /\ r.d = words[r.a + 1] \div 16 ^ (w(r.a + 1) - r.i - 1)
     \/ /\ r.at = "rest" /\ r.a \in 1 .. n /\ w(r.a) = Digits
        /\ r.pos = (r.a - 1) * Line + Digits + 1

ReadingInv ==
  at = "load" =>
    /\ ram = Part(image.words, rom.a)
    /\ \E missing : /\ Writable(image.words, missing)
                    /\ Lines(file, image.words, missing, Len(image.words))
                    /\ Place(image.words, missing, rom)

\* A word stored is one more word in the RAM.
LEMMA PartNext ==
  ASSUME NEW words, NEW k \in Nat, ram = Part(words, k)
  PROVE  [l \in Location |-> IF l \div 4 = k THEN Bytes(words[k + 1])[l % 4] ELSE ram[l]]
           = Part(words, k + 1)
<1> DEFINE f == [l \in Location |-> IF l \div 4 = k THEN Bytes(words[k + 1])[l % 4] ELSE ram[l]]
           g == [l \in Location |->
                   IF l \div 4 < k + 1 THEN Bytes(words[l \div 4 + 1])[l % 4] ELSE 0]
<1>1. ASSUME NEW l \in Location PROVE f[l] = g[l]
  <2>1. l \in Nat /\ l \div 4 \in Nat
    BY RamSizeAssumption DEF Location
  <2>2. ram[l] = IF l \div 4 < k THEN Bytes(words[l \div 4 + 1])[l % 4] ELSE 0
    BY DEF Part
  <2> DEFINE q == l \div 4
  <2>3. q < k + 1 <=> (q < k \/ q = k)
    BY <2>1
  <2> HIDE DEF q
  <2>4. ram[l] = IF q < k THEN Bytes(words[q + 1])[l % 4] ELSE 0
    BY <2>2 DEF q
  <2>5. f[l] = IF q = k THEN Bytes(words[k + 1])[l % 4] ELSE ram[l]
    BY DEF q
  <2>6. g[l] = IF q < k + 1 THEN Bytes(words[q + 1])[l % 4] ELSE 0
    BY DEF q
  <2> HIDE DEF f, g
  <2>7. q \in Nat
    BY <2>1 DEF q
  <2>8. ~(k < k)
    OBVIOUS
  <2> QED BY <2>3, <2>4, <2>5, <2>6, <2>7, <2>8, Zenon
<1>2. f = g
  BY <1>1
<1> QED BY <1>2 DEF Part

\* The characters of a line, and what comes after it.
LEMMA LineChars ==
  ASSUME NEW words, NEW missing, Writable(words, missing),
         Lines(file, words, missing, Len(words)), NEW m \in 1 .. Len(words)
  PROVE  LET w == Width(Len(words), missing, m)
             s == (m - 1) * Line
         IN /\ s \in Nat /\ w \in 1 .. Digits
            /\ \A j \in 1 .. w : s + j <= Len(file) /\ file[s + j] = HexDigit(words[m], w - j)
            /\ s + w + 1 <= Len(file) /\ file[s + w + 1] = NL
            /\ m = Len(words) => s + w + 1 = Len(file)
            /\ m # Len(words) => s + w + 1 = m * Line
            /\ words[m] \in Nat /\ words[m] < 16 ^ w
<1> DEFINE n == Len(words)
           w == Width(n, missing, m)
           s == (m - 1) * Line
           e == n * Line
           c == IF m = n THEN missing ELSE 0
<1>1. n \in Nat /\ m \in 1 .. n /\ n > 0
  BY LenProperties DEF Writable
<1>2. /\ s \in Nat /\ e \in Nat /\ m * Line = s + Line /\ Line = Digits + 1 /\ Digits \in {2, 4, 8}
      /\ m < n => m * Line + Line <= e
  <2>1. m - 1 \in Nat /\ m \in Nat /\ n \in Nat /\ m - 1 + 1 = m
    BY <1>1
  <2>2. s \in Nat /\ m * Line = s + Line /\ e \in Nat /\ (m < n => m * Line + Line <= e)
    <3>1. s \in Nat /\ (m - 1 + 1) * Line = s + Line
      BY <2>1, Starts
    <3>2. e \in Nat /\ (m < n => m * Line + Line <= e)
      BY <2>1, Starts
    <3> QED BY <2>1, <3>1, <3>2
  <2> QED BY <2>2, DigitsOf DEF Line
<1>3. w \in 1 .. Digits /\ words[m] \in Nat /\ w = Digits - c /\ missing \in 0 .. Digits - 1
  BY HexWordType DEF Width, Writable
<1>4. Len(file) = e - missing
  BY <1>1 DEF Lines
<1>5. /\ \A j \in 1 .. w : file[s + j] = HexDigit(words[m], w - j)
      /\ file[s + w + 1] = NL
  BY <1>1, Zenon DEF Lines
<1>6. words[m] < 16 ^ w
  <2>1. CASE m = n /\ missing > 0
    BY <1>1, <1>3, <2>1 DEF Writable
  <2>2. CASE ~(m = n /\ missing > 0)
    <3>1. w = Digits
      BY <1>2, <1>3, <2>2
    <3>2. words[m] \in WordNum
      BY ElementOfSeq DEF Writable
    <3>3. words[m] < WORD
      BY <3>2, Widths, SMT DEF WordNum
    <3> HIDE DEF w
    <3> QED BY <3>1, <3>3, WordDigits16
  <2> QED BY <2>1, <2>2
<1> HIDE DEF w, s, e
<1>7. CASE m = n
  <2>1. c = missing
    BY <1>7
  <2>2. e = s + Line
    BY <1>2, <1>7 DEF e
  <2>3. s + w + 1 = Len(file)
    BY <1>2, <1>3, <1>4, <2>1, <2>2
  <2>4. \A j \in 1 .. w : s + j <= Len(file)
    BY <1>2, <1>3, <2>3
  <2> QED BY <1>2, <1>3, <1>5, <1>6, <1>7, <2>3, <2>4 DEF w, s
<1>8. CASE m # n
  <2>1. c = 0 /\ m < n
    BY <1>1, <1>8
  <2>2. w = Digits /\ s + w + 1 = m * Line
    BY <1>2, <1>3, <2>1
  <2>3. s + w + 1 <= Len(file) /\ \A j \in 1 .. w : s + j <= Len(file)
    <3> DEFINE p == m * Line
    <3>1. p + Line <= e /\ s + w + 1 = p /\ p \in Nat
      BY <1>2, <2>1, <2>2
    <3> HIDE DEF p
    <3> QED BY <1>2, <1>3, <1>4, <3>1
  <2> QED BY <1>2, <1>3, <1>5, <1>6, <1>8, <2>2, <2>3 DEF w, s
<1> QED BY <1>7, <1>8

\* The record of the parser.
Parser(r) == DOMAIN r = {"at", "pos", "a", "d", "i"}

\* Before a line: its first digit is read, or the file is at its end.
LEMMA LineRead ==
  ASSUME NEW words, NEW missing, Writable(words, missing),
         Lines(file, words, missing, Len(words)), Place(words, missing, rom),
         Parser(rom), rom.at = "line", LineStart
  PROVE  /\ ram' = ram
         /\ \/ rom'.at = "end" /\ rom.a = Len(words)
            \/ rom'.at = "digits" /\ rom'.a = rom.a /\ Place(words, missing, rom')
<1> DEFINE n == Len(words)
           a == rom.a
<1>1. n \in Nat /\ a \in 0 .. n /\ rom.pos = (IF a = n THEN Len(file) + 1 ELSE a * Line + 1)
  BY LenProperties DEF Writable, Place
<1>2. CASE a = n
  <2>1. Len(file) \in Nat
    BY LenProperties DEF Lines
  <2>2. rom.pos > Len(file)
    BY <1>1, <1>2, <2>1
  <2>3. Char = EOF
    BY <2>2 DEF Char
  <2>4. ReturnEarly
    BY <2>3 DEF LineStart, EOF, NL, CR, SPACE, Digit
  <2> QED BY <1>2, <2>4 DEF ReturnEarly, Parser
<1>3. CASE a # n
  <2> DEFINE m == a + 1
             w == Width(n, missing, m)
             s == a * Line
  <2>1. m \in 1 .. n /\ m - 1 = a /\ a \in Nat
    BY <1>1, <1>3
  <2>2. /\ s \in Nat /\ w \in 1 .. Digits
        /\ \A j \in 1 .. w : s + j <= Len(file) /\ file[s + j] = HexDigit(words[m], w - j)
        /\ words[m] \in Nat /\ words[m] < 16 ^ w
    <3> DEFINE z == (m - 1) * Line
    <3>1. z = s
      BY <2>1
    <3> HIDE DEF m, s
    <3>2. /\ z \in Nat /\ w \in 1 .. Digits
          /\ \A j \in 1 .. w : z + j <= Len(file) /\ file[z + j] = HexDigit(words[m], w - j)
          /\ words[m] \in Nat /\ words[m] < 16 ^ w
      BY <2>1, LineChars
    <3> HIDE DEF z, w
    <3> QED BY <3>1, <3>2
  <2>3. rom.pos = s + 1
    BY <1>1, <1>3
  <2> HIDE DEF w, s
  <2> DEFINE x == words[m]
  <2>4. s + 1 <= Len(file) /\ file[s + 1] = HexDigit(x, w - 1)
    <3>1. 1 \in 1 .. w
      BY <2>2, DigitsOf
    <3> QED BY <2>2, <3>1
  <2>5. w - 1 \in 0 .. 7 /\ w - 1 + 1 = w
    BY <2>2, DigitsOf
  <2>6. x \in Nat /\ x < 16 ^ w
    BY <2>2
  <2> HIDE DEF x
  <2>7. HexDigit(x, w - 1) \in Digit /\ HexDigit(x, w - 1) = x \div 16 ^ (w - 1)
    <3> DEFINE i == w - 1
    <3>1. i \in 0 .. 7 /\ i + 1 = w
      BY <2>5
    <3> HIDE DEF i
    <3>2. x < 16 ^ (i + 1)
      BY <2>6, <3>1
    <3>3. HexDigit(x, i) \in Digit /\ HexDigit(x, i) = x \div 16 ^ i
      BY <2>6, <3>1, <3>2, NextDigit
    <3> QED BY <3>3 DEF i
  <2>8. Char = HexDigit(x, w - 1)
    <3>1. ~(rom.pos > Len(file))
      <4>1. Len(file) \in Nat
        BY LenProperties DEF Lines
      <4> QED BY <2>2, <2>3, <2>4, <4>1
    <3>2. Char = file[rom.pos]
      BY <3>1, Zenon DEF Char
    <3> QED BY <2>3, <2>4, <3>2
  <2>9. Char \in 0 .. 15
    BY <2>7, <2>8, Zenon DEF Digit
  <2>10. /\ rom' = [rom EXCEPT !.at = "digits", !.pos = NextPos, !.i = 0,
                               !.d = IF Char = SPACE THEN 0 ELSE Char]
         /\ UNCHANGED ram
    <3>1. Char \notin {NL, CR} /\ Char \notin {EOF, TAB, JUNK}
      BY <2>9 DEF EOF, NL, CR, JUNK, TAB
    <3> QED BY Zenon, <3>1 DEF LineStart
  <2>11. ~(Char = SPACE)
    BY <2>9 DEF SPACE
  <2>12. /\ rom'.at = "digits" /\ rom'.pos = s + 2 /\ rom'.i = 0 /\ rom'.a = a
         /\ rom'.d = x \div 16 ^ (w - 1)
    <3>1. rom'.at = "digits" /\ rom'.pos = NextPos /\ rom'.i = 0 /\ rom'.a = a /\ rom'.d = Char
      BY <2>10, <2>11 DEF Parser
    <3>2. NextPos = s + 2
      BY <2>2, <2>3 DEF NextPos
    <3> QED BY <2>7, <2>8, <3>1, <3>2
  <2>13. Place(words, missing, rom')
    <3>1. a \in 0 .. n - 1 /\ 0 \in 0 .. Digits - 2 /\ 0 < w /\ w - 0 - 1 = w - 1 /\ s + 0 + 2 = s + 2
      BY <1>1, <1>3, <2>2, DigitsOf
    <3>2. rom'.d = x \div 16 ^ (w - 0 - 1) /\ rom'.pos = s + 0 + 2
      BY <2>12, <3>1
    <3>3. /\ rom'.at = "digits" /\ rom'.a \in 0 .. n - 1
          /\ rom'.i \in 0 .. Digits - 2 /\ rom'.i < Width(n, missing, rom'.a + 1)
          /\ rom'.pos = rom'.a * Line + rom'.i + 2
          /\ rom'.d = words[rom'.a + 1] \div 16 ^ (Width(n, missing, rom'.a + 1) - rom'.i - 1)
      BY <2>12, <3>1, <3>2, Zenon DEF w, s, x
    <3> QED BY <3>3, Zenon DEF Place
  <2> QED BY <2>10, <2>12, <2>13
<1> QED BY <1>2, <1>3

\* What follows the digits is skipped up to the end of the line.
LEMMA RestRead ==
  ASSUME NEW words, NEW missing, Writable(words, missing),
         Lines(file, words, missing, Len(words)), Place(words, missing, rom),
         Parser(rom), rom.at = "rest", RestOfLine
  PROVE  ram' = ram /\ rom'.at = "line" /\ rom'.a = rom.a /\ Place(words, missing, rom')
<1> DEFINE n == Len(words)
           m == rom.a
           s == (m - 1) * Line
           w == Width(n, missing, m)
<1>1. n \in Nat /\ m \in 1 .. n /\ w = Digits /\ rom.pos = s + Digits + 1
  BY LenProperties DEF Writable, Place
<1>2. /\ s \in Nat /\ w \in 1 .. Digits /\ s + w + 1 <= Len(file) /\ file[s + w + 1] = NL
      /\ m = n => s + w + 1 = Len(file)
      /\ m # n => s + w + 1 = m * Line
  BY <1>1, LineChars
<1> HIDE DEF w
<1>3. Len(file) \in Nat
  BY LenProperties DEF Lines
<1>4. Char = NL
  <2> HIDE DEF s
  <2>1. ~(rom.pos > Len(file)) /\ rom.pos = s + w + 1
    BY <1>1, <1>2, <1>3
  <2>2. Char = file[rom.pos]
    BY <2>1, Zenon DEF Char
  <2> QED BY <1>2, <2>1, <2>2
<1>5. ram' = ram /\ rom'.at = "line" /\ rom'.a = m /\ rom'.pos = rom.pos + 1
  BY <1>4 DEF RestOfLine, Parser, NextPos
<1>6. rom'.pos = IF m = n THEN Len(file) + 1 ELSE m * Line + 1
  <2> HIDE DEF s
  <2>1. rom.pos = s + w + 1
    BY <1>1
  <2> QED BY <1>2, <1>5, <2>1, Zenon
<1>7. m \in 0 .. n
  BY <1>1
<1> QED BY <1>5, <1>6, <1>7, Zenon DEF Place

\* Where the parser stands within a word.
LEMMA WithinWord ==
  ASSUME NEW words, NEW missing, Writable(words, missing),
         Lines(file, words, missing, Len(words)), Place(words, missing, rom),
         rom.at = "digits"
  PROVE  LET n == Len(words)
             w == Width(n, missing, rom.a + 1)
             s == rom.a * Line
             x == words[rom.a + 1]
         IN /\ n \in Nat /\ rom.a \in 0 .. n - 1 /\ s \in Nat /\ w \in 1 .. Digits
            /\ rom.i \in 0 .. Digits - 2 /\ rom.i < w
            /\ rom.pos = s + rom.i + 2
            /\ x \in Nat /\ x \in WordNum /\ rom.d = x \div 16 ^ (w - rom.i - 1)
            /\ rom.i + 1 < w => Char = HexDigit(x, w - (rom.i + 2))
            /\ rom.i + 1 = w => Char = NL
            /\ rom.a + 1 = n => s + w + 1 = Len(file)
            /\ rom.a + 1 # n => w = Digits
<1> DEFINE n == Len(words)
           m == rom.a + 1
           w == Width(n, missing, m)
           s == rom.a * Line
           z == (m - 1) * Line
           x == words[m]
           i == rom.i
<1>1. /\ n \in Nat /\ rom.a \in 0 .. n - 1 /\ i \in 0 .. Digits - 2 /\ i < w
      /\ rom.pos = s + i + 2 /\ rom.d = x \div 16 ^ (w - i - 1)
  BY LenProperties DEF Writable, Place
<1>2. m \in 1 .. n /\ m - 1 = rom.a
  BY <1>1
<1>3. z = s
  BY <1>2
<1> HIDE DEF m
<1>4. /\ z \in Nat /\ w \in 1 .. Digits
      /\ \A j \in 1 .. w : z + j <= Len(file) /\ file[z + j] = HexDigit(x, w - j)
      /\ z + w + 1 <= Len(file) /\ file[z + w + 1] = NL
      /\ m = n => z + w + 1 = Len(file)
      /\ x \in Nat
  BY <1>2, LineChars
<1>5. m # n => w = Digits
  BY DigitsOf DEF Width
<1>6. x \in WordNum
  BY <1>2, ElementOfSeq DEF Writable
<1>7. Len(file) \in Nat
  BY LenProperties DEF Lines
<1> HIDE DEF z, s, w, x
<1>10. /\ i \in Nat /\ w \in Nat /\ s \in Nat /\ Digits \in Nat /\ i < w
       /\ rom.pos = s + i + 2 /\ z = s
  <2>1. i \in Nat /\ w \in Nat /\ s \in Nat /\ Digits \in Nat
    BY <1>1, <1>3, <1>4, DigitsOf
  <2> QED BY <1>1, <1>3, <2>1, Zenon
<1>8. i + 1 < w => Char = HexDigit(x, w - (i + 2))
  <2> SUFFICES ASSUME i + 1 < w PROVE Char = HexDigit(x, w - (i + 2))
    OBVIOUS
  <2> DEFINE j == i + 2
  <2>1. j \in 1 .. w /\ rom.pos = z + j
    BY <1>10
  <2> HIDE DEF j
  <2>2. rom.pos <= Len(file) /\ file[rom.pos] = HexDigit(x, w - j)
    BY <1>4, <2>1
  <2>3. ~(rom.pos > Len(file))
    <3>1. rom.pos \in Int
      BY <1>4, <2>1, DigitsOf
    <3> QED BY <1>7, <2>2, <3>1
  <2> QED BY <2>2, <2>3, Zenon DEF Char, j
<1>9. i + 1 = w => Char = NL
  <2> SUFFICES ASSUME i + 1 = w PROVE Char = NL
    OBVIOUS
  <2>1. rom.pos = z + w + 1
    BY <1>10
  <2>2. ~(rom.pos > Len(file))
    BY <1>4, <1>7, <2>1, DigitsOf
  <2> QED BY <1>4, <2>1, <2>2, Zenon DEF Char
<1> QED BY <1>1, <1>2, <1>3, <1>4, <1>5, <1>6, <1>8, <1>9, Zenon DEF s, w, x, m

\* Within a word: a digit more, or the word is stored.
LEMMA DigitsRead ==
  ASSUME NEW words, NEW missing, Writable(words, missing),
         Lines(file, words, missing, Len(words)), Place(words, missing, rom),
         Parser(rom), rom.at = "digits", WordDigits
  PROVE  /\ rom'.at # "end" /\ Place(words, missing, rom')
         /\ \/ ram' = ram /\ rom'.a = rom.a
            \/ /\ rom'.a = rom.a + 1
               /\ ram' = [l \in Location |-> IF l \div 4 = rom.a
                                             THEN Bytes(words[rom.a + 1])[l % 4] ELSE ram[l]]
<1> DEFINE n == Len(words)
           a == rom.a
           w == Width(n, missing, a + 1)
           s == a * Line
           x == words[a + 1]
           i == rom.i
<1>1. /\ n \in Nat /\ a \in 0 .. n - 1 /\ s \in Nat /\ w \in 1 .. Digits
      /\ i \in 0 .. Digits - 2 /\ i < w
      /\ rom.pos = s + i + 2
      /\ x \in Nat /\ x \in WordNum /\ rom.d = x \div 16 ^ (w - i - 1)
      /\ i + 1 < w => Char = HexDigit(x, w - (i + 2))
      /\ i + 1 = w => Char = NL
      /\ a + 1 = n => s + w + 1 = Len(file)
      /\ a + 1 # n => w = Digits
  BY WithinWord
<1>2. Digits \in {2, 4, 8}
  BY DigitsOf
<1> HIDE DEF n, w, s, x
<1>9. /\ i \in Nat /\ w \in Nat /\ s \in Nat /\ Digits \in Nat /\ i < w /\ i <= Digits - 2
      /\ w <= Digits /\ Digits <= 8 /\ rom.pos = s + i + 2 /\ a \in Nat /\ n \in Nat
  BY <1>1, <1>2
<1>3. ASSUME NEW p, StoreWord(x, p)
      PROVE  /\ rom'.at = p /\ rom'.pos = s + i + 3 /\ rom'.a = a + 1
             /\ ram' = [l \in Location |-> IF l \div 4 = a THEN Bytes(x)[l % 4] ELSE ram[l]]
  <2>1. rom'.at = p /\ rom'.pos = NextPos /\ rom'.a = a + 1
    BY <1>3 DEF StoreWord, Parser
  <2>2. NextPos = s + i + 3
    BY <1>1, <1>2 DEF NextPos
  <2> QED BY <1>3, <2>1, <2>2, Zenon DEF StoreWord
<1>4. CASE i + 1 < w
  <2> DEFINE k == w - (i + 2)
             d == Wrap(16 * rom.d + Char)
  <2>1. k \in 0 .. 7 /\ w - i - 1 = k + 1
    <3> HIDE DEF i
    <3>1. i \in Nat /\ w \in Nat /\ w <= 8 /\ i + 1 < w
      BY <1>4, <1>9
    <3>2. w - (i + 2) \in 0 .. 7
      BY <3>1
    <3>3. w - i - 1 = w - (i + 2) + 1
      BY <3>1
    <3> QED BY <3>2, <3>3, Zenon
  <2>2. d = x \div 16 ^ k /\ Char \in Digit
    <3> HIDE DEF k
    <3>1. rom.d = x \div 16 ^ (k + 1)
      BY <1>1, <2>1, Zenon
    <3>2. Char = HexDigit(x, k)
      BY <1>1, <1>4 DEF k
    <3>3. /\ HexDigit(x, k) \in Digit
          /\ 16 * (x \div 16 ^ (k + 1)) + HexDigit(x, k) = x \div 16 ^ k
          /\ x \div 16 ^ k \in 0 .. x
      BY <1>1, <2>1, NextDigit
    <3>4. d = Wrap(x \div 16 ^ k)
      BY <3>1, <3>2, <3>3, Zenon
    <3> DEFINE q == x \div 16 ^ k
    <3>5. q \in 0 .. x
      BY <3>3
    <3> HIDE DEF q
    <3>6. Wrap(q) = q
      <4>1. q \in Nat /\ q < WORD /\ WORD \in Nat
        BY <1>1, <3>5, Widths, SMT DEF WordNum
      <4> QED BY <4>1 DEF Wrap
    <3> QED BY <3>2, <3>3, <3>4, <3>6, Zenon DEF q
  <2>3. Char \in 0 .. 15
    BY <2>2 DEF Digit
  <2>4. Char \notin {NL, SPACE, TAB} /\ Char \notin {CR, JUNK, EOF}
    BY <2>3 DEF NL, SPACE, TAB, CR, JUNK, EOF
  <2> HIDE DEF d, k
  <2>5. IF i = Digits - 2 THEN StoreWord(d, "rest")
        ELSE rom' = [rom EXCEPT !.pos = NextPos, !.i = @ + 1, !.d = d] /\ UNCHANGED ram
    BY <2>4, Zenon DEF WordDigits, d
  <2>6. CASE i = Digits - 2
    <3>1. w = Digits /\ k = 0
      BY <1>1, <1>2, <1>4, <2>6 DEF k
    <3>2. d = x
      BY <1>1, <2>2, <3>1, LastDigit
    <3>3. /\ rom'.at = "rest" /\ rom'.pos = s + i + 3 /\ rom'.a = a + 1
          /\ ram' = [l \in Location |-> IF l \div 4 = a THEN Bytes(x)[l % 4] ELSE ram[l]]
      BY <1>3, <2>5, <2>6, <3>2
    <3>4. a + 1 \in 1 .. n /\ a + 1 - 1 = a /\ s + i + 3 = s + Digits + 1
      BY <1>1, <1>2, <2>6
    <3>5. /\ rom'.at = "rest" /\ rom'.a \in 1 .. n /\ Width(n, missing, rom'.a) = Digits
          /\ rom'.pos = (rom'.a - 1) * Line + Digits + 1
      <4>1. rom'.a - 1 = a
        <5> DEFINE b == rom'.a
        <5>1. a \in Nat /\ b = a + 1
          BY <1>9, <3>3, Zenon
        <5> HIDE DEF a, b
        <5>2. b - 1 = a
          BY <5>1
        <5> QED BY <5>2 DEF a, b
      <4> QED BY <3>1, <3>3, <3>4, <4>1, Zenon DEF w, s
    <3>6. Place(words, missing, rom')
      BY <3>5, Zenon DEF Place, n
    <3> QED BY <3>3, <3>6 DEF x
  <2>7. CASE i # Digits - 2
    <3>1. rom' = [rom EXCEPT !.pos = NextPos, !.i = @ + 1, !.d = d] /\ ram' = ram
      BY <2>5, <2>7
    <3>2. rom'.at = "digits" /\ rom'.a = a /\ rom'.i = i + 1 /\ rom'.d = d /\ rom'.pos = NextPos
      BY <3>1 DEF Parser
    <3>3. NextPos = s + (i + 1) + 2 /\ i + 1 \in 0 .. Digits - 2 /\ i + 1 < w
          /\ k = w - (i + 1) - 1
      <4>1. NextPos = s + i + 2 + 1
        BY <1>9 DEF NextPos
      <4> HIDE DEF i
      <4>2. i \in Nat /\ w \in Nat /\ s \in Nat /\ Digits \in Nat /\ i + 1 < w
            /\ i <= Digits - 2 /\ i # Digits - 2
        BY <1>4, <1>9, <2>7
      <4>3. s + i + 2 + 1 = s + (i + 1) + 2 /\ i + 1 \in 0 .. Digits - 2
        BY <4>2
      <4>4. w - (i + 2) = w - (i + 1) - 1
        BY <4>2
      <4> QED BY <4>1, <4>2, <4>3, <4>4, Zenon DEF k
    <3>4. /\ rom'.at = "digits" /\ rom'.a \in 0 .. n - 1
          /\ rom'.i \in 0 .. Digits - 2 /\ rom'.i < Width(n, missing, rom'.a + 1)
          /\ rom'.pos = rom'.a * Line + rom'.i + 2
          /\ rom'.d = words[rom'.a + 1] \div 16 ^ (Width(n, missing, rom'.a + 1) - rom'.i - 1)
      BY <1>1, <2>2, <3>2, <3>3, Zenon DEF w, s, x
    <3>5. Place(words, missing, rom')
      BY <3>4, Zenon DEF Place, n
    <3> QED BY <3>1, <3>2, <3>5
  <2> QED BY <2>6, <2>7
<1>5. CASE ~(i + 1 < w)
  <2>1. i + 1 = w /\ w # Digits /\ w - i - 1 = 0
    BY <1>5, <1>9
  <2>2. Char = NL /\ a + 1 = n /\ rom.d = x
    <3>1. x \div 16 ^ 0 = x
      BY <1>1, LastDigit
    <3> QED BY <1>1, <2>1, <3>1
  <2>3. missing > 0
    <3>1. Width(n, missing, n) # Digits
      BY <2>1, <2>2 DEF w
    <3> QED BY <1>2, <3>1 DEF Width, Writable
  <2>4. 4 * n <= RamSize
    <3>1. n > 0
      BY <1>9, <2>2
    <3>2. missing > 0 /\ n > 0 => 4 * n <= RamSize
      BY Zenon DEF Writable, n
    <3> QED BY <2>3, <3>1, <3>2, Zenon
  <2>5. ~(a * 4 + 3 >= RamSize)
    <3>1. RamSize \in Nat
      BY RamSizeAssumption
    <3> QED BY <1>9, <2>2, <2>4, <3>1
  <2>6. Char \notin Digit /\ Char \in {NL, SPACE, TAB} /\ Char \notin {CR, JUNK, EOF}
    BY <2>2 DEF Digit, NL, SPACE, TAB, CR, JUNK, EOF
  <2>7. StoreWord(x, "line")
    BY <2>2, <2>5, <2>6, Zenon DEF WordDigits
  <2>8. /\ rom'.at = "line" /\ rom'.pos = s + i + 3 /\ rom'.a = a + 1
        /\ ram' = [l \in Location |-> IF l \div 4 = a THEN Bytes(x)[l % 4] ELSE ram[l]]
    BY <1>3, <2>7
  <2>9. rom'.pos = Len(file) + 1 /\ rom'.a = n /\ n \in 0 .. n
    <3>1. s + w + 1 = Len(file)
      BY <1>1, <2>2, Zenon
    <3>2. s + i + 3 = s + w + 1 + 1
      BY <1>9, <2>1
    <3>3. n \in 0 .. n
      BY <1>9
    <3> QED BY <2>2, <2>8, <3>1, <3>2, <3>3, Zenon
  <2>10. Place(words, missing, rom')
    BY <2>8, <2>9, Zenon DEF Place, n
  <2> QED BY <2>8, <2>10 DEF x
<1> QED BY <1>4, <1>5

\* A step of the parser.
LEMMA ReadStep ==
  ASSUME NEW words, NEW missing, Writable(words, missing),
         Lines(file, words, missing, Len(words)), Place(words, missing, rom),
         Parser(rom), ram = Part(words, rom.a), ReadRom
  PROVE  \/ rom'.at = "end" /\ ram' = Part(words, Len(words))
         \/ rom'.at # "end" /\ ram' = Part(words, rom'.a) /\ Place(words, missing, rom')
<1>1. CASE LineStart
  <2>1. rom.at = "line"
    BY <1>1 DEF LineStart
  <2>2. CASE rom'.at = "end"
    <3>1. ram' = ram /\ rom.a = Len(words)
      BY <1>1, <2>1, <2>2, LineRead
    <3> QED BY <2>2, <3>1
  <2>3. CASE rom'.at # "end"
    <3>1. ram' = ram /\ rom'.a = rom.a /\ Place(words, missing, rom')
      BY <1>1, <2>1, <2>3, LineRead
    <3> QED BY <2>3, <3>1
  <2> QED BY <2>2, <2>3
<1>2. CASE WordDigits
  <2>1. rom.at = "digits" /\ rom.a \in Nat
    <3>1. rom.at = "digits"
      BY <1>2 DEF WordDigits
    <3>2. rom.a \in 0 .. Len(words) - 1 /\ Len(words) \in Nat
      BY <3>1, WithinWord
    <3> QED BY <3>1, <3>2
  <2>2. /\ rom'.at # "end" /\ Place(words, missing, rom')
        /\ \/ ram' = ram /\ rom'.a = rom.a
           \/ /\ rom'.a = rom.a + 1
              /\ ram' = [l \in Location |-> IF l \div 4 = rom.a
                                            THEN Bytes(words[rom.a + 1])[l % 4] ELSE ram[l]]
    BY <1>2, <2>1, DigitsRead
  <2>3. ram' = Part(words, rom'.a)
    <3> DEFINE k == rom.a
    <3>1. k \in Nat /\ ram = Part(words, k)
      BY <2>1
    <3>2. [l \in Location |-> IF l \div 4 = k THEN Bytes(words[k + 1])[l % 4] ELSE ram[l]]
            = Part(words, k + 1)
      <4> HIDE DEF k
      <4> QED BY <3>1, PartNext
    <3> QED BY <2>2, <3>1, <3>2, Zenon
  <2> QED BY <2>2, <2>3
<1>3. CASE RestOfLine
  <2>1. rom.at = "rest"
    BY <1>3 DEF RestOfLine
  <2>2. ram' = ram /\ rom'.at = "line" /\ rom'.a = rom.a /\ Place(words, missing, rom')
    BY <1>3, <2>1, RestRead
  <2> QED BY <2>2
<1> QED BY <1>1, <1>2, <1>3 DEF ReadRom

\* Before the first line nothing is loaded.
LEMMA ReadingInit ==
  ASSUME Init, \A i \in Images : Generated(i)
  PROVE  ReadingInv
<1>1. Generated(image) /\ file = image.file /\ ram = [l \in Location |-> 0]
      /\ rom = [at |-> "line", pos |-> 1, a |-> 0, d |-> 0, i |-> 0]
  BY DEF Init, MemoryInit, RomInit
<1> DEFINE words == image.words
           n == Len(words)
<1>2. PICK missing : Writable(words, missing) /\ file = RomFile(words, missing)
  BY <1>1 DEF Generated
<1>3. Lines(file, words, missing, n)
  BY <1>2, RomFileLines
<1>4. n \in Nat
  BY <1>2, LenProperties DEF Writable
<1>5. Place(words, missing, rom)
  <2>1. rom.at = "line" /\ rom.a = 0 /\ rom.pos = 1
    BY <1>1
  <2>2. 1 = IF 0 = n THEN Len(file) + 1 ELSE 0 * Line + 1
    <3>1. CASE n = 0
      <4>1. Len(file) = 0 * Line - (IF 0 = n /\ 0 > 0 THEN missing ELSE 0)
        BY <1>3, <3>1 DEF Lines
      <4>2. 0 * Line = 0
        BY DigitsOf DEF Line
      <4>3. Len(file) = 0
        BY <4>1, <4>2
      <4> QED BY <3>1, <4>3
    <3>2. CASE n # 0
      <4>1. 0 * Line = 0
        BY DigitsOf DEF Line
      <4> QED BY <3>2, <4>1
    <3> QED BY <3>1, <3>2
  <2>3. 0 \in 0 .. n
    BY <1>4
  <2> QED BY <2>1, <2>2, <2>3, Zenon DEF Place
<1>6. ram = Part(words, rom.a)
  <2>1. \A l \in Location : ~(l \div 4 < 0)
    BY RamSizeAssumption DEF Location
  <2>2. rom.a = 0
    BY <1>1
  <2> QED BY <1>1, <2>1, <2>2 DEF Part
<1> QED BY <1>2, <1>3, <1>5, <1>6, Zenon DEF ReadingInv

\* The whole program is in the RAM.
LEMMA WholeProgram ==
  ASSUME NEW words, words \in Seq(WordNum)
  PROVE  Part(words, Len(words)) = Machine!Program(words)
<1> DEFINE g == [l \in Location |->
                   IF l \div 4 < Len(words) THEN Bytes(words[l \div 4 + 1])[l % 4] ELSE 0]
           h == [l \in Machine!Loc |->
                   IF l \div 4 < Len(words) THEN Machine!Bytes(words[l \div 4 + 1])[l % 4] ELSE 0]
<1>1. Machine!Loc = Location /\ \A l \in Location : Machine!Bytes(words[l \div 4 + 1]) = Bytes(words[l \div 4 + 1])
  BY SameWords, SameOperators
<1>2. g = h
  BY <1>1
<1> QED BY <1>2, Zenon DEF Part, Machine!Program

\* The parser goes on, and when it is done main resets with the program in the RAM.
LEMMA LoaderStep ==
  ASSUME IInv, ReadingInv, ProgramLoaded, [Next]_vars
  PROVE  ReadingInv' /\ ProgramLoaded'
<1>1. CASE Load
  <2> DEFINE words == image.words
  <2>1. /\ at = "load" /\ ReadRom /\ image' = image /\ file' = file
        /\ at' = IF rom'.at = "end" THEN "reset" ELSE at
    BY <1>1 DEF Load
  <2>2. PICK missing : /\ Writable(words, missing) /\ Lines(file, words, missing, Len(words))
                       /\ Place(words, missing, rom)
    BY <2>1 DEF ReadingInv
  <2>3. Parser(rom) /\ ram = Part(words, rom.a)
    BY <2>1 DEF ReadingInv, IInv, TypeInv, RomTypes, Parser
  <2>4. \/ rom'.at = "end" /\ ram' = Part(words, Len(words))
        \/ rom'.at # "end" /\ ram' = Part(words, rom'.a) /\ Place(words, missing, rom')
    <3> HIDE DEF words
    <3> QED BY <2>1, <2>2, <2>3, ReadStep
  <2>5. CASE rom'.at = "end"
    <3>1. at' = "reset" /\ ram' = Part(words, Len(words))
      BY <2>1, <2>4, <2>5
    <3>2. ram' = Machine!Program(words)
      BY <2>2, <3>1, WholeProgram DEF Writable
    <3>3. image'.words = words
      BY <2>1
    <3>4. Machine!Program(image'.words) = Machine!Program(words)
      BY <3>3
    <3> QED BY <3>1, <3>2, <3>4 DEF ReadingInv, ProgramLoaded
  <2>6. CASE rom'.at # "end"
    <3>1. at' = "load" /\ ram' = Part(words, rom'.a) /\ Place(words, missing, rom')
      BY <2>1, <2>4, <2>6
    <3>2. Place(words, missing, rom)' /\ Part(words, rom.a)' = Part(words, rom'.a)
      BY <2>1, <3>1 DEF Place, Part
    <3>3. Lines(file, words, missing, Len(words))' /\ Writable(words, missing)'
      BY <2>1, <2>2
    <3> QED BY <3>1, <3>2, <3>3 DEF ReadingInv, ProgramLoaded
  <2> QED BY <2>5, <2>6
<1>2. CASE RiscvReset \/ RunCycle \/ MemoryTurn \/ DivideTrap \/ Finish
  BY <1>2 DEF RiscvReset, RunCycle, MemoryTurn, DivideTrap, Finish, ReadingInv, ProgramLoaded
<1>3. CASE RiscvRun
  <2>1. at' \in {"memory", "main"}
    BY <1>3 DEF RiscvRun, Misaligned, AwaitFetch, TakeFetch, Retry, NextTurn
  <2> QED BY <2>1 DEF ReadingInv, ProgramLoaded
<1>4. CASE UNCHANGED vars
  <2>1. UNCHANGED <<at, image, ram, file, rom>>
    BY <1>4 DEF vars, memVars, romVars
  <2>2. ReadingInv'
    BY <2>1 DEF ReadingInv, Place, Part, Lines, Writable
  <2> QED BY <2>1, <2>2 DEF ProgramLoaded
<1> QED BY <1>1, <1>2, <1>3, <1>4 DEF Next

\* The parser of ram.c leaves in the RAM the program that generate_rom.py wrote.
THEOREM LoaderRight == (\A i \in Images : Generated(i)) => (Spec => []ProgramLoaded)
<1> SUFFICES ASSUME \A i \in Images : Generated(i) PROVE Spec => []ProgramLoaded
  OBVIOUS
<1>1. Init => ReadingInv /\ ProgramLoaded
  BY ReadingInit DEF Init, ProgramLoaded
<1>2. IInv /\ ReadingInv /\ ProgramLoaded /\ [Next]_vars => (ReadingInv /\ ProgramLoaded)'
  BY LoaderStep
<1> QED BY <1>1, <1>2, IInvHolds, PTL DEF Spec

\* From the text of the program to its execution.
THEOREM GeneratedRefinement == (\A i \in Images : Generated(i)) => (Spec => ImplementsIsa)
<1> SUFFICES ASSUME \A i \in Images : Generated(i) PROVE Spec => ImplementsIsa
  OBVIOUS
<1>1. Spec => []ProgramLoaded
  BY LoaderRight
<1> QED BY <1>1, Refinement, PTL
=============================================================================
