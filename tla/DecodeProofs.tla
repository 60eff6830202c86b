---------------------------- MODULE DecodeProofs ----------------------------
(***************************************************************************)
(* The emulator recognises and takes apart every instruction of the        *)
(* manual, and the core takes every word apart as the emulator does.       *)
(***************************************************************************)
EXTENDS EmuDecode, SequenceTheorems, WellFoundedInduction, TLAPS

Word32 == [BitPos -> {0, 1}]

\* The places of a word below the sign.
LEMMA Places ==
  ASSUME NEW b \in 0 .. 30
  PROVE
    \/ b = 0 \/ b = 1 \/ b = 2 \/ b = 3 \/ b = 4 \/ b = 5 \/ b = 6 \/ b = 7 \/ b = 8 \/ b = 9
    \/ b = 10 \/ b = 11 \/ b = 12 \/ b = 13 \/ b = 14 \/ b = 15 \/ b = 16 \/ b = 17 \/ b = 18 \/ b = 19
    \/ b = 20 \/ b = 21 \/ b = 22 \/ b = 23 \/ b = 24 \/ b = 25 \/ b = 26 \/ b = 27 \/ b = 28 \/ b = 29
    \/ b = 30
  BY SMT

\* A power of two is positive.
LEMMA Positive == \A b \in 0 .. 30 : 2 ^ b \in Nat /\ 2 ^ b > 0
<1> DEFINE P(p) == p \in Nat /\ p > 0
<1>1. /\ P(2 ^ 0) /\ P(2 ^ 1) /\ P(2 ^ 2) /\ P(2 ^ 3) /\ P(2 ^ 4) /\ P(2 ^ 5) /\ P(2 ^ 6)
      /\ P(2 ^ 7) /\ P(2 ^ 8) /\ P(2 ^ 9) /\ P(2 ^ 10) /\ P(2 ^ 11) /\ P(2 ^ 12) /\ P(2 ^ 13)
      /\ P(2 ^ 14) /\ P(2 ^ 15) /\ P(2 ^ 16) /\ P(2 ^ 17) /\ P(2 ^ 18) /\ P(2 ^ 19) /\ P(2 ^ 20)
      /\ P(2 ^ 21) /\ P(2 ^ 22) /\ P(2 ^ 23) /\ P(2 ^ 24) /\ P(2 ^ 25) /\ P(2 ^ 26) /\ P(2 ^ 27)
      /\ P(2 ^ 28) /\ P(2 ^ 29) /\ P(2 ^ 30)
  BY SMT
<1> HIDE DEF P
<1>2. \A b \in 0 .. 30 : P(2 ^ b)
  BY <1>1, Places, Zenon
<1> QED BY <1>2 DEF P

\* The later ones are no smaller.
LEMMA Larger ==
  /\ \A b \in 5 .. 30 : 2 ^ b >= 2 ^ 5
  /\ \A b \in 11 .. 30 : 2 ^ b >= 2 ^ 11
  /\ \A b \in 12 .. 30 : 2 ^ b >= 2 ^ 12
  /\ \A b \in 20 .. 30 : 2 ^ b >= 2 ^ 20
<1>1. \A b \in 5 .. 30 : 2 ^ b >= 2 ^ 5
  <2> DEFINE P(p) == p >= 2 ^ 5
  <2>1. /\ P(2 ^ 5) /\ P(2 ^ 6) /\ P(2 ^ 7) /\ P(2 ^ 8) /\ P(2 ^ 9) /\ P(2 ^ 10) /\ P(2 ^ 11)
        /\ P(2 ^ 12) /\ P(2 ^ 13) /\ P(2 ^ 14) /\ P(2 ^ 15) /\ P(2 ^ 16) /\ P(2 ^ 17)
        /\ P(2 ^ 18) /\ P(2 ^ 19) /\ P(2 ^ 20) /\ P(2 ^ 21) /\ P(2 ^ 22) /\ P(2 ^ 23)
        /\ P(2 ^ 24) /\ P(2 ^ 25) /\ P(2 ^ 26) /\ P(2 ^ 27) /\ P(2 ^ 28) /\ P(2 ^ 29)
        /\ P(2 ^ 30)
    BY SMT
  <2>2. ASSUME NEW b \in 5 .. 30
        PROVE
          \/ b = 5 \/ b = 6 \/ b = 7 \/ b = 8 \/ b = 9 \/ b = 10 \/ b = 11 \/ b = 12 \/ b = 13 \/ b = 14
          \/ b = 15 \/ b = 16 \/ b = 17 \/ b = 18 \/ b = 19 \/ b = 20 \/ b = 21 \/ b = 22 \/ b = 23 \/ b = 24
          \/ b = 25 \/ b = 26 \/ b = 27 \/ b = 28 \/ b = 29 \/ b = 30
    BY SMT
  <2> HIDE DEF P
  <2>3. \A b \in 5 .. 30 : P(2 ^ b)
    BY <2>1, <2>2, Zenon
  <2> QED BY <2>3 DEF P
<1>2. \A b \in 11 .. 30 : 2 ^ b >= 2 ^ 11
  <2> DEFINE P(p) == p >= 2 ^ 11
  <2>1. /\ P(2 ^ 11) /\ P(2 ^ 12) /\ P(2 ^ 13) /\ P(2 ^ 14) /\ P(2 ^ 15) /\ P(2 ^ 16)
        /\ P(2 ^ 17) /\ P(2 ^ 18) /\ P(2 ^ 19) /\ P(2 ^ 20) /\ P(2 ^ 21) /\ P(2 ^ 22)
        /\ P(2 ^ 23) /\ P(2 ^ 24) /\ P(2 ^ 25) /\ P(2 ^ 26) /\ P(2 ^ 27) /\ P(2 ^ 28)
        /\ P(2 ^ 29) /\ P(2 ^ 30)
    BY SMT
  <2>2. ASSUME NEW b \in 11 .. 30
        PROVE
          \/ b = 11 \/ b = 12 \/ b = 13 \/ b = 14 \/ b = 15 \/ b = 16 \/ b = 17 \/ b = 18 \/ b = 19 \/ b = 20
          \/ b = 21 \/ b = 22 \/ b = 23 \/ b = 24 \/ b = 25 \/ b = 26 \/ b = 27 \/ b = 28 \/ b = 29 \/ b = 30
    BY SMT
  <2> HIDE DEF P
  <2>3. \A b \in 11 .. 30 : P(2 ^ b)
    BY <2>1, <2>2, Zenon
  <2> QED BY <2>3 DEF P
<1>3. \A b \in 12 .. 30 : 2 ^ b >= 2 ^ 12
  <2> DEFINE P(p) == p >= 2 ^ 12
  <2>1. /\ P(2 ^ 12) /\ P(2 ^ 13) /\ P(2 ^ 14) /\ P(2 ^ 15) /\ P(2 ^ 16) /\ P(2 ^ 17)
        /\ P(2 ^ 18) /\ P(2 ^ 19) /\ P(2 ^ 20) /\ P(2 ^ 21) /\ P(2 ^ 22) /\ P(2 ^ 23)
        /\ P(2 ^ 24) /\ P(2 ^ 25) /\ P(2 ^ 26) /\ P(2 ^ 27) /\ P(2 ^ 28) /\ P(2 ^ 29)
        /\ P(2 ^ 30)
    BY SMT
  <2>2. ASSUME NEW b \in 12 .. 30
        PROVE
          \/ b = 12 \/ b = 13 \/ b = 14 \/ b = 15 \/ b = 16 \/ b = 17 \/ b = 18 \/ b = 19 \/ b = 20 \/ b = 21
          \/ b = 22 \/ b = 23 \/ b = 24 \/ b = 25 \/ b = 26 \/ b = 27 \/ b = 28 \/ b = 29 \/ b = 30
    BY SMT
  <2> HIDE DEF P
  <2>3. \A b \in 12 .. 30 : P(2 ^ b)
    BY <2>1, <2>2, Zenon
  <2> QED BY <2>3 DEF P
<1>4. \A b \in 20 .. 30 : 2 ^ b >= 2 ^ 20
  <2> DEFINE P(p) == p >= 2 ^ 20
  <2>1. /\ P(2 ^ 20) /\ P(2 ^ 21) /\ P(2 ^ 22) /\ P(2 ^ 23) /\ P(2 ^ 24) /\ P(2 ^ 25)
        /\ P(2 ^ 26) /\ P(2 ^ 27) /\ P(2 ^ 28) /\ P(2 ^ 29) /\ P(2 ^ 30)
    BY SMT
  <2>2. ASSUME NEW b \in 20 .. 30
        PROVE
          \/ b = 20 \/ b = 21 \/ b = 22 \/ b = 23 \/ b = 24 \/ b = 25 \/ b = 26 \/ b = 27 \/ b = 28 \/ b = 29
          \/ b = 30
    BY SMT
  <2> HIDE DEF P
  <2>3. \A b \in 20 .. 30 : P(2 ^ b)
    BY <2>1, <2>2, Zenon
  <2> QED BY <2>3 DEF P
<1> QED BY <1>1, <1>2, <1>3, <1>4

\* An integer is written with 32 bits.
LEMMA BitsType == ASSUME NEW n \in Int PROVE BitsOf(n) \in Word32
<1> SUFFICES ASSUME NEW b \in BitPos
             PROVE  (IF b = 31 THEN (IF n < 0 THEN 1 ELSE 0) ELSE (n \div (2 ^ b)) % 2) \in {0, 1}
  BY DEF BitsOf, Word32
<1>1. CASE b = 31
  BY <1>1
<1>2. CASE b # 31
  <2> DEFINE p == 2 ^ b
  <2>0. b \in 0 .. 30
    BY <1>2 DEF BitPos
  <2>1. p \in Nat /\ p > 0
    BY <2>0, Positive, Zenon
  <2> HIDE DEF p
  <2>2. n \div p \in Int
    BY <2>1
  <2>3. (n \div p) % 2 \in {0, 1}
    BY <2>2
  <2> QED BY <1>2, <2>3 DEF p
<1> QED BY <1>1, <1>2

\* What halving is.
LEMMA Halved == ASSUME NEW n \in Int PROVE n \div 2 \in Int /\ n % 2 \in 0 .. 1 /\ n = 2 * (n \div 2) + (n % 2)
  OBVIOUS

\* The number whose bits are all ones.
LEMMA Odd == ASSUME NEW n \in Int, n = -1 PROVE n % 2 = 1
<1> DEFINE q == n \div 2
           r == n % 2
<1>1. q \in Int /\ r \in 0 .. 1 /\ n = 2 * q + r
  BY Halved, Zenon
<1> HIDE DEF q, r
<1>2. r = 0 \/ r = 1
  BY <1>1
<1>3. r # 0
  BY <1>1
<1> QED BY <1>2, <1>3 DEF r

\* Above its highest digit a number has only copies of its sign.
LEMMA SignBits ==
  ASSUME NEW n \in Int, NEW k \in Nat, NEW m \in Nat, n \in -m .. m - 1,
         \A b \in k .. 30 : 2 ^ b >= m, NEW b \in BitPos, b >= k
  PROVE  BitsOf(n)[b] = IF n < 0 THEN 1 ELSE 0
<1>1. CASE b = 31
  BY <1>1 DEF BitsOf
<1>2. CASE b # 31
  <2> DEFINE p == 2 ^ b
  <2>4. b \in 0 .. 30 /\ b \in k .. 30
    BY <1>2 DEF BitPos
  <2>1. p \in Nat /\ p > 0 /\ p >= m
    BY <2>4, Positive, Zenon
  <2>0. BitsOf(n)[b] = (n \div p) % 2
    BY <1>2 DEF BitsOf
  <2> HIDE DEF p
  <2>2. CASE n >= 0
    <3>1. n \in Nat /\ n < p
      BY <2>1, <2>2
    <3>2. n \div p = 0
      BY <2>1, <3>1
    <3> QED BY <2>0, <2>2, <3>2
  <2>3. CASE n < 0
    <3>1. n < 0 /\ -p <= n
      BY <2>1, <2>3
    <3>2. n \div p = -1
      BY <2>1, <3>1
    <3>3. (n \div p) % 2 = 1
      BY <3>2, Odd
    <3> QED BY <2>0, <2>3, <3>3
  <2> QED BY <2>2, <2>3
<1> QED BY <1>1, <1>2
-----------------------------------------------------------------------------
(* The encoding.                                                           *)

Encodable ==
  {ins \in [major : DOMAIN Majors, f3 : 0 .. 7, f7 : 0 .. 127,
            rd : 0 .. 31, rs1 : 0 .. 31, rs2 : 0 .. 31, imm : Int] :
     Fits(ins.imm, Majors[ins.major].format)}

\* The immediate's part of the word is made of its bits.
LEMMA ImmBitType ==
  ASSUME NEW imm \in Word32, NEW b \in BitPos,
         NEW format \in {"R", "I", "S", "B", "U", "J"},
         format \in {"U", "J"} => b >= 12,
         format = "I" => b >= 20,
         format \in {"S", "B"} => b \in 7 .. 11 \/ b >= 25,
         format # "R"
  PROVE  ImmBit(format, imm, b) \in {0, 1}
<1>1. \A k \in 0 .. 31 : imm[k] \in {0, 1}
  BY DEF Word32, BitPos
<1>2. CASE format = "I"
  BY <1>1, <1>2 DEF ImmBit, BitPos
<1>3. CASE format = "S"
  BY <1>1, <1>3 DEF ImmBit, BitPos
<1>4. CASE format = "B"
  BY <1>1, <1>4 DEF ImmBit, BitPos
<1>5. CASE format = "U"
  BY <1>1, <1>5 DEF ImmBit, BitPos
<1>6. CASE format = "J"
  BY <1>1, <1>6 DEF ImmBit, BitPos
<1> QED BY <1>2, <1>3, <1>4, <1>5, <1>6

\* Each major opcode has its format and a number of seven bits.
LEMMA MajorTypes ==
  ASSUME NEW major \in DOMAIN Majors
  PROVE  /\ Majors[major].format \in {"R", "I", "S", "B", "U", "J"}
         /\ Majors[major].opcode \in 0 .. 127
  BY DEF Majors

\* An instruction is written in 32 bits.
LEMMA AssembleType == ASSUME NEW ins \in Encodable PROVE Assemble(ins) \in Word32
<1> DEFINE format == Majors[ins.major].format
           imm == BitsOf(ins.imm)
           opcode == BitsOf(Majors[ins.major].opcode)
           rd == BitsOf(ins.rd)
           f3 == BitsOf(ins.f3)
           rs1 == BitsOf(ins.rs1)
           rs2 == BitsOf(ins.rs2)
           f7 == BitsOf(ins.f7)
<1>1. format \in {"R", "I", "S", "B", "U", "J"}
  BY MajorTypes DEF Encodable
<1>2. /\ imm \in Word32 /\ opcode \in Word32 /\ rd \in Word32 /\ f3 \in Word32
      /\ rs1 \in Word32 /\ rs2 \in Word32 /\ f7 \in Word32
  <2>1. /\ ins.imm \in Int /\ Majors[ins.major].opcode \in Int /\ ins.rd \in Int /\ ins.f3 \in Int
        /\ ins.rs1 \in Int /\ ins.rs2 \in Int /\ ins.f7 \in Int
    BY MajorTypes DEF Encodable
  <2> QED BY <2>1, BitsType
<1> SUFFICES ASSUME NEW b \in BitPos
             PROVE  (CASE b \in 0 .. 6                                  -> opcode[b]
                       [] b \in 7 .. 11 /\ format \notin {"S", "B"}      -> rd[b - 7]
                       [] b \in 12 .. 14 /\ ~(format \in {"U", "J"})    -> f3[b - 12]
                       [] b \in 15 .. 19 /\ ~(format \in {"U", "J"})    -> rs1[b - 15]
                       [] b \in 20 .. 24 /\ format \in {"R", "S", "B"}   -> rs2[b - 20]
                       [] b \in 25 .. 31 /\ format = "R"                -> f7[b - 25]
                       [] OTHER                                  -> ImmBit(format, imm, b)) \in {0, 1}
  BY DEF Assemble, Word32
<1> HIDE DEF format, imm, opcode, rd, f3, rs1, rs2, f7
<1>3. \A w \in Word32 : \A k \in 0 .. 31 : w[k] \in {0, 1}
  BY DEF Word32, BitPos
<1>4. CASE b \in 0 .. 6
  BY <1>2, <1>3, <1>4
<1>5. CASE b \in 7 .. 11 /\ format \notin {"S", "B"}
  BY <1>2, <1>3, <1>5
<1>6. CASE b \in 12 .. 14 /\ ~(format \in {"U", "J"})
  BY <1>2, <1>3, <1>6
<1>7. CASE b \in 15 .. 19 /\ ~(format \in {"U", "J"})
  BY <1>2, <1>3, <1>7
<1>8. CASE b \in 20 .. 24 /\ format \in {"R", "S", "B"}
  BY <1>2, <1>3, <1>8
<1>9. CASE b \in 25 .. 31 /\ format = "R"
  BY <1>2, <1>3, <1>9
<1>10. CASE /\ ~(b \in 0 .. 6) /\ ~(b \in 7 .. 11 /\ format \notin {"S", "B"})
            /\ ~(b \in 12 .. 14 /\ ~(format \in {"U", "J"}))
            /\ ~(b \in 15 .. 19 /\ ~(format \in {"U", "J"}))
            /\ ~(b \in 20 .. 24 /\ format \in {"R", "S", "B"})
            /\ ~(b \in 25 .. 31 /\ format = "R")
  <2>1. ImmBit(format, imm, b) \in {0, 1}
    BY <1>1, <1>2, <1>10, ImmBitType DEF BitPos
  <2> QED BY <1>10, <2>1
<1> QED BY <1>4, <1>5, <1>6, <1>7, <1>8, <1>9, <1>10

-----------------------------------------------------------------------------
(* The core and the emulator take a word apart alike.                      *)

\* Each operand of the core is that of the emulator, for every word.
LEMMA OperandsAlike ==
  ASSUME NEW w \in Word32
  PROVE  /\ \A f \in {"imm12", "imm12wr", "broffset", "upper20", "jmpoffset"} :
              Decoder!Operands(w)[f] = Fields(w)[f]
         /\ \A f \in {"rd", "rs1", "rs2"} :
              Decoder!Operands(w)[f] = Decoder!Slice(Fields(w)[f], 4, 0)
<1>1. \A k \in 0 .. 31 : w[k] \in {0, 1}
  BY DEF Word32, BitPos
<1>2. Decoder!SignExtended(Decoder!i_imm(w), 12) = ShiftArith(w, 20)
  BY DEF Decoder!SignExtended, Decoder!i_imm, Decoder!Slice, ShiftArith, BitPos
<1>3. Decoder!SignExtended(Decoder!s_imm(w), 12) = Imm12wr(w)
  BY <1>1 DEF Decoder!SignExtended, Decoder!s_imm, Imm12wr, OrWord, Keep, ShiftArith, ShiftRight, BitPos
<1>4. Decoder!SignExtended(Decoder!b_imm(w), 13) = Broffset(w)
  BY <1>1 DEF Decoder!SignExtended, Decoder!b_imm, Broffset, OrWord, Keep, ShiftArith, ShiftLeft, ShiftRight, BitPos
<1>5. Decoder!u_imm(w) = Keep(w, 31, 12)
  BY DEF Decoder!u_imm, Keep, BitPos
<1>6. Decoder!SignExtended(Decoder!j_imm(w), 21) = Jmpoffset(w)
  BY <1>1 DEF Decoder!SignExtended, Decoder!j_imm, Jmpoffset, OrWord, Keep, ShiftArith, ShiftRight, BitPos
<1>7. /\ Decoder!Slice(w, 11, 7) = Decoder!Slice(Keep(ShiftRight(w, 7), 4, 0), 4, 0)
      /\ Decoder!Slice(w, 19, 15) = Decoder!Slice(Keep(ShiftRight(w, 15), 4, 0), 4, 0)
      /\ Decoder!Slice(w, 24, 20) = Decoder!Slice(Keep(ShiftRight(w, 20), 4, 0), 4, 0)
  BY DEF Decoder!Slice, Keep, ShiftRight, BitPos
<1> QED BY <1>2, <1>3, <1>4, <1>5, <1>6, <1>7 DEF Decoder!Operands, Fields

-----------------------------------------------------------------------------
(* The emulator's fields are what was assembled.                           *)

\* The sign's bit.
LEMMA SignBit == ASSUME NEW n \in Int PROVE BitsOf(n)[31] = IF n < 0 THEN 1 ELSE 0
  BY DEF BitsOf, BitPos

\* Above the highest digit of an immediate are copies of its sign.
LEMMA HighBits ==
  ASSUME NEW n \in Int, NEW k \in {5, 11, 12, 20}, NEW m, m = 2 ^ k, n \in -m .. m - 1,
         NEW b \in k .. 31
  PROVE  BitsOf(n)[b] = BitsOf(n)[31]
<1>1. \A c \in k .. 30 : 2 ^ c >= m
  BY Larger, Zenon
<1>2. b \in BitPos /\ b >= k /\ k \in Nat /\ k \in 0 .. 30
  BY DEF BitPos
<1>3. m \in Nat
  BY <1>2, Positive, Zenon
<1>4. BitsOf(n)[b] = IF n < 0 THEN 1 ELSE 0
  BY <1>1, <1>2, <1>3, SignBits, Zenon
<1> QED BY <1>4, SignBit, Zenon

\* Above the highest digit of a register number are zeros.
LEMMA RegisterHighBits ==
  ASSUME NEW n \in 0 .. 31, NEW b \in 5 .. 31
  PROVE  BitsOf(n)[b] = 0
<1> DEFINE m == 2 ^ 5
<1>1. n \in Int /\ n \in -m .. m - 1 /\ ~(n < 0)
  BY SMT
<1>2. m = 2 ^ 5 /\ 5 \in {5, 11, 12, 20}
  OBVIOUS
<1> HIDE DEF m
<1>3. BitsOf(n)[b] = BitsOf(n)[31]
  BY <1>1, <1>2, HighBits, Zenon
<1> QED BY <1>1, <1>3, SignBit

\* The values of the immediates, by what bounds them.
LEMMA Bounds ==
  ASSUME NEW n \in Int, NEW format, Fits(n, format)
  PROVE  /\ format \in {"I", "S"} => n \in -(2 ^ 11) .. 2 ^ 11 - 1
         /\ format = "B" => n \in -(2 ^ 12) .. 2 ^ 12 - 1 /\ n % 2 = 0
         /\ format = "J" => n \in -(2 ^ 20) .. 2 ^ 20 - 1 /\ n % 2 = 0
<1>1. format \in {"I", "S"} => n \in -(2 ^ 11) .. 2 ^ 11 - 1
  BY SMT DEF Fits
<1>2. format = "B" => n \in -(2 ^ 12) .. 2 ^ 12 - 1 /\ n % 2 = 0
  BY SMT DEF Fits
<1>3. format = "J" => n \in -(2 ^ 20) .. 2 ^ 20 - 1 /\ n % 2 = 0
  BY SMT DEF Fits
<1> QED BY <1>1, <1>2, <1>3, SMT

\* An even number ends in a zero.
LEMMA EvenBit == ASSUME NEW n \in Int, n % 2 = 0 PROVE BitsOf(n)[0] = 0
<1>1. 2 ^ 0 = 1 /\ n \div 1 = n
  BY SMT
<1>2. BitsOf(n)[0] = (n \div (2 ^ 0)) % 2
  BY DEF BitsOf, BitPos
<1> QED BY <1>1, <1>2

\* The bits of the word of an instruction, by what they are part of.
LEMMA AssembledBits ==
  ASSUME NEW ins \in Encodable
  PROVE  LET w == Assemble(ins)
             format == Majors[ins.major].format
             imm == BitsOf(ins.imm)
         IN /\ \A b \in 0 .. 6 : w[b] = BitsOf(Majors[ins.major].opcode)[b]
            /\ format \notin {"S", "B"} => \A b \in 7 .. 11 : w[b] = BitsOf(ins.rd)[b - 7]
            /\ format \notin {"U", "J"} => /\ \A b \in 12 .. 14 : w[b] = BitsOf(ins.f3)[b - 12]
                                           /\ \A b \in 15 .. 19 : w[b] = BitsOf(ins.rs1)[b - 15]
            /\ format \in {"R", "S", "B"} => \A b \in 20 .. 24 : w[b] = BitsOf(ins.rs2)[b - 20]
            /\ format = "R" => \A b \in 25 .. 31 : w[b] = BitsOf(ins.f7)[b - 25]
            /\ format = "I" => \A b \in 20 .. 31 : w[b] = imm[b - 20]
            /\ format = "S" => /\ \A b \in 7 .. 11 : w[b] = imm[b - 7]
                               /\ \A b \in 25 .. 31 : w[b] = imm[b - 20]
            /\ format = "B" => /\ w[31] = imm[12] /\ w[7] = imm[11]
                               /\ \A b \in 8 .. 11 : w[b] = imm[b - 7]
                               /\ \A b \in 25 .. 30 : w[b] = imm[b - 20]
            /\ format = "U" => \A b \in 12 .. 31 : w[b] = imm[b - 12]
            /\ format = "J" => /\ w[31] = imm[20] /\ w[20] = imm[11]
                               /\ \A b \in 21 .. 30 : w[b] = imm[b - 20]
                               /\ \A b \in 12 .. 19 : w[b] = imm[b]
<1> DEFINE w == Assemble(ins)
           format == Majors[ins.major].format
           imm == BitsOf(ins.imm)
<1>1. /\ \A b \in 0 .. 6 : w[b] = BitsOf(Majors[ins.major].opcode)[b]
      /\ format \notin {"S", "B"} => \A b \in 7 .. 11 : w[b] = BitsOf(ins.rd)[b - 7]
      /\ format \notin {"U", "J"} => /\ \A b \in 12 .. 14 : w[b] = BitsOf(ins.f3)[b - 12]
                                     /\ \A b \in 15 .. 19 : w[b] = BitsOf(ins.rs1)[b - 15]
      /\ format \in {"R", "S", "B"} => \A b \in 20 .. 24 : w[b] = BitsOf(ins.rs2)[b - 20]
      /\ format = "R" => \A b \in 25 .. 31 : w[b] = BitsOf(ins.f7)[b - 25]
  BY DEF Assemble, BitPos
<1>2. /\ format = "I" => \A b \in 20 .. 31 : w[b] = imm[b - 20]
      /\ format = "S" => /\ \A b \in 7 .. 11 : w[b] = imm[b - 7]
                         /\ \A b \in 25 .. 31 : w[b] = imm[b - 20]
  BY SMTT(30) DEF Assemble, ImmBit, BitPos
<1>3. format = "B" => /\ w[31] = imm[12] /\ w[7] = imm[11]
                      /\ \A b \in 8 .. 11 : w[b] = imm[b - 7]
                      /\ \A b \in 25 .. 30 : w[b] = imm[b - 20]
  BY DEF Assemble, ImmBit, BitPos
<1>4. format = "U" => \A b \in 12 .. 31 : w[b] = imm[b - 12]
  BY DEF Assemble, ImmBit, BitPos
<1>5. format = "J" => /\ w[31] = imm[20] /\ w[20] = imm[11]
                      /\ \A b \in 21 .. 30 : w[b] = imm[b - 20]
                      /\ \A b \in 12 .. 19 : w[b] = imm[b]
  BY DEF Assemble, ImmBit, BitPos
<1> QED BY <1>1, <1>2, <1>3, <1>4, <1>5

\* Registers.
LEMMA RegisterFields ==
  ASSUME NEW ins \in Encodable
  PROVE  LET w == Assemble(ins)
             format == Majors[ins.major].format
         IN /\ format \notin {"S", "B"} => Fields(w).rd = BitsOf(ins.rd)
            /\ format \notin {"U", "J"} => /\ Fields(w).rs1 = BitsOf(ins.rs1)
                                          /\ Fields(w).uimm = BitsOf(ins.rs1)
            /\ format \in {"R", "S", "B"} => Fields(w).rs2 = BitsOf(ins.rs2)
<1> DEFINE w == Assemble(ins)
           format == Majors[ins.major].format
<1>1. ASSUME NEW n \in 0 .. 31, NEW k \in {7, 15, 20}, \A b \in k .. k + 4 : w[b] = BitsOf(n)[b - k]
      PROVE  Keep(ShiftRight(w, k), 4, 0) = BitsOf(n)
  <2>1. ASSUME NEW b \in BitPos
        PROVE  Keep(ShiftRight(w, k), 4, 0)[b] = BitsOf(n)[b]
    <3>1. CASE b \in 0 .. 4
      BY <1>1, <3>1 DEF Keep, ShiftRight, BitPos
    <3>2. CASE b \in 5 .. 31
      <4>1. BitsOf(n)[b] = 0
        BY <3>2, RegisterHighBits
      <4> QED BY <3>2, <4>1 DEF Keep, BitPos
    <3> QED BY <3>1, <3>2 DEF BitPos
  <2> QED BY <2>1 DEF Keep, BitsOf
<1>2. /\ format \notin {"S", "B"} => \A b \in 7 .. 7 + 4 : w[b] = BitsOf(ins.rd)[b - 7]
      /\ format \notin {"U", "J"} => \A b \in 15 .. 15 + 4 : w[b] = BitsOf(ins.rs1)[b - 15]
      /\ format \in {"R", "S", "B"} => \A b \in 20 .. 20 + 4 : w[b] = BitsOf(ins.rs2)[b - 20]
  BY AssembledBits
<1>3. ins.rd \in 0 .. 31 /\ ins.rs1 \in 0 .. 31 /\ ins.rs2 \in 0 .. 31
  BY DEF Encodable
<1> QED BY <1>1, <1>2, <1>3 DEF Fields

\* Immediates.
LEMMA ImmediateFields ==
  ASSUME NEW ins \in Encodable
  PROVE  LET w == Assemble(ins)
             format == Majors[ins.major].format
             imm == BitsOf(ins.imm)
         IN /\ format = "I" => Fields(w).imm12 = imm /\ Fields(w).csrid = Keep(imm, 11, 0)
            /\ format = "S" => Fields(w).imm12wr = imm
            /\ format = "B" => Fields(w).broffset = imm
            /\ format = "U" => Fields(w).upper20 = ShiftLeft(imm, 12)
            /\ format = "J" => Fields(w).jmpoffset = imm
<1> DEFINE w == Assemble(ins)
           format == Majors[ins.major].format
           n == ins.imm
           imm == BitsOf(n)
<1>1. n \in Int /\ Fits(n, format)
  BY DEF Encodable
<1>2. /\ \A b \in 0 .. 31 : imm[b] \in {0, 1}
      /\ imm = [b \in BitPos |-> imm[b]]
  BY <1>1, BitsType DEF Word32, BitPos
<1>3. \A b \in 0 .. 31 : w[b] \in {0, 1}
  BY AssembleType DEF Word32, BitPos
<1>4. CASE format = "I"
  <2>1. \A b \in 20 .. 31 : w[b] = imm[b - 20]
    BY <1>4, AssembledBits
  <2>2. \A b \in 11 .. 31 : imm[b] = imm[31]
    <3> DEFINE m == 2 ^ 11
    <3>1. n \in -m .. m - 1
      BY <1>1, <1>4, Bounds
    <3>2. m = 2 ^ 11 /\ 11 \in {5, 11, 12, 20}
      OBVIOUS
    <3> HIDE DEF m
    <3> QED BY <1>1, <3>1, <3>2, HighBits, Zenon
  <2> HIDE DEF w, format, imm
  <2>3. ShiftArith(w, 20) = [b \in BitPos |-> imm[b]]
    BY <2>1, <2>2 DEF ShiftArith, BitPos
  <2>4. ShiftRight(w, 20) = Keep(imm, 11, 0)
    BY <2>1 DEF ShiftRight, Keep, BitPos
  <2> QED BY <1>2, <1>4, <2>3, <2>4 DEF Fields, w, format, imm
<1>5. CASE format = "S"
  <2>1. /\ \A b \in 7 .. 11 : w[b] = imm[b - 7]
        /\ \A b \in 25 .. 31 : w[b] = imm[b - 20]
    BY <1>5, AssembledBits
  <2>2. \A b \in 11 .. 31 : imm[b] = imm[31]
    <3> DEFINE m == 2 ^ 11
    <3>1. n \in -m .. m - 1
      BY <1>1, <1>5, Bounds
    <3>2. m = 2 ^ 11 /\ 11 \in {5, 11, 12, 20}
      OBVIOUS
    <3> HIDE DEF m
    <3> QED BY <1>1, <3>1, <3>2, HighBits, Zenon
  <2> HIDE DEF w, format, imm
  <2>3. Imm12wr(w) = [b \in BitPos |-> imm[b]]
    BY <1>2, <1>3, <2>1, <2>2 DEF Imm12wr, OrWord, Keep, ShiftArith, ShiftRight, BitPos
  <2> QED BY <1>2, <1>5, <2>3 DEF Fields, w, format, imm
<1>6. CASE format = "B"
  <2>1. /\ w[31] = imm[12] /\ w[7] = imm[11]
        /\ \A b \in 8 .. 11 : w[b] = imm[b - 7]
        /\ \A b \in 25 .. 30 : w[b] = imm[b - 20]
    BY <1>6, AssembledBits
  <2>2. \A b \in 12 .. 31 : imm[b] = imm[31]
    <3> DEFINE m == 2 ^ 12
    <3>1. n \in -m .. m - 1
      BY <1>1, <1>6, Bounds
    <3>2. m = 2 ^ 12 /\ 12 \in {5, 11, 12, 20}
      OBVIOUS
    <3> HIDE DEF m
    <3> QED BY <1>1, <3>1, <3>2, HighBits, Zenon
  <2>3. imm[0] = 0
    <3>1. n % 2 = 0
      BY <1>1, <1>6, Bounds
    <3> QED BY <1>1, <3>1, EvenBit
  <2> HIDE DEF w, format, imm
  <2>4. Broffset(w) = [b \in BitPos |-> imm[b]]
    BY <1>2, <1>3, <2>1, <2>2, <2>3
       DEF Broffset, OrWord, Keep, ShiftArith, ShiftLeft, ShiftRight, BitPos
  <2> QED BY <1>2, <1>6, <2>4 DEF Fields, w, format, imm
<1>7. CASE format = "U"
  <2>1. \A b \in 12 .. 31 : w[b] = imm[b - 12]
    BY <1>7, AssembledBits
  <2> HIDE DEF w, format, imm
  <2>2. Keep(w, 31, 12) = ShiftLeft(imm, 12)
    BY <2>1 DEF ShiftLeft, Keep, BitPos
  <2> QED BY <1>7, <2>2 DEF Fields, w, format, imm
<1>8. CASE format = "J"
  <2>1. /\ w[31] = imm[20] /\ w[20] = imm[11]
        /\ \A b \in 21 .. 30 : w[b] = imm[b - 20]
        /\ \A b \in 12 .. 19 : w[b] = imm[b]
    BY <1>8, AssembledBits
  <2>2. \A b \in 20 .. 31 : imm[b] = imm[31]
    <3> DEFINE m == 2 ^ 20
    <3>1. n \in -m .. m - 1
      BY <1>1, <1>8, Bounds
    <3>2. m = 2 ^ 20 /\ 20 \in {5, 11, 12, 20}
      OBVIOUS
    <3> HIDE DEF m
    <3> QED BY <1>1, <3>1, <3>2, HighBits, Zenon
  <2>3. imm[0] = 0
    <3>1. n % 2 = 0
      BY <1>1, <1>8, Bounds
    <3> QED BY <1>1, <3>1, EvenBit
  <2> HIDE DEF w, format, imm
  <2>4. Jmpoffset(w) = [b \in BitPos |-> imm[b]]
    BY <1>2, <1>3, <2>1, <2>2, <2>3 DEF Jmpoffset, OrWord, Keep, ShiftArith, ShiftRight, BitPos
  <2> QED BY <1>2, <1>8, <2>4 DEF Fields, w, format, imm
<1> QED BY <1>4, <1>5, <1>6, <1>7, <1>8

-----------------------------------------------------------------------------
(* The table.                                                              *)

\* A sequence over a set is one over any larger set.
LEMMA Wider == ASSUME NEW T, NEW S, T \subseteq S, NEW s \in Seq(T) PROVE s \in Seq(S)
  OBVIOUS

\* A group of rows.
LEMMA JumpsType == Len(Jumps) = 10 /\ Jumps \in Seq({Jumps[k] : k \in 1 .. 10})
  BY DEF Jumps

\* A group of rows.
LEMMA AccessesType == Len(Accesses) = 8 /\ Accesses \in Seq({Accesses[k] : k \in 1 .. 8})
  BY DEF Accesses

\* A group of rows.
LEMMA ImmediatesType == Len(Immediates) = 9 /\ Immediates \in Seq({Immediates[k] : k \in 1 .. 9})
  BY DEF Immediates

\* A group of rows.
LEMMA RegistersType == Len(Registers) = 10 /\ Registers \in Seq({Registers[k] : k \in 1 .. 10})
  BY DEF Registers

\* A group of rows.
LEMMA SystemType == Len(System) = 10 /\ System \in Seq({System[k] : k \in 1 .. 10})
  BY DEF System

\* A group of rows.
LEMMA MultiplicationsType == Len(Multiplications) = 8 /\ Multiplications \in Seq({Multiplications[k] : k \in 1 .. 8})
  BY DEF Multiplications

\* u is s followed by t.
Joins(u, s, t) ==
  /\ Len(u) = Len(s) + Len(t)
  /\ \A k \in 1 .. Len(s) : u[k] = s[k]
  /\ \A k \in 1 .. Len(t) : u[Len(s) + k] = t[k]

\* Two tables in one.
LEMMA Joined ==
  ASSUME NEW S, NEW s \in Seq(S), NEW t \in Seq(S)
  PROVE  s \o t \in Seq(S) /\ Joins(s \o t, s, t)
<1> DEFINE m == Len(s)
           n == Len(t)
           u == s \o t
<1>0. m \in Nat /\ n \in Nat
  OBVIOUS
<1>1. /\ u \in Seq(S) /\ Len(u) = m + n
      /\ \A k \in 1 .. m + n : u[k] = IF k <= m THEN s[k] ELSE t[k - m]
  BY ConcatProperties
<1> HIDE DEF u, m, n
<1>3. ASSUME NEW k \in 1 .. n PROVE u[m + k] = t[k]
  <2>1. m + k \in 1 .. m + n /\ ~(m + k <= m) /\ (m + k) - m = k
    BY <1>0
  <2> QED BY <1>1, <2>1, Zenon
<1>4. ASSUME NEW k \in 1 .. m PROVE u[k] = s[k]
  <2>1. k \in 1 .. m + n /\ k <= m
    BY <1>0
  <2> QED BY <1>1, <2>1, Zenon
<1> QED BY <1>1, <1>3, <1>4, Zenon DEF Joins, u, m, n

\* The rows of the table, by their place in their group.
LEMMA Table ==
  /\ Len(opcodes) = 56 /\ opcodes[56] = Row("unknown", {})
  /\ \A k \in 1 .. 10 : opcodes[0 + k] = Jumps[k]
  /\ \A k \in 1 .. 8 : opcodes[10 + k] = Accesses[k]
  /\ \A k \in 1 .. 9 : opcodes[18 + k] = Immediates[k]
  /\ \A k \in 1 .. 10 : opcodes[27 + k] = Registers[k]
  /\ \A k \in 1 .. 10 : opcodes[37 + k] = System[k]
  /\ \A k \in 1 .. 8 : opcodes[47 + k] = Multiplications[k]
<1> DEFINE last == <<Row("unknown", {})>>
           S == {Jumps[k] : k \in 1 .. 10}
                  \cup {Accesses[k] : k \in 1 .. 8}
                  \cup {Immediates[k] : k \in 1 .. 9}
                  \cup {Registers[k] : k \in 1 .. 10}
                  \cup {System[k] : k \in 1 .. 10}
                  \cup {Multiplications[k] : k \in 1 .. 8}
                  \cup {last[1]}
           t2 == Jumps \o Accesses
           t3 == t2 \o Immediates
           t4 == t3 \o Registers
           t5 == t4 \o System
           t6 == t5 \o Multiplications
<1>1. /\ {Jumps[k] : k \in 1 .. 10} \subseteq S
      /\ {Accesses[k] : k \in 1 .. 8} \subseteq S
      /\ {Immediates[k] : k \in 1 .. 9} \subseteq S
      /\ {Registers[k] : k \in 1 .. 10} \subseteq S
      /\ {System[k] : k \in 1 .. 10} \subseteq S
      /\ {Multiplications[k] : k \in 1 .. 8} \subseteq S
  OBVIOUS
<1>2. last[1] \in S /\ last[1] = Row("unknown", {}) /\ Len(last) = 1
  OBVIOUS
<1>3. last \in Seq(S)
  BY <1>2
<1>4. opcodes = t6 \o last
  BY Zenon DEF opcodes
<1>t2. t2 = Jumps \o Accesses
  OBVIOUS
<1>t3. t3 = t2 \o Immediates
  OBVIOUS
<1>t4. t4 = t3 \o Registers
  OBVIOUS
<1>t5. t5 = t4 \o System
  OBVIOUS
<1>t6. t6 = t5 \o Multiplications
  OBVIOUS
<1> HIDE DEF S, last, t2, t3, t4, t5, t6
<1>5. Jumps \in Seq(S)
  BY <1>1, JumpsType, Wider, Zenon
<1>6. /\ t2 \in Seq(S) /\ Len(t2) = 18
      /\ \A k \in 1 .. 10 : t2[k] = Jumps[k]
      /\ \A k \in 1 .. 8 : t2[10 + k] = Accesses[k]
  <2>1. Accesses \in Seq(S)
    BY <1>1, AccessesType, Wider, Zenon
  <2>2. /\ 10 \in Nat /\ 8 \in Nat /\ 10 + 8 = 18
        /\ Len(Accesses) = 8 /\ Len(Jumps) = 10 /\ Jumps \in Seq(S)
    BY AccessesType, JumpsType, <1>5
  <2>3. t2 \in Seq(S) /\ Joins(t2, Jumps, Accesses)
    BY <1>t2, <2>1, <2>2, Joined
  <2> QED BY <2>2, <2>3 DEF Joins
<1>7. /\ t3 \in Seq(S) /\ Len(t3) = 27
      /\ \A k \in 1 .. 18 : t3[k] = t2[k]
      /\ \A k \in 1 .. 9 : t3[18 + k] = Immediates[k]
  <2>1. Immediates \in Seq(S)
    BY <1>1, ImmediatesType, Wider, Zenon
  <2>2. /\ 18 \in Nat /\ 9 \in Nat /\ 18 + 9 = 27
        /\ Len(Immediates) = 9 /\ Len(t2) = 18 /\ t2 \in Seq(S)
    BY ImmediatesType, <1>6
  <2>3. t3 \in Seq(S) /\ Joins(t3, t2, Immediates)
    BY <1>t3, <2>1, <2>2, Joined
  <2> QED BY <2>2, <2>3 DEF Joins
<1>8. /\ t4 \in Seq(S) /\ Len(t4) = 37
      /\ \A k \in 1 .. 27 : t4[k] = t3[k]
      /\ \A k \in 1 .. 10 : t4[27 + k] = Registers[k]
  <2>1. Registers \in Seq(S)
    BY <1>1, RegistersType, Wider, Zenon
  <2>2. /\ 27 \in Nat /\ 10 \in Nat /\ 27 + 10 = 37
        /\ Len(Registers) = 10 /\ Len(t3) = 27 /\ t3 \in Seq(S)
    BY RegistersType, <1>7
  <2>3. t4 \in Seq(S) /\ Joins(t4, t3, Registers)
    BY <1>t4, <2>1, <2>2, Joined
  <2> QED BY <2>2, <2>3 DEF Joins
<1>9. /\ t5 \in Seq(S) /\ Len(t5) = 47
      /\ \A k \in 1 .. 37 : t5[k] = t4[k]
      /\ \A k \in 1 .. 10 : t5[37 + k] = System[k]
  <2>1. System \in Seq(S)
    BY <1>1, SystemType, Wider, Zenon
  <2>2. /\ 37 \in Nat /\ 10 \in Nat /\ 37 + 10 = 47
        /\ Len(System) = 10 /\ Len(t4) = 37 /\ t4 \in Seq(S)
    BY SystemType, <1>8
  <2>3. t5 \in Seq(S) /\ Joins(t5, t4, System)
    BY <1>t5, <2>1, <2>2, Joined
  <2> QED BY <2>2, <2>3 DEF Joins
<1>10. /\ t6 \in Seq(S) /\ Len(t6) = 55
       /\ \A k \in 1 .. 47 : t6[k] = t5[k]
       /\ \A k \in 1 .. 8 : t6[47 + k] = Multiplications[k]
  <2>1. Multiplications \in Seq(S)
    BY <1>1, MultiplicationsType, Wider, Zenon
  <2>2. /\ 47 \in Nat /\ 8 \in Nat /\ 47 + 8 = 55
        /\ Len(Multiplications) = 8 /\ Len(t5) = 47 /\ t5 \in Seq(S)
    BY MultiplicationsType, <1>9
  <2>3. t6 \in Seq(S) /\ Joins(t6, t5, Multiplications)
    BY <1>t6, <2>1, <2>2, Joined
  <2> QED BY <2>2, <2>3 DEF Joins
<1>11. /\ Len(opcodes) = 55 + 1
       /\ \A k \in 1 .. 55 : opcodes[k] = t6[k]
       /\ \A k \in 1 .. 1 : opcodes[55 + k] = last[k]
  <2>1. Joins(opcodes, t6, last)
    BY <1>3, <1>4, <1>10, Joined
  <2> QED BY <1>2, <1>10, <2>1 DEF Joins
<1>12. ASSUME NEW k \in 1 .. 10 PROVE opcodes[0 + k] = Jumps[k]
  <2> DEFINE j == 0 + k
  <2>1. j \in 1 .. 18 /\ j \in 1 .. 27 /\ j \in 1 .. 37 /\ j \in 1 .. 47 /\ j \in 1 .. 55
    OBVIOUS
  <2>2. t2[j] = Jumps[k]
    BY <1>6
  <2> HIDE DEF j
  <2>3. opcodes[j] = t6[j] /\ t6[j] = t5[j] /\ t5[j] = t4[j] /\ t4[j] = t3[j] /\ t3[j] = t2[j]
    BY <2>1, <1>6, <1>7, <1>8, <1>9, <1>10, <1>11
  <2> QED BY <2>2, <2>3 DEF j
<1>13. ASSUME NEW k \in 1 .. 8 PROVE opcodes[10 + k] = Accesses[k]
  <2> DEFINE j == 10 + k
  <2>1. j \in 1 .. 18 /\ j \in 1 .. 27 /\ j \in 1 .. 37 /\ j \in 1 .. 47 /\ j \in 1 .. 55
    OBVIOUS
  <2>2. t2[j] = Accesses[k]
    BY <1>6
  <2> HIDE DEF j
  <2>3. opcodes[j] = t6[j] /\ t6[j] = t5[j] /\ t5[j] = t4[j] /\ t4[j] = t3[j] /\ t3[j] = t2[j]
    BY <2>1, <1>6, <1>7, <1>8, <1>9, <1>10, <1>11
  <2> QED BY <2>2, <2>3 DEF j
<1>14. ASSUME NEW k \in 1 .. 9 PROVE opcodes[18 + k] = Immediates[k]
  <2> DEFINE j == 18 + k
  <2>1. j \in 1 .. 27 /\ j \in 1 .. 37 /\ j \in 1 .. 47 /\ j \in 1 .. 55
    OBVIOUS
  <2>2. t3[j] = Immediates[k]
    BY <1>7
  <2> HIDE DEF j
  <2>3. opcodes[j] = t6[j] /\ t6[j] = t5[j] /\ t5[j] = t4[j] /\ t4[j] = t3[j]
    BY <2>1, <1>7, <1>8, <1>9, <1>10, <1>11
  <2> QED BY <2>2, <2>3 DEF j
<1>15. ASSUME NEW k \in 1 .. 10 PROVE opcodes[27 + k] = Registers[k]
  <2> DEFINE j == 27 + k
  <2>1. j \in 1 .. 37 /\ j \in 1 .. 47 /\ j \in 1 .. 55
    OBVIOUS
  <2>2. t4[j] = Registers[k]
    BY <1>8
  <2> HIDE DEF j
  <2>3. opcodes[j] = t6[j] /\ t6[j] = t5[j] /\ t5[j] = t4[j]
    BY <2>1, <1>8, <1>9, <1>10, <1>11
  <2> QED BY <2>2, <2>3 DEF j
<1>16. ASSUME NEW k \in 1 .. 10 PROVE opcodes[37 + k] = System[k]
  <2> DEFINE j == 37 + k
  <2>1. j \in 1 .. 47 /\ j \in 1 .. 55
    OBVIOUS
  <2>2. t5[j] = System[k]
    BY <1>9
  <2> HIDE DEF j
  <2>3. opcodes[j] = t6[j] /\ t6[j] = t5[j]
    BY <2>1, <1>9, <1>10, <1>11
  <2> QED BY <2>2, <2>3 DEF j
<1>17. ASSUME NEW k \in 1 .. 8 PROVE opcodes[47 + k] = Multiplications[k]
  <2> DEFINE j == 47 + k
  <2>1. j \in 1 .. 55
    OBVIOUS
  <2>2. t6[j] = Multiplications[k]
    BY <1>10
  <2> HIDE DEF j
  <2>3. opcodes[j] = t6[j]
    BY <2>1, <1>10, <1>11
  <2> QED BY <2>2, <2>3 DEF j
<1>18. Len(opcodes) = 56 /\ opcodes[56] = last[1]
  BY <1>11
<1> QED BY <1>2, <1>12, <1>13, <1>14, <1>15, <1>16, <1>17, <1>18

-----------------------------------------------------------------------------
(* The masks and values that riscv_initialise compiles.                    *)

\* A set of numbers has a least one.
LEMMA Least ==
  ASSUME NEW T, T \subseteq Nat, T # {}
  PROVE  \E m \in T : \A k \in T : ~(k < m)
<1>1. PICK m \in T : \A k \in T : <<k, m>> \notin OpToRel(<, Nat)
  BY WFMin, NatLessThanWellFounded, Zenon
<1> QED BY <1>1, Zenon DEF OpToRel

\* A set that has 0 and the successor of each of its numbers has them all.
LEMMA Induction ==
  ASSUME NEW S, 0 \in S, \A n \in Nat : n \in S => n + 1 \in S
  PROVE  Nat \subseteq S
<1> DEFINE T == {n \in Nat : n \notin S}
<1> SUFFICES ASSUME T # {} PROVE FALSE
  OBVIOUS
<1>1. PICK m \in T : \A k \in T : ~(k < m)
  <2>1. T \subseteq Nat /\ T # {}
    OBVIOUS
  <2> HIDE DEF T
  <2> QED BY <2>1, Least
<1>2. m - 1 \in Nat /\ m - 1 \notin T
  BY <1>1
<1> QED BY <1>1, <1>2

\* g is what Compile computes from the bits s.
ShiftsIn(g, s) ==
  g = [j \in 0 .. 32 |-> IF j = 0 THEN Zeros
                         ELSE [ShiftLeft(g[j - 1], 1) EXCEPT ![0] = s[j - 1]]]

\* After j steps the lowest j places hold what was shifted in, the latest lowest.
ShiftedIn(s) == [j \in 0 .. 32 |-> [b \in BitPos |-> IF b < j THEN s[j - 1 - b] ELSE 0]]

\* The recursion has that solution.
LEMMA ShiftsExist == ASSUME NEW s PROVE ShiftsIn(ShiftedIn(s), s)
<1> DEFINE g == ShiftedIn(s)
           h == [j \in 0 .. 32 |-> IF j = 0 THEN Zeros
                                   ELSE [ShiftLeft(g[j - 1], 1) EXCEPT ![0] = s[j - 1]]]
<1>1. ASSUME NEW j \in 0 .. 32
      PROVE  g[j] = h[j]
  <2>1. CASE j = 0
    BY <2>1 DEF ShiftedIn, Zeros, BitPos
  <2>2. CASE j # 0
    <3>1. j - 1 \in 0 .. 32 /\ j \in 1 .. 32
      BY <2>2
    <3>2. g[j - 1] = [b \in BitPos |-> IF b < j - 1 THEN s[(j - 1) - 1 - b] ELSE 0]
      BY <3>1 DEF ShiftedIn
    <3>3. g[j] = [b \in BitPos |-> IF b < j THEN s[j - 1 - b] ELSE 0]
      BY DEF ShiftedIn
    <3>4. ASSUME NEW b \in BitPos
          PROVE  g[j][b] = [ShiftLeft(g[j - 1], 1) EXCEPT ![0] = s[j - 1]][b]
      <4>1. CASE b = 0
        BY <3>1, <3>3, <4>1 DEF ShiftLeft, BitPos
      <4>2. CASE b # 0
        <5>1. b - 1 \in BitPos /\ (j - 1) - 1 - (b - 1) = j - 1 - b /\ (b - 1 < j - 1 <=> b < j) /\ ~(b < 1)
          BY <3>1, <4>2 DEF BitPos
        <5>2. ShiftLeft(g[j - 1], 1)[b] = g[j - 1][b - 1]
          BY <5>1 DEF ShiftLeft
        <5>3. g[j - 1][b - 1] = g[j][b]
          BY <3>2, <3>3, <5>1
        <5> QED BY <4>2, <5>2, <5>3 DEF ShiftLeft
      <4> QED BY <4>1, <4>2
    <3>5. g[j] = [ShiftLeft(g[j - 1], 1) EXCEPT ![0] = s[j - 1]]
      BY <3>3, <3>4 DEF ShiftLeft
    <3> QED BY <2>2, <3>5
  <2> QED BY <2>1, <2>2
<1>2. g = [j \in 0 .. 32 |-> g[j]]
  BY DEF ShiftedIn
<1>3. g = h
  BY <1>1, <1>2
<1> QED BY <1>3 DEF ShiftsIn

\* And no other.
LEMMA ShiftsUnique ==
  ASSUME NEW s, NEW g, ShiftsIn(g, s)
  PROVE  g[32] = [b \in BitPos |-> s[31 - b]]
<1> DEFINE h == ShiftedIn(s)
           S == {j \in Nat : j \in 0 .. 32 => g[j] = h[j]}
<1>0. ShiftsIn(h, s)
  BY ShiftsExist
<1>1. 0 \in S
  <2>1. g[0] = Zeros /\ h[0] = Zeros
    BY <1>0 DEF ShiftsIn
  <2> QED BY <2>1
<1>2. ASSUME NEW j \in Nat, j \in S
      PROVE  j + 1 \in S
  <2> HIDE DEF h
  <2> SUFFICES ASSUME j + 1 \in 0 .. 32 PROVE g[j + 1] = h[j + 1]
    OBVIOUS
  <2>1. g[j] = h[j]
    BY <1>2
  <2>2. /\ g[j + 1] = [ShiftLeft(g[(j + 1) - 1], 1) EXCEPT ![0] = s[(j + 1) - 1]]
        /\ h[j + 1] = [ShiftLeft(h[(j + 1) - 1], 1) EXCEPT ![0] = s[(j + 1) - 1]]
    <3>1. j + 1 # 0
      OBVIOUS
    <3> QED BY <1>0, <3>1 DEF ShiftsIn
  <2>3. (j + 1) - 1 = j
    OBVIOUS
  <2> QED BY <2>1, <2>2, <2>3
<1>3. Nat \subseteq S
  <2> HIDE DEF S
  <2> QED BY <1>1, <1>2, Induction
<1>4. g[32] = h[32]
  BY <1>3
<1>5. \A b \in BitPos : b < 32 /\ 32 - 1 - b = 31 - b
  BY DEF BitPos
<1> QED BY <1>4, <1>5 DEF ShiftedIn

\* The compiled bits, one for each character, the most significant first.
LEMMA Compiled ==
  ASSUME NEW row, NEW sets
  PROVE  Compile(row, sets) = [b \in BitPos |-> sets[Spec32(row, 31 - b)]]
<1> DEFINE s == [j \in 0 .. 31 |-> sets[Spec32(row, j)]]
           g == CHOOSE f : f = [j \in 0 .. 32 |->
                   IF j = 0 THEN Zeros
                   ELSE [ShiftLeft(f[j - 1], 1) EXCEPT ![0] = sets[Spec32(row, j - 1)]]]
<1>1. ASSUME NEW f
      PROVE  ShiftsIn(f, s) <=>
               f = [j \in 0 .. 32 |->
                      IF j = 0 THEN Zeros
                      ELSE [ShiftLeft(f[j - 1], 1) EXCEPT ![0] = sets[Spec32(row, j - 1)]]]
  <2>1. ASSUME NEW j \in 0 .. 32, j # 0 PROVE s[j - 1] = sets[Spec32(row, j - 1)]
    BY <2>1
  <2> HIDE DEF s
  <2>2. [j \in 0 .. 32 |->
           IF j = 0 THEN Zeros
           ELSE [ShiftLeft(f[j - 1], 1) EXCEPT ![0] = sets[Spec32(row, j - 1)]]]
        = [j \in 0 .. 32 |-> IF j = 0 THEN Zeros
                             ELSE [ShiftLeft(f[j - 1], 1) EXCEPT ![0] = s[j - 1]]]
    BY <2>1
  <2> QED BY <2>2 DEF ShiftsIn
<1>2. \E f : f = [j \in 0 .. 32 |->
                   IF j = 0 THEN Zeros
                   ELSE [ShiftLeft(f[j - 1], 1) EXCEPT ![0] = sets[Spec32(row, j - 1)]]]
  <2> HIDE DEF s
  <2> QED BY <1>1, ShiftsExist
<1>3. ShiftsIn(g, s)
  <2> HIDE DEF s
  <2> QED BY <1>1, <1>2
<1>4. g[32] = [b \in BitPos |-> s[31 - b]]
  <2> HIDE DEF s, g
  <2> QED BY <1>3, ShiftsUnique
<1>5. Compile(row, sets) = g[32]
  BY Zenon DEF Compile
<1>6. \A b \in BitPos : s[31 - b] = sets[Spec32(row, 31 - b)]
  BY DEF BitPos
<1> HIDE DEF s, g
<1> QED BY <1>4, <1>5, <1>6

-----------------------------------------------------------------------------
(* Matching.                                                               *)

\* The word has the bits that a triple of the table fixes, and all of a row.
Has(w, f) == \A b \in f[2] .. f[1] : w[b] = BitsOf(f[3])[b - f[2]]
HasAll(w, row) == \A f \in row.fixed : Has(w, f)

\* No bit is fixed twice.
Apart(row) ==
  /\ \A f \in row.fixed : f[1] \in BitPos /\ f[2] \in BitPos /\ f[3] \in Int
  /\ \A f, g \in row.fixed : f = g \/ f[1] < g[2] \/ g[1] < f[2]

\* The character of a bit, by the field it lies in.
LEMMA PatternBits ==
  ASSUME NEW row, Apart(row), NEW b \in BitPos
  PROVE  /\ (\A f \in row.fixed : b \notin f[2] .. f[1]) => Spec32(row, 31 - b) = "-"
         /\ \A f \in row.fixed : b \in f[2] .. f[1] =>
              Spec32(row, 31 - b) = IF BitsOf(f[3])[b - f[2]] = 1 THEN "1" ELSE "0"
<1> DEFINE fields == {f \in row.fixed : b \in f[2] .. f[1]}
           x == CHOOSE x \in fields : TRUE
<1>1. 31 - (31 - b) = b
  BY DEF BitPos
<1>2. Spec32(row, 31 - b) = IF fields = {} THEN "-"
                            ELSE IF BitsOf(x[3])[b - x[2]] = 1 THEN "1" ELSE "0"
  BY <1>1 DEF Spec32
<1>3. ASSUME NEW f \in row.fixed, b \in f[2] .. f[1]
      PROVE  fields # {} /\ x = f
  <2>1. f \in fields
    BY <1>3
  <2>2. x \in fields
    BY <2>1
  <2>3. b \in x[2] .. x[1] /\ x \in row.fixed
    BY <2>2
  <2> HIDE DEF x
  <2>4. /\ x[1] \in Int /\ x[2] \in Int /\ f[1] \in Int /\ f[2] \in Int /\ b \in Int
        /\ f = x \/ f[1] < x[2] \/ x[1] < f[2]
    BY <2>3 DEF Apart, BitPos
  <2>5. f = x
    BY <1>3, <2>3, <2>4
  <2> QED BY <2>1, <2>5
<1>4. (\A f \in row.fixed : b \notin f[2] .. f[1]) => fields = {}
  OBVIOUS
<1> HIDE DEF fields, x
<1> QED BY <1>2, <1>3, <1>4

\* The comparison under the mask is that of the bits the row fixes.
LEMMA MatchBits ==
  ASSUME NEW row, Apart(row), NEW w \in Word32
  PROVE  (\A b \in BitPos : w[b] * MaskBit[Spec32(row, 31 - b)] = ValueBit[Spec32(row, 31 - b)])
           <=> HasAll(w, row)
<1>1. ASSUME NEW b \in BitPos
      PROVE  /\ (\A f \in row.fixed : b \notin f[2] .. f[1]) => Spec32(row, 31 - b) = "-"
             /\ \A f \in row.fixed : b \in f[2] .. f[1] =>
                  Spec32(row, 31 - b) = IF BitsOf(f[3])[b - f[2]] = 1 THEN "1" ELSE "0"
  BY PatternBits
<1>2. /\ MaskBit["-"] = 0 /\ MaskBit["0"] = 1 /\ MaskBit["1"] = 1
      /\ ValueBit["-"] = 0 /\ ValueBit["0"] = 0 /\ ValueBit["1"] = 1
  BY DEF MaskBit, ValueBit, Character
<1>3. ASSUME NEW b \in BitPos, NEW f \in row.fixed, b \in f[2] .. f[1]
      PROVE  (w[b] * MaskBit[Spec32(row, 31 - b)] = ValueBit[Spec32(row, 31 - b)])
               <=> w[b] = BitsOf(f[3])[b - f[2]]
  <2>1. BitsOf(f[3])[b - f[2]] \in {0, 1}
    <3>1. f[3] \in Int /\ b - f[2] \in BitPos
      BY <1>3 DEF Apart, BitPos
    <3> QED BY <3>1, BitsType DEF Word32
  <2>2. w[b] \in {0, 1}
    BY DEF Word32
  <2>3. Spec32(row, 31 - b) = IF BitsOf(f[3])[b - f[2]] = 1 THEN "1" ELSE "0"
    BY <1>1, <1>3
  <2> DEFINE x == BitsOf(f[3])[b - f[2]]
             y == w[b]
             c == Spec32(row, 31 - b)
  <2> HIDE DEF x, y, c
  <2>4. CASE x = 1
    <3>1. c = "1" /\ MaskBit[c] = 1 /\ ValueBit[c] = 1
      BY <1>2, <2>3, <2>4 DEF x, c
    <3>2. y * 1 = y
      BY <2>2 DEF y
    <3> QED BY <2>4, <3>1, <3>2 DEF x, y, c
  <2>5. CASE x # 1
    <3>1. c = "0" /\ MaskBit[c] = 1 /\ ValueBit[c] = 0 /\ x = 0
      BY <1>2, <2>1, <2>3, <2>5 DEF x, c
    <3>2. y * 1 = y
      BY <2>2 DEF y
    <3> QED BY <3>1, <3>2 DEF x, y, c
  <2> QED BY <2>4, <2>5
<1>4. ASSUME NEW b \in BitPos, \A f \in row.fixed : b \notin f[2] .. f[1]
      PROVE  w[b] * MaskBit[Spec32(row, 31 - b)] = ValueBit[Spec32(row, 31 - b)]
  <2>1. Spec32(row, 31 - b) = "-"
    BY <1>1, <1>4
  <2>2. w[b] * 0 = 0
    BY DEF Word32
  <2> QED BY <1>2, <2>1, <2>2
<1>5. \A f \in row.fixed : \A b \in f[2] .. f[1] : b \in BitPos
  BY DEF Apart, BitPos
<1> QED BY <1>3, <1>4, <1>5, Zenon DEF HasAll, Has

\* The patterns of the table's three usual forms.
LEMMA Forms ==
  ASSUME NEW func, NEW f7 \in Int, NEW f3 \in Int, NEW o \in Int, NEW w
  PROVE  /\ Apart(OfOpcode(func, o)) /\ Apart(OfFunct3(func, f3, o)) /\ Apart(OfFunct7(func, f7, f3, o))
         /\ OfOpcode(func, o).func = func /\ OfFunct3(func, f3, o).func = func
         /\ OfFunct7(func, f7, f3, o).func = func
         /\ HasAll(w, OfOpcode(func, o)) <=> Has(w, <<6, 0, o>>)
         /\ HasAll(w, OfFunct3(func, f3, o)) <=> Has(w, <<14, 12, f3>>) /\ Has(w, <<6, 0, o>>)
         /\ HasAll(w, OfFunct7(func, f7, f3, o)) <=>
              Has(w, <<31, 25, f7>>) /\ Has(w, <<14, 12, f3>>) /\ Has(w, <<6, 0, o>>)
<1>1. Apart(OfOpcode(func, o))
  BY DEF Apart, OfOpcode, Row, BitPos
<1>2. Apart(OfFunct3(func, f3, o))
  BY DEF Apart, OfFunct3, Row, BitPos
<1>3. Apart(OfFunct7(func, f7, f3, o))
  BY DEF Apart, OfFunct7, Row, BitPos
<1>4. /\ OfOpcode(func, o).func = func /\ OfFunct3(func, f3, o).func = func
      /\ OfFunct7(func, f7, f3, o).func = func
  BY DEF OfOpcode, OfFunct3, OfFunct7, Row
<1>5. HasAll(w, OfOpcode(func, o)) <=> Has(w, <<6, 0, o>>)
  BY Zenon DEF HasAll, OfOpcode, Row
<1>6. HasAll(w, OfFunct3(func, f3, o)) <=> Has(w, <<14, 12, f3>>) /\ Has(w, <<6, 0, o>>)
  BY Zenon DEF HasAll, OfFunct3, Row
<1>7. HasAll(w, OfFunct7(func, f7, f3, o)) <=>
        Has(w, <<31, 25, f7>>) /\ Has(w, <<14, 12, f3>>) /\ Has(w, <<6, 0, o>>)
  BY Zenon DEF HasAll, OfFunct7, Row
<1> QED BY <1>1, <1>2, <1>3, <1>4, <1>5, <1>6, <1>7, Zenon

-----------------------------------------------------------------------------
(* Numbers of few bits.                                                    *)

\* The bits of a number, by halving it.
Halving(n) ==
  /\ n = 2 * (n \div 2) + BitsOf(n)[0]
  /\ n \div 2 = 2 * (n \div 4) + BitsOf(n)[1]
  /\ n \div 4 = 2 * (n \div 8) + BitsOf(n)[2]
  /\ n \div 8 = 2 * (n \div 16) + BitsOf(n)[3]
  /\ n \div 16 = 2 * (n \div 32) + BitsOf(n)[4]
  /\ n \div 32 = 2 * (n \div 64) + BitsOf(n)[5]
  /\ n \div 64 = 2 * (n \div 128) + BitsOf(n)[6]
  /\ n \div 128 = 2 * (n \div 256) + BitsOf(n)[7]
  /\ n \div 256 = 2 * (n \div 512) + BitsOf(n)[8]
  /\ n \div 512 = 2 * (n \div 1024) + BitsOf(n)[9]
  /\ n \div 1024 = 2 * (n \div 2048) + BitsOf(n)[10]
  /\ n \div 2048 = 2 * (n \div 4096) + BitsOf(n)[11]

\* Every number is so halved.
LEMMA Halves == ASSUME NEW n \in Int PROVE Halving(n)
<1>1. n = 2 * (n \div 2) + BitsOf(n)[0]
  <2>1. 2 ^ 0 = 1
    BY SMT
  <2>2. BitsOf(n)[0] = (n \div (2 ^ 0)) % 2
    BY DEF BitsOf, BitPos
  <2>3. n = 2 * (n \div 2) + ((n) % 2)
    BY SMT
  <2> QED BY <2>1, <2>2, <2>3
<1>2. n \div 2 = 2 * (n \div 4) + BitsOf(n)[1]
  <2>1. 2 ^ 1 = 2
    BY SMT
  <2>2. BitsOf(n)[1] = (n \div (2 ^ 1)) % 2
    BY DEF BitsOf, BitPos
  <2>3. n \div 2 = 2 * (n \div 4) + ((n \div 2) % 2)
    BY SMT
  <2> QED BY <2>1, <2>2, <2>3
<1>3. n \div 4 = 2 * (n \div 8) + BitsOf(n)[2]
  <2>1. 2 ^ 2 = 4
    BY SMT
  <2>2. BitsOf(n)[2] = (n \div (2 ^ 2)) % 2
    BY DEF BitsOf, BitPos
  <2>3. n \div 4 = 2 * (n \div 8) + ((n \div 4) % 2)
    BY SMT
  <2> QED BY <2>1, <2>2, <2>3
<1>4. n \div 8 = 2 * (n \div 16) + BitsOf(n)[3]
  <2>1. 2 ^ 3 = 8
    BY SMT
  <2>2. BitsOf(n)[3] = (n \div (2 ^ 3)) % 2
    BY DEF BitsOf, BitPos
  <2>3. n \div 8 = 2 * (n \div 16) + ((n \div 8) % 2)
    BY SMT
  <2> QED BY <2>1, <2>2, <2>3
<1>5. n \div 16 = 2 * (n \div 32) + BitsOf(n)[4]
  <2>1. 2 ^ 4 = 16
    BY SMT
  <2>2. BitsOf(n)[4] = (n \div (2 ^ 4)) % 2
    BY DEF BitsOf, BitPos
  <2>3. n \div 16 = 2 * (n \div 32) + ((n \div 16) % 2)
    BY SMT
  <2> QED BY <2>1, <2>2, <2>3
<1>6. n \div 32 = 2 * (n \div 64) + BitsOf(n)[5]
  <2>1. 2 ^ 5 = 32
    BY SMT
  <2>2. BitsOf(n)[5] = (n \div (2 ^ 5)) % 2
    BY DEF BitsOf, BitPos
  <2>3. n \div 32 = 2 * (n \div 64) + ((n \div 32) % 2)
    BY SMT
  <2> QED BY <2>1, <2>2, <2>3
<1>7. n \div 64 = 2 * (n \div 128) + BitsOf(n)[6]
  <2>1. 2 ^ 6 = 64
    BY SMT
  <2>2. BitsOf(n)[6] = (n \div (2 ^ 6)) % 2
    BY DEF BitsOf, BitPos
  <2>3. n \div 64 = 2 * (n \div 128) + ((n \div 64) % 2)
    BY SMT
  <2> QED BY <2>1, <2>2, <2>3
<1>8. n \div 128 = 2 * (n \div 256) + BitsOf(n)[7]
  <2>1. 2 ^ 7 = 128
    BY SMT
  <2>2. BitsOf(n)[7] = (n \div (2 ^ 7)) % 2
    BY DEF BitsOf, BitPos
  <2>3. n \div 128 = 2 * (n \div 256) + ((n \div 128) % 2)
    BY SMT
  <2> QED BY <2>1, <2>2, <2>3
<1>9. n \div 256 = 2 * (n \div 512) + BitsOf(n)[8]
  <2>1. 2 ^ 8 = 256
    BY SMT
  <2>2. BitsOf(n)[8] = (n \div (2 ^ 8)) % 2
    BY DEF BitsOf, BitPos
  <2>3. n \div 256 = 2 * (n \div 512) + ((n \div 256) % 2)
    BY SMT
  <2> QED BY <2>1, <2>2, <2>3
<1>10. n \div 512 = 2 * (n \div 1024) + BitsOf(n)[9]
  <2>1. 2 ^ 9 = 512
    BY SMT
  <2>2. BitsOf(n)[9] = (n \div (2 ^ 9)) % 2
    BY DEF BitsOf, BitPos
  <2>3. n \div 512 = 2 * (n \div 1024) + ((n \div 512) % 2)
    BY SMT
  <2> QED BY <2>1, <2>2, <2>3
<1>11. n \div 1024 = 2 * (n \div 2048) + BitsOf(n)[10]
  <2>1. 2 ^ 10 = 1024
    BY SMT
  <2>2. BitsOf(n)[10] = (n \div (2 ^ 10)) % 2
    BY DEF BitsOf, BitPos
  <2>3. n \div 1024 = 2 * (n \div 2048) + ((n \div 1024) % 2)
    BY SMT
  <2> QED BY <2>1, <2>2, <2>3
<1>12. n \div 2048 = 2 * (n \div 4096) + BitsOf(n)[11]
  <2>1. 2 ^ 11 = 2048
    BY SMT
  <2>2. BitsOf(n)[11] = (n \div (2 ^ 11)) % 2
    BY DEF BitsOf, BitPos
  <2>3. n \div 2048 = 2 * (n \div 4096) + ((n \div 2048) % 2)
    BY SMT
  <2> QED BY <2>1, <2>2, <2>3
<1> QED BY <1>1, <1>2, <1>3, <1>4, <1>5, <1>6, <1>7, <1>8, <1>9, <1>10, <1>11, <1>12 DEF Halving

\* Powers from the seventh on are no smaller.
LEMMA LargerSeven == \A b \in 7 .. 30 : 2 ^ b >= 2 ^ 7
<1> DEFINE P(p) == p >= 2 ^ 7
<1>1. /\ P(2 ^ 7) /\ P(2 ^ 8) /\ P(2 ^ 9) /\ P(2 ^ 10) /\ P(2 ^ 11)
      /\ P(2 ^ 12) /\ P(2 ^ 13) /\ P(2 ^ 14) /\ P(2 ^ 15) /\ P(2 ^ 16) /\ P(2 ^ 17)
      /\ P(2 ^ 18) /\ P(2 ^ 19) /\ P(2 ^ 20) /\ P(2 ^ 21) /\ P(2 ^ 22) /\ P(2 ^ 23)
      /\ P(2 ^ 24) /\ P(2 ^ 25) /\ P(2 ^ 26) /\ P(2 ^ 27) /\ P(2 ^ 28) /\ P(2 ^ 29)
      /\ P(2 ^ 30)
  BY SMT
<1>2. ASSUME NEW b \in 7 .. 30
      PROVE
        \/ b = 7 \/ b = 8 \/ b = 9 \/ b = 10 \/ b = 11 \/ b = 12 \/ b = 13 \/ b = 14
        \/ b = 15 \/ b = 16 \/ b = 17 \/ b = 18 \/ b = 19 \/ b = 20 \/ b = 21 \/ b = 22 \/ b = 23 \/ b = 24
        \/ b = 25 \/ b = 26 \/ b = 27 \/ b = 28 \/ b = 29 \/ b = 30
  BY SMT
<1> HIDE DEF P
<1>3. \A b \in 7 .. 30 : P(2 ^ b)
  BY <1>1, <1>2, Zenon
<1> QED BY <1>3 DEF P

\* Above the seventh bit of an opcode are zeros.
LEMMA OpcodeHighBits ==
  ASSUME NEW n \in 0 .. 127, NEW b \in 7 .. 31
  PROVE  BitsOf(n)[b] = 0
<1> DEFINE m == 2 ^ 7
           k == 7
<1>1. n \in Int /\ n \in -m .. m - 1 /\ ~(n < 0) /\ m \in Nat /\ k \in Nat
  BY SMT
<1>2. b \in BitPos /\ b >= k
  BY DEF BitPos
<1>3. \A c \in k .. 30 : 2 ^ c >= m
  BY LargerSeven, Zenon
<1> HIDE DEF m, k
<1>4. BitsOf(n)[b] = IF n < 0 THEN 1 ELSE 0
  BY <1>1, <1>2, <1>3, SignBits, Zenon
<1> QED BY <1>1, <1>4

\* A bit is a digit.
LEMMA Digit == ASSUME NEW n \in Int, NEW b \in 0 .. 31 PROVE BitsOf(n)[b] \in {0, 1}
  BY BitsType DEF Word32, BitPos

\* The lowest digits of two numbers, up to that of bit k, are the same.
SameDigits(n, m, k) == \A b \in 0 .. k : BitsOf(n)[b] = BitsOf(m)[b]

\* Numbers of three, five, seven digits are their digits.
LEMMA Digits ==
  ASSUME NEW n \in Int, NEW m \in Int
  PROVE  /\ n \in 0 .. 7 /\ m \in 0 .. 7 /\ SameDigits(n, m, 2) => n = m
         /\ n \in 0 .. 31 /\ m \in 0 .. 31 /\ SameDigits(n, m, 4) => n = m
         /\ n \in 0 .. 127 /\ m \in 0 .. 127 /\ SameDigits(n, m, 6) => n = m
<1>1. CASE n \in 0 .. 7 /\ m \in 0 .. 7 /\ \A b \in 0 .. 2 : BitsOf(n)[b] = BitsOf(m)[b]
  <2> DEFINE p1 == n \div 2
             q1 == m \div 2
             p2 == n \div 4
             q2 == m \div 4
             p3 == n \div 8
             q3 == m \div 8
  <2>1. p3 = 0 /\ q3 = 0
    BY <1>1, SMT
  <2>2. /\ BitsOf(n)[0] = BitsOf(m)[0] /\ BitsOf(m)[0] \in {0, 1}
        /\ BitsOf(n)[1] = BitsOf(m)[1] /\ BitsOf(m)[1] \in {0, 1}
        /\ BitsOf(n)[2] = BitsOf(m)[2] /\ BitsOf(m)[2] \in {0, 1}
    BY <1>1, Digit
  <2>3. Halving(n) /\ Halving(m)
    BY Halves
  <2>4. /\ n = 2 * p1 + BitsOf(n)[0]
        /\ p1 = 2 * p2 + BitsOf(n)[1]
        /\ p2 = 2 * p3 + BitsOf(n)[2]
        /\ m = 2 * q1 + BitsOf(m)[0]
        /\ q1 = 2 * q2 + BitsOf(m)[1]
        /\ q2 = 2 * q3 + BitsOf(m)[2]
    BY <2>3 DEF Halving
  <2>5. /\ p1 \in Int /\ q1 \in Int
        /\ p2 \in Int /\ q2 \in Int
        /\ p3 \in Int /\ q3 \in Int
    BY SMT
  <2> HIDE DEF p1, q1, p2, q2, p3, q3
  <2> QED BY <2>1, <2>2, <2>4, <2>5
<1>2. CASE n \in 0 .. 31 /\ m \in 0 .. 31 /\ \A b \in 0 .. 4 : BitsOf(n)[b] = BitsOf(m)[b]
  <2> DEFINE p1 == n \div 2
             q1 == m \div 2
             p2 == n \div 4
             q2 == m \div 4
             p3 == n \div 8
             q3 == m \div 8
             p4 == n \div 16
             q4 == m \div 16
             p5 == n \div 32
             q5 == m \div 32
  <2>1. p5 = 0 /\ q5 = 0
    BY <1>2, SMT
  <2>2. /\ BitsOf(n)[0] = BitsOf(m)[0] /\ BitsOf(m)[0] \in {0, 1}
        /\ BitsOf(n)[1] = BitsOf(m)[1] /\ BitsOf(m)[1] \in {0, 1}
        /\ BitsOf(n)[2] = BitsOf(m)[2] /\ BitsOf(m)[2] \in {0, 1}
        /\ BitsOf(n)[3] = BitsOf(m)[3] /\ BitsOf(m)[3] \in {0, 1}
        /\ BitsOf(n)[4] = BitsOf(m)[4] /\ BitsOf(m)[4] \in {0, 1}
    BY <1>2, Digit
  <2>3. Halving(n) /\ Halving(m)
    BY Halves
  <2>4. /\ n = 2 * p1 + BitsOf(n)[0]
        /\ p1 = 2 * p2 + BitsOf(n)[1]
        /\ p2 = 2 * p3 + BitsOf(n)[2]
        /\ p3 = 2 * p4 + BitsOf(n)[3]
        /\ p4 = 2 * p5 + BitsOf(n)[4]
        /\ m = 2 * q1 + BitsOf(m)[0]
        /\ q1 = 2 * q2 + BitsOf(m)[1]
        /\ q2 = 2 * q3 + BitsOf(m)[2]
        /\ q3 = 2 * q4 + BitsOf(m)[3]
        /\ q4 = 2 * q5 + BitsOf(m)[4]
    BY <2>3 DEF Halving
  <2>5. /\ p1 \in Int /\ q1 \in Int
        /\ p2 \in Int /\ q2 \in Int
        /\ p3 \in Int /\ q3 \in Int
        /\ p4 \in Int /\ q4 \in Int
        /\ p5 \in Int /\ q5 \in Int
    BY SMT
  <2> HIDE DEF p1, q1, p2, q2, p3, q3, p4, q4, p5, q5
  <2> QED BY <2>1, <2>2, <2>4, <2>5
<1>3. CASE n \in 0 .. 127 /\ m \in 0 .. 127 /\ \A b \in 0 .. 6 : BitsOf(n)[b] = BitsOf(m)[b]
  <2> DEFINE p1 == n \div 2
             q1 == m \div 2
             p2 == n \div 4
             q2 == m \div 4
             p3 == n \div 8
             q3 == m \div 8
             p4 == n \div 16
             q4 == m \div 16
             p5 == n \div 32
             q5 == m \div 32
             p6 == n \div 64
             q6 == m \div 64
             p7 == n \div 128
             q7 == m \div 128
  <2>1. p7 = 0 /\ q7 = 0
    BY <1>3, SMT
  <2>2. /\ BitsOf(n)[0] = BitsOf(m)[0] /\ BitsOf(m)[0] \in {0, 1}
        /\ BitsOf(n)[1] = BitsOf(m)[1] /\ BitsOf(m)[1] \in {0, 1}
        /\ BitsOf(n)[2] = BitsOf(m)[2] /\ BitsOf(m)[2] \in {0, 1}
        /\ BitsOf(n)[3] = BitsOf(m)[3] /\ BitsOf(m)[3] \in {0, 1}
        /\ BitsOf(n)[4] = BitsOf(m)[4] /\ BitsOf(m)[4] \in {0, 1}
        /\ BitsOf(n)[5] = BitsOf(m)[5] /\ BitsOf(m)[5] \in {0, 1}
        /\ BitsOf(n)[6] = BitsOf(m)[6] /\ BitsOf(m)[6] \in {0, 1}
    BY <1>3, Digit
  <2>3. Halving(n) /\ Halving(m)
    BY Halves
  <2>4. /\ n = 2 * p1 + BitsOf(n)[0]
        /\ p1 = 2 * p2 + BitsOf(n)[1]
        /\ p2 = 2 * p3 + BitsOf(n)[2]
        /\ p3 = 2 * p4 + BitsOf(n)[3]
        /\ p4 = 2 * p5 + BitsOf(n)[4]
        /\ p5 = 2 * p6 + BitsOf(n)[5]
        /\ p6 = 2 * p7 + BitsOf(n)[6]
        /\ m = 2 * q1 + BitsOf(m)[0]
        /\ q1 = 2 * q2 + BitsOf(m)[1]
        /\ q2 = 2 * q3 + BitsOf(m)[2]
        /\ q3 = 2 * q4 + BitsOf(m)[3]
        /\ q4 = 2 * q5 + BitsOf(m)[4]
        /\ q5 = 2 * q6 + BitsOf(m)[5]
        /\ q6 = 2 * q7 + BitsOf(m)[6]
    BY <2>3 DEF Halving
  <2>5. /\ p1 \in Int /\ q1 \in Int
        /\ p2 \in Int /\ q2 \in Int
        /\ p3 \in Int /\ q3 \in Int
        /\ p4 \in Int /\ q4 \in Int
        /\ p5 \in Int /\ q5 \in Int
        /\ p6 \in Int /\ q6 \in Int
        /\ p7 \in Int /\ q7 \in Int
    BY SMT
  <2> HIDE DEF p1, q1, p2, q2, p3, q3, p4, q4, p5, q5, p6, q6, p7, q7
  <2> QED BY <2>1, <2>2, <2>4, <2>5
<1> QED BY <1>1, <1>2, <1>3 DEF SameDigits

\* Quotients of numbers of twelve bits.
LEMMA Quotients ==
  /\ \A n \in 0 .. 2047 : n \div 2048 = 0 /\ n \div 4096 = 0
  /\ \A n \in -2048 .. -1 : n \div 2048 = -1 /\ n \div 4096 = -1
<1>1. ASSUME NEW n \in 0 .. 2047 PROVE n \div 2048 = 0
  BY SMT
<1>2. ASSUME NEW n \in 0 .. 2047 PROVE n \div 4096 = 0
  BY SMT
<1>3. ASSUME NEW n \in -2048 .. -1 PROVE n \div 2048 = -1
  BY SMT
<1>4. ASSUME NEW n \in -2048 .. -1 PROVE n \div 4096 = -1
  BY SMT
<1> QED BY <1>1, <1>2, <1>3, <1>4

\* The values of an immediate of twelve bits.
Twelve == -2048 .. 2047

\* Its digits from the sixth on are those of v.
HasAbove(n, v) == \A b \in 5 .. 11 : BitsOf(n)[b] = BitsOf(v)[b - 5]

\* Then above its fifth digit the number is v.
LEMMA HighDigits ==
  ASSUME NEW n \in Twelve, NEW v \in 0 .. 63, HasAbove(n, v)
  PROVE  n \div 32 = v
<1> DEFINE p5 == n \div 32
           p6 == n \div 64
           p7 == n \div 128
           p8 == n \div 256
           p9 == n \div 512
           p10 == n \div 1024
           p11 == n \div 2048
           p12 == n \div 4096
           q1 == v \div 2
           q2 == v \div 4
           q3 == v \div 8
           q4 == v \div 16
           q5 == v \div 32
           q6 == v \div 64
           q7 == v \div 128
<1>n. n \in Int /\ n \in -2048 .. 2047
  BY DEF Twelve
<1>1. /\ v \in Int /\ n \in Int
      /\ p5 \in Int
      /\ p6 \in Int
      /\ p7 \in Int
      /\ p8 \in Int
      /\ p9 \in Int
      /\ p10 \in Int
      /\ p11 \in Int
      /\ p12 \in Int
      /\ q1 \in Int
      /\ q2 \in Int
      /\ q3 \in Int
      /\ q4 \in Int
      /\ q5 \in Int
      /\ q6 \in Int
      /\ q7 \in Int
  BY <1>n, SMT
<1>2. /\ BitsOf(n)[5] \in {0, 1} /\ BitsOf(v)[0] \in {0, 1}
      /\ BitsOf(n)[6] \in {0, 1} /\ BitsOf(v)[1] \in {0, 1}
      /\ BitsOf(n)[7] \in {0, 1} /\ BitsOf(v)[2] \in {0, 1}
      /\ BitsOf(n)[8] \in {0, 1} /\ BitsOf(v)[3] \in {0, 1}
      /\ BitsOf(n)[9] \in {0, 1} /\ BitsOf(v)[4] \in {0, 1}
      /\ BitsOf(n)[10] \in {0, 1} /\ BitsOf(v)[5] \in {0, 1}
      /\ BitsOf(n)[11] \in {0, 1} /\ BitsOf(v)[6] \in {0, 1}
  BY <1>1, Digit
<1>3. Halving(n) /\ Halving(v)
  BY <1>1, Halves
<1>4. /\ p5 = 2 * p6 + BitsOf(n)[5]
      /\ p6 = 2 * p7 + BitsOf(n)[6]
      /\ p7 = 2 * p8 + BitsOf(n)[7]
      /\ p8 = 2 * p9 + BitsOf(n)[8]
      /\ p9 = 2 * p10 + BitsOf(n)[9]
      /\ p10 = 2 * p11 + BitsOf(n)[10]
      /\ p11 = 2 * p12 + BitsOf(n)[11]
      /\ v = 2 * q1 + BitsOf(v)[0]
      /\ q1 = 2 * q2 + BitsOf(v)[1]
      /\ q2 = 2 * q3 + BitsOf(v)[2]
      /\ q3 = 2 * q4 + BitsOf(v)[3]
      /\ q4 = 2 * q5 + BitsOf(v)[4]
      /\ q5 = 2 * q6 + BitsOf(v)[5]
      /\ q6 = 2 * q7 + BitsOf(v)[6]
  BY <1>3 DEF Halving
<1>5. /\ (p11 = 0 /\ p12 = 0) \/ (p11 = -1 /\ p12 = -1)
      /\ q6 = 0 /\ q7 = 0
  <2>1. q6 = 0 /\ q7 = 0
    BY SMT
  <2>2. CASE n >= 0
    <3>1. n \in 0 .. 2047
      BY <1>n, <2>2, SMTT(30)
    <3> QED BY <2>1, <3>1, Quotients
  <2>3. CASE n < 0
    <3>1. n \in -2048 .. -1
      BY <1>n, <2>3, SMTT(30)
    <3> QED BY <2>1, <3>1, Quotients
  <2> QED BY <1>n, <2>2, <2>3
<1>6. /\ BitsOf(n)[5] = BitsOf(v)[0]
      /\ BitsOf(n)[6] = BitsOf(v)[1]
      /\ BitsOf(n)[7] = BitsOf(v)[2]
      /\ BitsOf(n)[8] = BitsOf(v)[3]
      /\ BitsOf(n)[9] = BitsOf(v)[4]
      /\ BitsOf(n)[10] = BitsOf(v)[5]
      /\ BitsOf(n)[11] = BitsOf(v)[6]
  BY DEF HasAbove
<1> HIDE DEF p5, p6, p7, p8, p9, p10, p11, p12, q1, q2, q3, q4, q5, q6, q7
<1>7. p5 = v
  BY <1>1, <1>2, <1>4, <1>5, <1>6
<1> QED BY <1>7 DEF p5

\* Conversely, a number that is v above its fifth digit has the digits of v there.
LEMMA HighDigitsOf ==
  ASSUME NEW n \in Twelve, NEW v \in 0 .. 63, n \div 32 = v
  PROVE  HasAbove(n, v)
<1> DEFINE p5 == n \div 32
           p6 == n \div 64
           p7 == n \div 128
           p8 == n \div 256
           p9 == n \div 512
           p10 == n \div 1024
           p11 == n \div 2048
           p12 == n \div 4096
           q1 == v \div 2
           q2 == v \div 4
           q3 == v \div 8
           q4 == v \div 16
           q5 == v \div 32
           q6 == v \div 64
           q7 == v \div 128
<1>n. n \in Int /\ n \in -2048 .. 2047
  BY DEF Twelve
<1>1. /\ v \in Int /\ n \in Int
      /\ p5 \in Int
      /\ p6 \in Int
      /\ p7 \in Int
      /\ p8 \in Int
      /\ p9 \in Int
      /\ p10 \in Int
      /\ p11 \in Int
      /\ p12 \in Int
      /\ q1 \in Int
      /\ q2 \in Int
      /\ q3 \in Int
      /\ q4 \in Int
      /\ q5 \in Int
      /\ q6 \in Int
      /\ q7 \in Int
  BY <1>n, SMT
<1>2. /\ BitsOf(n)[5] \in {0, 1} /\ BitsOf(v)[0] \in {0, 1}
      /\ BitsOf(n)[6] \in {0, 1} /\ BitsOf(v)[1] \in {0, 1}
      /\ BitsOf(n)[7] \in {0, 1} /\ BitsOf(v)[2] \in {0, 1}
      /\ BitsOf(n)[8] \in {0, 1} /\ BitsOf(v)[3] \in {0, 1}
      /\ BitsOf(n)[9] \in {0, 1} /\ BitsOf(v)[4] \in {0, 1}
      /\ BitsOf(n)[10] \in {0, 1} /\ BitsOf(v)[5] \in {0, 1}
      /\ BitsOf(n)[11] \in {0, 1} /\ BitsOf(v)[6] \in {0, 1}
  BY <1>1, Digit
<1>3. Halving(n) /\ Halving(v)
  BY <1>1, Halves
<1>4. /\ p5 = 2 * p6 + BitsOf(n)[5]
      /\ p6 = 2 * p7 + BitsOf(n)[6]
      /\ p7 = 2 * p8 + BitsOf(n)[7]
      /\ p8 = 2 * p9 + BitsOf(n)[8]
      /\ p9 = 2 * p10 + BitsOf(n)[9]
      /\ p10 = 2 * p11 + BitsOf(n)[10]
      /\ p11 = 2 * p12 + BitsOf(n)[11]
      /\ v = 2 * q1 + BitsOf(v)[0]
      /\ q1 = 2 * q2 + BitsOf(v)[1]
      /\ q2 = 2 * q3 + BitsOf(v)[2]
      /\ q3 = 2 * q4 + BitsOf(v)[3]
      /\ q4 = 2 * q5 + BitsOf(v)[4]
      /\ q5 = 2 * q6 + BitsOf(v)[5]
      /\ q6 = 2 * q7 + BitsOf(v)[6]
  BY <1>3 DEF Halving
<1>5. /\ p5 = v
      /\ p6 = q1
      /\ p7 = q2
      /\ p8 = q3
      /\ p9 = q4
      /\ p10 = q5
      /\ p11 = q6
      /\ p12 = q7
  BY <1>n, SMT
<1> HIDE DEF p5, p6, p7, p8, p9, p10, p11, p12, q1, q2, q3, q4, q5, q6, q7
<1>6. BitsOf(n)[5] = BitsOf(v)[0]
  BY <1>1, <1>2, <1>4, <1>5
<1>7. BitsOf(n)[6] = BitsOf(v)[1]
  BY <1>1, <1>2, <1>4, <1>5
<1>8. BitsOf(n)[7] = BitsOf(v)[2]
  BY <1>1, <1>2, <1>4, <1>5
<1>9. BitsOf(n)[8] = BitsOf(v)[3]
  BY <1>1, <1>2, <1>4, <1>5
<1>10. BitsOf(n)[9] = BitsOf(v)[4]
  BY <1>1, <1>2, <1>4, <1>5
<1>11. BitsOf(n)[10] = BitsOf(v)[5]
  BY <1>1, <1>2, <1>4, <1>5
<1>12. BitsOf(n)[11] = BitsOf(v)[6]
  BY <1>1, <1>2, <1>4, <1>5
<1> QED BY <1>6, <1>7, <1>8, <1>9, <1>10, <1>11, <1>12 DEF HasAbove

\* The digits of nothing.
LEMMA ZeroBits == ASSUME NEW b \in 0 .. 31 PROVE BitsOf(0)[b] = 0
<1>1. CASE b = 31
  BY <1>1 DEF BitsOf, BitPos
<1>2. CASE b # 31
  <2> DEFINE p == 2 ^ b
  <2>1. b \in 0 .. 30
    BY <1>2
  <2>2. p \in Nat /\ p > 0
    BY <2>1, Positive, Zenon
  <2>3. BitsOf(0)[b] = (0 \div p) % 2
    BY <1>2 DEF BitsOf, BitPos
  <2> HIDE DEF p
  <2> QED BY <2>2, <2>3
<1> QED BY <1>1, <1>2

\* The digits of one.
LEMMA OneBits == BitsOf(1)[1] = 0 /\ BitsOf(1)[2] = 0 /\ BitsOf(1)[3] = 0 /\ BitsOf(1)[4] = 0
<1>1. 2 ^ 1 = 2 /\ 2 ^ 2 = 4 /\ 2 ^ 3 = 8 /\ 2 ^ 4 = 16
  BY SMT
<1>2. /\ BitsOf(1)[1] = (1 \div (2 ^ 1)) % 2
      /\ BitsOf(1)[2] = (1 \div (2 ^ 2)) % 2
      /\ BitsOf(1)[3] = (1 \div (2 ^ 3)) % 2
      /\ BitsOf(1)[4] = (1 \div (2 ^ 4)) % 2
  BY DEF BitsOf, BitPos
<1> QED BY <1>1, <1>2

\* The opcode's digits.
LEMMA OpcodeIs ==
  ASSUME NEW ins \in Encodable, NEW o \in 0 .. 127
  PROVE  Has(Assemble(ins), <<6, 0, o>>) <=> Majors[ins.major].opcode = o
<1> DEFINE c == Majors[ins.major].opcode
           w == Assemble(ins)
<1>1. c \in 0 .. 127 /\ c \in Int /\ o \in Int
  BY MajorTypes DEF Encodable
<1>2. \A b \in 0 .. 6 : w[b] = BitsOf(c)[b]
  BY AssembledBits
<1> HIDE DEF c, w
<1>3. Has(w, <<6, 0, o>>) <=> \A b \in 0 .. 6 : w[b] = BitsOf(o)[b]
  BY DEF Has
<1>4. (\A b \in 0 .. 6 : BitsOf(c)[b] = BitsOf(o)[b]) => c = o
  BY <1>1, Digits DEF SameDigits
<1> QED BY <1>2, <1>3, <1>4 DEF c, w

\* The digits of funct3.
LEMMA Funct3Is ==
  ASSUME NEW ins \in Encodable, Majors[ins.major].format \notin {"U", "J"}, NEW v \in 0 .. 7
  PROVE  Has(Assemble(ins), <<14, 12, v>>) <=> ins.f3 = v
<1> DEFINE c == ins.f3
           w == Assemble(ins)
<1>1. c \in 0 .. 7 /\ c \in Int /\ v \in Int
  BY DEF Encodable
<1>2. \A b \in 12 .. 14 : w[b] = BitsOf(c)[b - 12]
  BY AssembledBits
<1> HIDE DEF c, w
<1>3. Has(w, <<14, 12, v>>) <=> \A b \in 12 .. 14 : w[b] = BitsOf(v)[b - 12]
  BY DEF Has
<1>4. (\A b \in 0 .. 2 : BitsOf(c)[b] = BitsOf(v)[b]) => c = v
  BY <1>1, Digits DEF SameDigits
<1>5. \A b \in 0 .. 2 : b + 12 \in 12 .. 14 /\ (b + 12) - 12 = b
  OBVIOUS
<1> QED BY <1>2, <1>3, <1>4, <1>5 DEF c, w

\* The digits of funct7.
LEMMA Funct7Is ==
  ASSUME NEW ins \in Encodable, Majors[ins.major].format = "R", NEW v \in 0 .. 127
  PROVE  Has(Assemble(ins), <<31, 25, v>>) <=> ins.f7 = v
<1> DEFINE c == ins.f7
           w == Assemble(ins)
<1>1. c \in 0 .. 127 /\ c \in Int /\ v \in Int
  BY DEF Encodable
<1>2. \A b \in 25 .. 31 : w[b] = BitsOf(c)[b - 25]
  BY AssembledBits
<1> HIDE DEF c, w
<1>3. Has(w, <<31, 25, v>>) <=> \A b \in 25 .. 31 : w[b] = BitsOf(v)[b - 25]
  BY DEF Has
<1>4. (\A b \in 0 .. 6 : BitsOf(c)[b] = BitsOf(v)[b]) => c = v
  BY <1>1, Digits DEF SameDigits
<1>5. \A b \in 0 .. 6 : b + 25 \in 25 .. 31 /\ (b + 25) - 25 = b
  OBVIOUS
<1> QED BY <1>2, <1>3, <1>4, <1>5 DEF c, w

\* The seven digits there of an instruction with an immediate: those above a
\* shift amount.
LEMMA HighIs ==
  ASSUME NEW ins \in Encodable, Majors[ins.major].format = "I", NEW v \in 0 .. 63
  PROVE  Has(Assemble(ins), <<31, 25, v>>) <=> ins.imm \div 32 = v
<1> DEFINE n == ins.imm
           w == Assemble(ins)
<1>1. n \in Twelve
  BY SMTT(30) DEF Encodable, Fits, Twelve
<1>2. \A b \in 25 .. 31 : w[b] = BitsOf(n)[b - 20]
  BY AssembledBits
<1> HIDE DEF n, w
<1>3. Has(w, <<31, 25, v>>) <=> \A b \in 25 .. 31 : w[b] = BitsOf(v)[b - 25]
  BY DEF Has
<1>4. HasAbove(n, v) <=> n \div 32 = v
  BY <1>1, HighDigits, HighDigitsOf, Zenon
<1>5. \A b \in 5 .. 11 : b + 20 \in 25 .. 31 /\ (b + 20) - 20 = b /\ (b + 20) - 25 = b - 5
  OBVIOUS
<1>6. \A b \in 25 .. 31 : b - 20 \in 5 .. 11 /\ (b - 20) - 5 = b - 25
  OBVIOUS
<1>7. (\A b \in 25 .. 31 : w[b] = BitsOf(v)[b - 25]) <=> HasAbove(n, v)
  BY <1>2, <1>5, <1>6 DEF HasAbove
<1> QED BY <1>3, <1>4, <1>7 DEF n, w

\* Twelve zeros.
LEMMA ZeroIs ==
  ASSUME NEW n \in Twelve
  PROVE  (\A b \in 0 .. 11 : BitsOf(n)[b] = 0) <=> n = 0
<1>1. ASSUME n = 0 PROVE \A b \in 0 .. 11 : BitsOf(n)[b] = 0
  BY <1>1, ZeroBits
<1>2. ASSUME \A b \in 0 .. 11 : BitsOf(n)[b] = 0 PROVE n = 0
  <2> DEFINE v == 0
  <2>1. v \in 0 .. 63 /\ \A b \in 0 .. 31 : BitsOf(v)[b] = 0
    BY ZeroBits
  <2> HIDE DEF v
  <2>2. HasAbove(n, v)
    BY <1>2, <2>1 DEF HasAbove
  <2>3. n \div 32 = v
    BY <2>1, <2>2, HighDigits, Zenon
  <2>4. n \in 0 .. 31 /\ v \in 0 .. 31 /\ v \in Int /\ n \in Int
    BY <2>3, SMT DEF v, Twelve
  <2>5. SameDigits(n, v, 4)
    BY <1>2, <2>1 DEF SameDigits
  <2>6. n = v
    BY <2>4, <2>5, Digits, Zenon
  <2> QED BY <2>6 DEF v
<1> QED BY <1>1, <1>2

\* Eleven zeros above a one.
LEMMA OneIs ==
  ASSUME NEW n \in Twelve
  PROVE  (\A b \in 0 .. 11 : BitsOf(n)[b] = BitsOf(1)[b]) <=> n = 1
<1>1. ASSUME n = 1 PROVE \A b \in 0 .. 11 : BitsOf(n)[b] = BitsOf(1)[b]
  BY <1>1
<1>2. ASSUME \A b \in 0 .. 11 : BitsOf(n)[b] = BitsOf(1)[b] PROVE n = 1
  <2> DEFINE v == 0
             u == 1
  <2>1. v \in 0 .. 63 /\ (\A b \in 0 .. 31 : BitsOf(v)[b] = 0) /\ u \in 0 .. 31 /\ u \in Int
    BY ZeroBits
  <2>2. \A b \in 5 .. 11 : BitsOf(u)[b] = 0
    BY RegisterHighBits
  <2>3. \A b \in 0 .. 11 : BitsOf(n)[b] = BitsOf(u)[b]
    BY <1>2
  <2>u. u = 1
    OBVIOUS
  <2> HIDE DEF v, u
  <2>4. HasAbove(n, v)
    BY <2>1, <2>2, <2>3 DEF HasAbove
  <2>5. n \div 32 = v
    BY <2>1, <2>4, HighDigits, Zenon
  <2>6. n \in 0 .. 31 /\ n \in Int
    BY <2>5, SMT DEF v, Twelve
  <2>7. SameDigits(n, u, 4)
    BY <2>3 DEF SameDigits
  <2>8. n = u
    BY <2>1, <2>6, <2>7, Digits, Zenon
  <2> QED BY <2>8, <2>u
<1> QED BY <1>1, <1>2

\* Four zeros at the top: the first half of a fence's immediate.
LEMMA FenceIs ==
  ASSUME NEW n \in Twelve
  PROVE  (\A b \in 8 .. 11 : BitsOf(n)[b] = 0) <=> n \in 0 .. 255
<1> DEFINE p8 == n \div 256
           p9 == n \div 512
           p10 == n \div 1024
           p11 == n \div 2048
           p12 == n \div 4096
<1>n. n \in Int /\ n \in -2048 .. 2047
  BY DEF Twelve
<1>1. p8 \in Int /\ p9 \in Int /\ p10 \in Int /\ p11 \in Int /\ p12 \in Int
  BY <1>n, SMT
<1>2. /\ p8 = 2 * p9 + BitsOf(n)[8] /\ p9 = 2 * p10 + BitsOf(n)[9]
      /\ p10 = 2 * p11 + BitsOf(n)[10] /\ p11 = 2 * p12 + BitsOf(n)[11]
  <2>1. Halving(n)
    BY <1>n, Halves
  <2> QED BY <2>1 DEF Halving
<1>3. (p11 = 0 /\ p12 = 0) \/ (p11 = -1 /\ p12 = -1)
  <2>2. CASE n >= 0
    <3>1. n \in 0 .. 2047
      BY <1>n, <2>2, SMTT(30)
    <3> QED BY <3>1, Quotients
  <2>3. CASE n < 0
    <3>1. n \in -2048 .. -1
      BY <1>n, <2>3, SMTT(30)
    <3> QED BY <3>1, Quotients
  <2> QED BY <1>n, <2>2, <2>3
<1>4. p8 = 0 => n \in 0 .. 255
  BY <1>n, SMT
<1>5. n \in 0 .. 255 => p8 = 0 /\ p9 = 0 /\ p10 = 0 /\ p11 = 0 /\ p12 = 0
  BY <1>n, SMT
<1>6. /\ BitsOf(n)[8] \in {0, 1} /\ BitsOf(n)[9] \in {0, 1}
      /\ BitsOf(n)[10] \in {0, 1} /\ BitsOf(n)[11] \in {0, 1}
  BY <1>n, Digit
<1> HIDE DEF p8, p9, p10, p11, p12
<1>7. ASSUME \A b \in 8 .. 11 : BitsOf(n)[b] = 0 PROVE p8 = 0
  <2>1. BitsOf(n)[8] = 0 /\ BitsOf(n)[9] = 0 /\ BitsOf(n)[10] = 0 /\ BitsOf(n)[11] = 0
    BY <1>7
  <2> QED BY <1>1, <1>2, <1>3, <2>1
<1>8. ASSUME n \in 0 .. 255 PROVE \A b \in 8 .. 11 : BitsOf(n)[b] = 0
  <2>1. BitsOf(n)[8] = 0 /\ BitsOf(n)[9] = 0 /\ BitsOf(n)[10] = 0 /\ BitsOf(n)[11] = 0
    BY <1>1, <1>2, <1>5, <1>6, <1>8
  <2>2. \A b \in 8 .. 11 : b = 8 \/ b = 9 \/ b = 10 \/ b = 11
    OBVIOUS
  <2> QED BY <2>1, <2>2
<1> QED BY <1>4, <1>7, <1>8

\* The fields that the fences and calls want empty.
LEMMA EmptyFields ==
  ASSUME NEW ins \in Encodable, Majors[ins.major].format = "I"
  PROVE  LET w == Assemble(ins)
         IN /\ (\A b \in 7 .. 11 : w[b] = 0) <=> ins.rd = 0
            /\ (\A b \in 12 .. 14 : w[b] = 0) <=> ins.f3 = 0
            /\ (\A b \in 15 .. 19 : w[b] = 0) <=> ins.rs1 = 0
            /\ (\A b \in 20 .. 31 : w[b] = 0) <=> ins.imm = 0
<1> DEFINE w == Assemble(ins)
           rd == ins.rd
           f3 == ins.f3
           rs1 == ins.rs1
           imm == ins.imm
<1>1. rd \in 0 .. 31 /\ f3 \in 0 .. 7 /\ rs1 \in 0 .. 31 /\ imm \in Twelve
  BY SMTT(30) DEF Encodable, Fits, Twelve
<1>2. /\ \A b \in 7 .. 11 : w[b] = BitsOf(rd)[b - 7]
      /\ \A b \in 12 .. 14 : w[b] = BitsOf(f3)[b - 12]
      /\ \A b \in 15 .. 19 : w[b] = BitsOf(rs1)[b - 15]
      /\ \A b \in 20 .. 31 : w[b] = BitsOf(imm)[b - 20]
  BY AssembledBits
<1> HIDE DEF w, rd, f3, rs1, imm
<1>3. ASSUME NEW n \in 0 .. 31 PROVE (\A b \in 0 .. 4 : BitsOf(n)[b] = 0) <=> n = 0
  <2>1. ASSUME n = 0 PROVE \A b \in 0 .. 4 : BitsOf(n)[b] = 0
    BY <2>1, ZeroBits
  <2>2. ASSUME \A b \in 0 .. 4 : BitsOf(n)[b] = 0 PROVE n = 0
    <3>1. SameDigits(n, 0, 4)
      BY <2>2, ZeroBits DEF SameDigits
    <3> QED BY <3>1, Digits
  <2> QED BY <2>1, <2>2
<1>4. ASSUME NEW n \in 0 .. 7 PROVE (\A b \in 0 .. 2 : BitsOf(n)[b] = 0) <=> n = 0
  <2>1. ASSUME n = 0 PROVE \A b \in 0 .. 2 : BitsOf(n)[b] = 0
    BY <2>1, ZeroBits
  <2>2. ASSUME \A b \in 0 .. 2 : BitsOf(n)[b] = 0 PROVE n = 0
    <3>1. SameDigits(n, 0, 2)
      BY <2>2, ZeroBits DEF SameDigits
    <3> QED BY <3>1, Digits
  <2> QED BY <2>1, <2>2
<1>5. (\A b \in 7 .. 11 : w[b] = 0) <=> rd = 0
  <2>1. \A b \in 0 .. 4 : b + 7 \in 7 .. 11 /\ (b + 7) - 7 = b
    OBVIOUS
  <2>2. \A b \in 7 .. 11 : b - 7 \in 0 .. 4
    OBVIOUS
  <2>3. (\A b \in 7 .. 11 : w[b] = 0) <=> \A b \in 0 .. 4 : BitsOf(rd)[b] = 0
    BY <1>2, <2>1, <2>2
  <2> QED BY <1>1, <1>3, <2>3
<1>6. (\A b \in 12 .. 14 : w[b] = 0) <=> f3 = 0
  <2>1. \A b \in 0 .. 2 : b + 12 \in 12 .. 14 /\ (b + 12) - 12 = b
    OBVIOUS
  <2>2. \A b \in 12 .. 14 : b - 12 \in 0 .. 2
    OBVIOUS
  <2>3. (\A b \in 12 .. 14 : w[b] = 0) <=> \A b \in 0 .. 2 : BitsOf(f3)[b] = 0
    BY <1>2, <2>1, <2>2
  <2> QED BY <1>1, <1>4, <2>3
<1>7. (\A b \in 15 .. 19 : w[b] = 0) <=> rs1 = 0
  <2>1. \A b \in 0 .. 4 : b + 15 \in 15 .. 19 /\ (b + 15) - 15 = b
    OBVIOUS
  <2>2. \A b \in 15 .. 19 : b - 15 \in 0 .. 4
    OBVIOUS
  <2>3. (\A b \in 15 .. 19 : w[b] = 0) <=> \A b \in 0 .. 4 : BitsOf(rs1)[b] = 0
    BY <1>2, <2>1, <2>2
  <2> QED BY <1>1, <1>3, <2>3
<1>8. (\A b \in 20 .. 31 : w[b] = 0) <=> imm = 0
  <2>1. \A b \in 0 .. 11 : b + 20 \in 20 .. 31 /\ (b + 20) - 20 = b
    OBVIOUS
  <2>2. \A b \in 20 .. 31 : b - 20 \in 0 .. 11
    OBVIOUS
  <2>3. (\A b \in 20 .. 31 : w[b] = 0) <=> \A b \in 0 .. 11 : BitsOf(imm)[b] = 0
    BY <1>2, <2>1, <2>2
  <2> QED BY <1>1, ZeroIs, <2>3
<1> QED BY <1>5, <1>6, <1>7, <1>8 DEF w, rd, f3, rs1, imm

\* An opcode with zeros above it.
LEMMA OpcodeAlone ==
  ASSUME NEW w, NEW o \in 0 .. 127, NEW h \in 7 .. 31
  PROVE  Has(w, <<h, 0, o>>) <=> Has(w, <<6, 0, o>>) /\ \A b \in 7 .. h : w[b] = 0
<1>1. Has(w, <<h, 0, o>>) <=> \A b \in 0 .. h : w[b] = BitsOf(o)[b]
  BY DEF Has
<1>2. Has(w, <<6, 0, o>>) <=> \A b \in 0 .. 6 : w[b] = BitsOf(o)[b]
  BY DEF Has
<1>3. \A b \in 7 .. h : BitsOf(o)[b] = 0 /\ b \in 0 .. h
  <2>1. \A b \in 7 .. h : b \in 7 .. 31 /\ b \in 0 .. h
    OBVIOUS
  <2> QED BY <2>1, OpcodeHighBits, Zenon
<1>4. \A b \in 0 .. h : b \in 0 .. 6 \/ b \in 7 .. h
  OBVIOUS
<1>5. \A b \in 0 .. 6 : b \in 0 .. h
  OBVIOUS
<1> QED BY <1>1, <1>2, <1>3, <1>4, <1>5, Zenon

\* The other fields that the fences and calls fix.
LEMMA FenceFields ==
  ASSUME NEW ins \in Encodable, Majors[ins.major].format = "I"
  PROVE  LET w == Assemble(ins)
         IN /\ Has(w, <<31, 28, 0>>) <=> ins.imm \in 0 .. 255
            /\ Has(w, <<31, 20, 1>>) <=> ins.imm = 1
            /\ Has(w, <<31, 12, 1>>) <=> ins.f3 = 1 /\ ins.rs1 = 0 /\ ins.imm = 0
<1> DEFINE w == Assemble(ins)
           imm == ins.imm
<1>1. imm \in Twelve
  BY SMTT(30) DEF Encodable, Fits, Twelve
<1>2. \A b \in 20 .. 31 : w[b] = BitsOf(imm)[b - 20]
  BY AssembledBits
<1>3. Has(w, <<31, 12, 1>>) <=> ins.f3 = 1 /\ ins.rs1 = 0 /\ ins.imm = 0
  <2>1. Has(w, <<14, 12, 1>>) <=> ins.f3 = 1
    BY Funct3Is
  <2>2. /\ (\A b \in 15 .. 19 : w[b] = 0) <=> ins.rs1 = 0
        /\ (\A b \in 20 .. 31 : w[b] = 0) <=> ins.imm = 0
    BY EmptyFields
  <2>3. \A b \in 15 .. 31 : BitsOf(1)[b - 12] = 0
    <3>1. \A b \in 17 .. 31 : BitsOf(1)[b - 12] = 0
      BY RegisterHighBits
    <3>2. BitsOf(1)[15 - 12] = 0 /\ BitsOf(1)[16 - 12] = 0
      BY OneBits
    <3>3. \A b \in 15 .. 31 : b = 15 \/ b = 16 \/ b \in 17 .. 31
      OBVIOUS
    <3> QED BY <3>1, <3>2, <3>3
  <2>4. Has(w, <<14, 12, 1>>) <=> \A b \in 12 .. 14 : w[b] = BitsOf(1)[b - 12]
    BY DEF Has
  <2>5. Has(w, <<31, 12, 1>>) <=> \A b \in 12 .. 31 : w[b] = BitsOf(1)[b - 12]
    BY DEF Has
  <2>6. \A b \in 12 .. 31 : b \in 12 .. 14 \/ b \in 15 .. 31
    OBVIOUS
  <2>7. \A b \in 15 .. 31 : (b \in 15 .. 19 \/ b \in 20 .. 31) /\ b \in 12 .. 31
    OBVIOUS
  <2>8. \A b \in 12 .. 14 : b \in 12 .. 31
    OBVIOUS
  <2>9. (\A b \in 15 .. 19 : b \in 15 .. 31) /\ \A b \in 20 .. 31 : b \in 15 .. 31
    OBVIOUS
  <2> HIDE DEF w
  <2>10. Has(w, <<31, 12, 1>>) <=> Has(w, <<14, 12, 1>>) /\ \A b \in 15 .. 31 : w[b] = 0
    <3>1. ASSUME Has(w, <<31, 12, 1>>)
          PROVE  Has(w, <<14, 12, 1>>) /\ \A b \in 15 .. 31 : w[b] = 0
      BY <3>1, <2>3, <2>4, <2>5, <2>7, <2>8
    <3>2. ASSUME Has(w, <<14, 12, 1>>), \A b \in 15 .. 31 : w[b] = 0
          PROVE  Has(w, <<31, 12, 1>>)
      BY <3>2, <2>3, <2>4, <2>5, <2>6
    <3> QED BY <3>1, <3>2
  <2>11. (\A b \in 15 .. 31 : w[b] = 0) <=> ins.rs1 = 0 /\ ins.imm = 0
    BY <2>2, <2>7, <2>9, Zenon
  <2> QED BY <2>1, <2>10, <2>11
<1> HIDE DEF w, imm
<1>4. Has(w, <<31, 28, 0>>) <=> imm \in 0 .. 255
  <2>1. Has(w, <<31, 28, 0>>) <=> \A b \in 28 .. 31 : w[b] = BitsOf(0)[b - 28]
    BY DEF Has
  <2>2. \A b \in 8 .. 11 : b + 20 \in 28 .. 31 /\ (b + 20) - 20 = b /\ b + 20 \in 20 .. 31
    OBVIOUS
  <2>3. \A b \in 28 .. 31 : b - 20 \in 8 .. 11 /\ BitsOf(0)[b - 28] = 0 /\ b \in 20 .. 31
    BY ZeroBits
  <2>4. (\A b \in 28 .. 31 : w[b] = BitsOf(0)[b - 28]) <=> \A b \in 8 .. 11 : BitsOf(imm)[b] = 0
    BY <1>2, <2>2, <2>3
  <2> QED BY <1>1, <2>1, <2>4, FenceIs
<1>5. Has(w, <<31, 20, 1>>) <=> imm = 1
  <2>1. Has(w, <<31, 20, 1>>) <=> \A b \in 20 .. 31 : w[b] = BitsOf(1)[b - 20]
    BY DEF Has
  <2>2. \A b \in 0 .. 11 : b + 20 \in 20 .. 31 /\ (b + 20) - 20 = b
    OBVIOUS
  <2>3. \A b \in 20 .. 31 : b - 20 \in 0 .. 11
    OBVIOUS
  <2>4. (\A b \in 20 .. 31 : w[b] = BitsOf(1)[b - 20]) <=> \A b \in 0 .. 11 : BitsOf(imm)[b] = BitsOf(1)[b]
    BY <1>2, <2>2, <2>3
  <2> QED BY <1>1, <2>1, <2>4, OneIs
<1> QED BY <1>3, <1>4, <1>5 DEF w, imm

\* An opcode belongs to one major.
LEMMA MajorIs ==
  ASSUME NEW major \in DOMAIN Majors
  PROVE  /\ Majors[major].opcode = 23 <=> major = "auipc"
         /\ Majors[major].opcode = 55 <=> major = "lui"
         /\ Majors[major].opcode = 111 <=> major = "jal"
         /\ Majors[major].opcode = 103 <=> major = "jalr"
         /\ Majors[major].opcode = 99 <=> major = "branch"
         /\ Majors[major].opcode = 3 <=> major = "load"
         /\ Majors[major].opcode = 35 <=> major = "store"
         /\ Majors[major].opcode = 19 <=> major = "opimm"
         /\ Majors[major].opcode = 51 <=> major = "arith"
         /\ Majors[major].opcode = 15 <=> major = "misc"
         /\ Majors[major].opcode = 115 <=> major = "system"
  BY DEF Majors

\* Only the three jumps and uppers have neither funct3 nor rs1.
LEMMA FormatIs ==
  ASSUME NEW major \in DOMAIN Majors
  PROVE  /\ major \in {"jalr", "load", "opimm", "misc", "system"} => Majors[major].format = "I"
         /\ major = "arith" => Majors[major].format = "R"
         /\ major \in {"branch", "store"} => Majors[major].format \in {"S", "B"}
  BY DEF Majors

\* What a pattern of an opcode recognises.
LEMMA OpcodeRow ==
  ASSUME NEW ins \in Encodable, NEW func, NEW o \in 0 .. 127
  PROVE  HasAll(Assemble(ins), OfOpcode(func, o)) <=> Majors[ins.major].opcode = o
<1>1. HasAll(Assemble(ins), OfOpcode(func, o)) <=> Has(Assemble(ins), <<6, 0, o>>)
  BY Zenon DEF HasAll, OfOpcode, Row
<1> QED BY <1>1, OpcodeIs, Zenon

\* What a pattern of an opcode and funct3 recognises.
LEMMA Funct3Row ==
  ASSUME NEW ins \in Encodable, NEW func, NEW o \in {103, 99, 3, 35, 19, 115}, NEW f3 \in 0 .. 7
  PROVE  HasAll(Assemble(ins), OfFunct3(func, f3, o)) <=> Majors[ins.major].opcode = o /\ ins.f3 = f3
<1> DEFINE w == Assemble(ins)
           c == Majors[ins.major].opcode
           format == Majors[ins.major].format
<1>1. c \in {103, 99, 3, 35, 19, 115} => format \notin {"U", "J"}
  <2>1. ins.major \in DOMAIN Majors
    BY DEF Encodable
  <2> QED BY <2>1 DEF Majors
<1>2. o \in 0 .. 127
  OBVIOUS
<1>3. Has(w, <<6, 0, o>>) <=> c = o
  <2>1. \A p \in 0 .. 127 : Has(w, <<6, 0, p>>) <=> c = p
    BY OpcodeIs, Zenon
  <2> HIDE DEF w, c
  <2> QED BY <1>2, <2>1, Zenon
<1>4. format \notin {"U", "J"} => (Has(w, <<14, 12, f3>>) <=> ins.f3 = f3)
  BY Funct3Is
<1>5. HasAll(w, OfFunct3(func, f3, o)) <=> Has(w, <<14, 12, f3>>) /\ Has(w, <<6, 0, o>>)
  BY Zenon DEF HasAll, OfFunct3, Row
<1> HIDE DEF w, c, format
<1>6. c = o => format \notin {"U", "J"}
  BY <1>1
<1>7. HasAll(w, OfFunct3(func, f3, o)) <=> c = o /\ ins.f3 = f3
  BY <1>3, <1>4, <1>5, <1>6, Zenon
<1> QED BY <1>7 DEF w, c

\* What a pattern of a register operation recognises.
LEMMA RegisterRow ==
  ASSUME NEW ins \in Encodable, NEW func, NEW f7 \in 0 .. 127, NEW f3 \in 0 .. 7
  PROVE  HasAll(Assemble(ins), OfFunct7(func, f7, f3, 51)) <=>
           ins.major = "arith" /\ ins.f3 = f3 /\ ins.f7 = f7
<1> DEFINE w == Assemble(ins)
           c == Majors[ins.major].opcode
           format == Majors[ins.major].format
<1>1. c = 51 => format = "R" /\ format \notin {"U", "J"}
  <2>1. ins.major \in DOMAIN Majors
    BY DEF Encodable
  <2> QED BY <2>1 DEF Majors
<1>2. 51 \in 0 .. 127
  OBVIOUS
<1>3. Has(w, <<6, 0, 51>>) <=> c = 51
  BY <1>2, OpcodeIs
<1>4. format \notin {"U", "J"} => (Has(w, <<14, 12, f3>>) <=> ins.f3 = f3)
  BY Funct3Is
<1>5. format = "R" => (Has(w, <<31, 25, f7>>) <=> ins.f7 = f7)
  BY Funct7Is, Zenon
<1>6. HasAll(w, OfFunct7(func, f7, f3, 51)) <=>
        Has(w, <<31, 25, f7>>) /\ Has(w, <<14, 12, f3>>) /\ Has(w, <<6, 0, 51>>)
  BY Zenon DEF HasAll, OfFunct7, Row
<1> HIDE DEF w, c, format
<1>7. HasAll(w, OfFunct7(func, f7, f3, 51)) <=> c = 51 /\ ins.f3 = f3 /\ ins.f7 = f7
  BY <1>1, <1>3, <1>4, <1>5, <1>6, Zenon
<1>8. c = 51 <=> ins.major = "arith"
  <2>1. ins.major \in DOMAIN Majors
    BY DEF Encodable
  <2> QED BY <2>1, MajorIs DEF c
<1>9. HasAll(w, OfFunct7(func, f7, f3, 51)) <=> ins.major = "arith" /\ ins.f3 = f3 /\ ins.f7 = f7
  BY <1>7, <1>8, Zenon
<1> QED BY <1>9 DEF w

\* What a pattern of a shift by an immediate recognises.
LEMMA ShiftRow ==
  ASSUME NEW ins \in Encodable, NEW func, NEW f7 \in 0 .. 63, NEW f3 \in 0 .. 7
  PROVE  HasAll(Assemble(ins), OfFunct7(func, f7, f3, 19)) <=>
           Majors[ins.major].opcode = 19 /\ ins.f3 = f3 /\ ins.imm \div 32 = f7
<1> DEFINE w == Assemble(ins)
           c == Majors[ins.major].opcode
           format == Majors[ins.major].format
           high == ins.imm \div 32
<1>1. c = 19 => format = "I" /\ format \notin {"U", "J"}
  <2>1. ins.major \in DOMAIN Majors
    BY DEF Encodable
  <2> QED BY <2>1 DEF Majors
<1>2. 19 \in 0 .. 127
  OBVIOUS
<1>3. Has(w, <<6, 0, 19>>) <=> c = 19
  BY <1>2, OpcodeIs, Zenon
<1>4. format \notin {"U", "J"} => (Has(w, <<14, 12, f3>>) <=> ins.f3 = f3)
  BY Funct3Is
<1>5. format = "I" => (Has(w, <<31, 25, f7>>) <=> high = f7)
  BY HighIs, Zenon
<1>6. HasAll(w, OfFunct7(func, f7, f3, 19)) <=>
        Has(w, <<31, 25, f7>>) /\ Has(w, <<14, 12, f3>>) /\ Has(w, <<6, 0, 19>>)
  BY Zenon DEF HasAll, OfFunct7, Row
<1> HIDE DEF w, c, format, high
<1>7. HasAll(w, OfFunct7(func, f7, f3, 19)) <=> c = 19 /\ ins.f3 = f3 /\ high = f7
  BY <1>1, <1>3, <1>4, <1>5, <1>6, Zenon
<1> QED BY <1>7 DEF w, c, high

\* What the patterns of the fences and calls recognise.
LEMMA CallIs ==
  ASSUME NEW ins \in Encodable, NEW func
  PROVE  LET w == Assemble(ins)
             empty == ins.rd = 0 /\ ins.rs1 = 0
         IN /\ HasAll(w, Row(func, {<<31, 28, 0>>, <<19, 0, 15>>})) <=>
                 ins.major = "misc" /\ ins.f3 = 0 /\ empty /\ ins.imm \in 0 .. 255
            /\ HasAll(w, Row(func, {<<31, 12, 1>>, <<11, 0, 15>>})) <=>
                 ins.major = "misc" /\ ins.f3 = 1 /\ empty /\ ins.imm = 0
            /\ HasAll(w, Row(func, {<<31, 0, 115>>})) <=>
                 ins.major = "system" /\ ins.f3 = 0 /\ empty /\ ins.imm = 0
            /\ HasAll(w, Row(func, {<<31, 20, 1>>, <<19, 0, 115>>})) <=>
                 ins.major = "system" /\ ins.f3 = 0 /\ empty /\ ins.imm = 1
<1> DEFINE w == Assemble(ins)
           format == Majors[ins.major].format
           Empty(l, h) == \A b \in l .. h : w[b] = 0
<1>0. ins.major \in DOMAIN Majors
  BY DEF Encodable
<1>1. /\ Has(w, <<6, 0, 15>>) <=> ins.major = "misc"
      /\ Has(w, <<6, 0, 115>>) <=> ins.major = "system"
  <2>1. /\ Has(w, <<6, 0, 15>>) <=> Majors[ins.major].opcode = 15
        /\ Has(w, <<6, 0, 115>>) <=> Majors[ins.major].opcode = 115
    <3>1. 15 \in 0 .. 127 /\ 115 \in 0 .. 127
      OBVIOUS
    <3>2. \A o \in 0 .. 127 : Has(w, <<6, 0, o>>) <=> Majors[ins.major].opcode = o
      BY OpcodeIs, Zenon
    <3> HIDE DEF w
    <3> QED BY <3>1, <3>2
  <2>2. /\ Majors[ins.major].opcode = 15 <=> ins.major = "misc"
        /\ Majors[ins.major].opcode = 115 <=> ins.major = "system"
    BY <1>0, MajorIs
  <2> QED BY <2>1, <2>2
<1>2. ins.major \in {"misc", "system"} => format = "I"
  BY <1>0, FormatIs
<1>3. format = "I" => /\ Empty(7, 11) <=> ins.rd = 0
                      /\ Empty(12, 14) <=> ins.f3 = 0
                      /\ Empty(15, 19) <=> ins.rs1 = 0
                      /\ Empty(20, 31) <=> ins.imm = 0
  BY EmptyFields
<1>4. format = "I" => /\ Has(w, <<31, 28, 0>>) <=> ins.imm \in 0 .. 255
                      /\ Has(w, <<31, 20, 1>>) <=> ins.imm = 1
                      /\ Has(w, <<31, 12, 1>>) <=> ins.f3 = 1 /\ ins.rs1 = 0 /\ ins.imm = 0
  BY FenceFields
<1>5. /\ Has(w, <<19, 0, 15>>) <=> Has(w, <<6, 0, 15>>) /\ Empty(7, 19)
      /\ Has(w, <<11, 0, 15>>) <=> Has(w, <<6, 0, 15>>) /\ Empty(7, 11)
      /\ Has(w, <<31, 0, 115>>) <=> Has(w, <<6, 0, 115>>) /\ Empty(7, 31)
      /\ Has(w, <<19, 0, 115>>) <=> Has(w, <<6, 0, 115>>) /\ Empty(7, 19)
  <2>1. 15 \in 0 .. 127 /\ 115 \in 0 .. 127 /\ 19 \in 7 .. 31 /\ 11 \in 7 .. 31 /\ 31 \in 7 .. 31
    OBVIOUS
  <2> QED BY <2>1, OpcodeAlone, Zenon
<1>6. /\ Empty(7, 19) <=> Empty(7, 11) /\ Empty(12, 14) /\ Empty(15, 19)
      /\ Empty(7, 31) <=> Empty(7, 19) /\ Empty(20, 31)
  OBVIOUS
<1>7. /\ HasAll(w, Row(func, {<<31, 28, 0>>, <<19, 0, 15>>})) <=> Has(w, <<31, 28, 0>>) /\ Has(w, <<19, 0, 15>>)
      /\ HasAll(w, Row(func, {<<31, 12, 1>>, <<11, 0, 15>>})) <=> Has(w, <<31, 12, 1>>) /\ Has(w, <<11, 0, 15>>)
      /\ HasAll(w, Row(func, {<<31, 0, 115>>})) <=> Has(w, <<31, 0, 115>>)
      /\ HasAll(w, Row(func, {<<31, 20, 1>>, <<19, 0, 115>>})) <=> Has(w, <<31, 20, 1>>) /\ Has(w, <<19, 0, 115>>)
  BY Zenon DEF HasAll, Row
<1> HIDE DEF w, format, Empty
<1>8. HasAll(w, Row(func, {<<31, 28, 0>>, <<19, 0, 15>>})) <=>
        ins.major = "misc" /\ ins.f3 = 0 /\ (ins.rd = 0 /\ ins.rs1 = 0) /\ ins.imm \in 0 .. 255
  BY <1>1, <1>2, <1>3, <1>4, <1>5, <1>6, <1>7
<1>9. HasAll(w, Row(func, {<<31, 12, 1>>, <<11, 0, 15>>})) <=>
        ins.major = "misc" /\ ins.f3 = 1 /\ (ins.rd = 0 /\ ins.rs1 = 0) /\ ins.imm = 0
  BY <1>1, <1>2, <1>3, <1>4, <1>5, <1>7
<1>10. HasAll(w, Row(func, {<<31, 0, 115>>})) <=>
         ins.major = "system" /\ ins.f3 = 0 /\ (ins.rd = 0 /\ ins.rs1 = 0) /\ ins.imm = 0
  BY <1>1, <1>2, <1>3, <1>5, <1>6, <1>7
<1>11. HasAll(w, Row(func, {<<31, 20, 1>>, <<19, 0, 115>>})) <=>
         ins.major = "system" /\ ins.f3 = 0 /\ (ins.rd = 0 /\ ins.rs1 = 0) /\ ins.imm = 1
  BY <1>1, <1>2, <1>3, <1>4, <1>5, <1>6, <1>7
<1> QED BY <1>8, <1>9, <1>10, <1>11, Zenon DEF w


\* The rows of the table that recognise a jump.
LEMMA JumpsAre ==
  ASSUME NEW ins \in Encodable
  PROVE  LET w == Assemble(ins)
         IN /\ HasAll(w, Jumps[1]) <=> ins.major = "auipc"
            /\ HasAll(w, Jumps[2]) <=> ins.major = "lui"
            /\ HasAll(w, Jumps[3]) <=> ins.major = "jal"
            /\ HasAll(w, Jumps[4]) <=> ins.major = "jalr" /\ ins.f3 = 0
            /\ HasAll(w, Jumps[5]) <=> ins.major = "branch" /\ ins.f3 = 0
            /\ HasAll(w, Jumps[6]) <=> ins.major = "branch" /\ ins.f3 = 1
            /\ HasAll(w, Jumps[7]) <=> ins.major = "branch" /\ ins.f3 = 4
            /\ HasAll(w, Jumps[8]) <=> ins.major = "branch" /\ ins.f3 = 5
            /\ HasAll(w, Jumps[9]) <=> ins.major = "branch" /\ ins.f3 = 6
            /\ HasAll(w, Jumps[10]) <=> ins.major = "branch" /\ ins.f3 = 7
<1> DEFINE w == Assemble(ins)
<1>1. /\ Jumps[1] = OfOpcode("auipc", 23)
      /\ Jumps[2] = OfOpcode("lui", 55)
      /\ Jumps[3] = OfOpcode("jal", 111)
      /\ Jumps[4] = OfFunct3("jalr", 0, 103)
      /\ Jumps[5] = OfFunct3("beq", 0, 99)
      /\ Jumps[6] = OfFunct3("bne", 1, 99)
      /\ Jumps[7] = OfFunct3("blt", 4, 99)
      /\ Jumps[8] = OfFunct3("bge", 5, 99)
      /\ Jumps[9] = OfFunct3("bltu", 6, 99)
      /\ Jumps[10] = OfFunct3("bgeu", 7, 99)
  BY Zenon DEF Jumps
<1>2. ins.major \in DOMAIN Majors
  BY DEF Encodable
<1>3. \A func : HasAll(w, OfOpcode(func, 23)) <=> ins.major = "auipc"
  <2>1. Majors[ins.major].opcode = 23 <=> ins.major = "auipc"
    BY <1>2, MajorIs
  <2>2. 23 \in 0 .. 127
    OBVIOUS
  <2>3. \A func : HasAll(w, OfOpcode(func, 23)) <=> Majors[ins.major].opcode = 23
    BY <2>2, OpcodeRow
  <2> QED BY <2>1, <2>3, Zenon
<1>4. \A func : HasAll(w, OfOpcode(func, 55)) <=> ins.major = "lui"
  <2>1. Majors[ins.major].opcode = 55 <=> ins.major = "lui"
    BY <1>2, MajorIs
  <2>2. 55 \in 0 .. 127
    OBVIOUS
  <2>3. \A func : HasAll(w, OfOpcode(func, 55)) <=> Majors[ins.major].opcode = 55
    BY <2>2, OpcodeRow
  <2> QED BY <2>1, <2>3, Zenon
<1>5. \A func : HasAll(w, OfOpcode(func, 111)) <=> ins.major = "jal"
  <2>1. Majors[ins.major].opcode = 111 <=> ins.major = "jal"
    BY <1>2, MajorIs
  <2>2. 111 \in 0 .. 127
    OBVIOUS
  <2>3. \A func : HasAll(w, OfOpcode(func, 111)) <=> Majors[ins.major].opcode = 111
    BY <2>2, OpcodeRow
  <2> QED BY <2>1, <2>3, Zenon
<1>6. \A func : \A f3 \in 0 .. 7 : HasAll(w, OfFunct3(func, f3, 103)) <=> ins.major = "jalr" /\ ins.f3 = f3
  <2>1. Majors[ins.major].opcode = 103 <=> ins.major = "jalr"
    BY <1>2, MajorIs
  <2>2. 103 \in {103, 99, 3, 35, 19, 115}
    OBVIOUS
  <2>3. \A func : \A f3 \in 0 .. 7 :
          HasAll(w, OfFunct3(func, f3, 103)) <=> Majors[ins.major].opcode = 103 /\ ins.f3 = f3
    BY <2>2, Funct3Row
  <2> HIDE DEF w
  <2> QED BY <2>1, <2>3
<1>7. \A func : \A f3 \in 0 .. 7 : HasAll(w, OfFunct3(func, f3, 99)) <=> ins.major = "branch" /\ ins.f3 = f3
  <2>1. Majors[ins.major].opcode = 99 <=> ins.major = "branch"
    BY <1>2, MajorIs
  <2>2. 99 \in {103, 99, 3, 35, 19, 115}
    OBVIOUS
  <2>3. \A func : \A f3 \in 0 .. 7 :
          HasAll(w, OfFunct3(func, f3, 99)) <=> Majors[ins.major].opcode = 99 /\ ins.f3 = f3
    BY <2>2, Funct3Row
  <2> HIDE DEF w
  <2> QED BY <2>1, <2>3
<1> HIDE DEF w
<1>8. HasAll(w, Jumps[1]) <=> ins.major = "auipc"
  BY <1>1, <1>3
<1>9. HasAll(w, Jumps[2]) <=> ins.major = "lui"
  BY <1>1, <1>4
<1>10. HasAll(w, Jumps[3]) <=> ins.major = "jal"
  BY <1>1, <1>5
<1>11. HasAll(w, Jumps[4]) <=> ins.major = "jalr" /\ ins.f3 = 0
  BY <1>1, <1>6
<1>12. HasAll(w, Jumps[5]) <=> ins.major = "branch" /\ ins.f3 = 0
  BY <1>1, <1>7
<1>13. HasAll(w, Jumps[6]) <=> ins.major = "branch" /\ ins.f3 = 1
  BY <1>1, <1>7
<1>14. HasAll(w, Jumps[7]) <=> ins.major = "branch" /\ ins.f3 = 4
  BY <1>1, <1>7
<1>15. HasAll(w, Jumps[8]) <=> ins.major = "branch" /\ ins.f3 = 5
  BY <1>1, <1>7
<1>16. HasAll(w, Jumps[9]) <=> ins.major = "branch" /\ ins.f3 = 6
  BY <1>1, <1>7
<1>17. HasAll(w, Jumps[10]) <=> ins.major = "branch" /\ ins.f3 = 7
  BY <1>1, <1>7
<1> QED BY <1>8, <1>9, <1>10, <1>11, <1>12, <1>13, <1>14, <1>15, <1>16, <1>17, Zenon DEF w

\* The rows of the table that recognise a load or store.
LEMMA AccessesAre ==
  ASSUME NEW ins \in Encodable
  PROVE  LET w == Assemble(ins)
         IN /\ HasAll(w, Accesses[1]) <=> ins.major = "load" /\ ins.f3 = 0
            /\ HasAll(w, Accesses[2]) <=> ins.major = "load" /\ ins.f3 = 1
            /\ HasAll(w, Accesses[3]) <=> ins.major = "load" /\ ins.f3 = 2
            /\ HasAll(w, Accesses[4]) <=> ins.major = "load" /\ ins.f3 = 4
            /\ HasAll(w, Accesses[5]) <=> ins.major = "load" /\ ins.f3 = 5
            /\ HasAll(w, Accesses[6]) <=> ins.major = "store" /\ ins.f3 = 0
            /\ HasAll(w, Accesses[7]) <=> ins.major = "store" /\ ins.f3 = 1
            /\ HasAll(w, Accesses[8]) <=> ins.major = "store" /\ ins.f3 = 2
<1> DEFINE w == Assemble(ins)
<1>1. /\ Accesses[1] = OfFunct3("lb", 0, 3)
      /\ Accesses[2] = OfFunct3("lh", 1, 3)
      /\ Accesses[3] = OfFunct3("lw", 2, 3)
      /\ Accesses[4] = OfFunct3("lbu", 4, 3)
      /\ Accesses[5] = OfFunct3("lhu", 5, 3)
      /\ Accesses[6] = OfFunct3("sb", 0, 35)
      /\ Accesses[7] = OfFunct3("sh", 1, 35)
      /\ Accesses[8] = OfFunct3("sw", 2, 35)
  BY Zenon DEF Accesses
<1>2. ins.major \in DOMAIN Majors
  BY DEF Encodable
<1>3. \A func : \A f3 \in 0 .. 7 : HasAll(w, OfFunct3(func, f3, 3)) <=> ins.major = "load" /\ ins.f3 = f3
  <2>1. Majors[ins.major].opcode = 3 <=> ins.major = "load"
    BY <1>2, MajorIs
  <2>2. 3 \in {103, 99, 3, 35, 19, 115}
    OBVIOUS
  <2>3. \A func : \A f3 \in 0 .. 7 :
          HasAll(w, OfFunct3(func, f3, 3)) <=> Majors[ins.major].opcode = 3 /\ ins.f3 = f3
    BY <2>2, Funct3Row
  <2> HIDE DEF w
  <2> QED BY <2>1, <2>3
<1>4. \A func : \A f3 \in 0 .. 7 : HasAll(w, OfFunct3(func, f3, 35)) <=> ins.major = "store" /\ ins.f3 = f3
  <2>1. Majors[ins.major].opcode = 35 <=> ins.major = "store"
    BY <1>2, MajorIs
  <2>2. 35 \in {103, 99, 3, 35, 19, 115}
    OBVIOUS
  <2>3. \A func : \A f3 \in 0 .. 7 :
          HasAll(w, OfFunct3(func, f3, 35)) <=> Majors[ins.major].opcode = 35 /\ ins.f3 = f3
    BY <2>2, Funct3Row
  <2> HIDE DEF w
  <2> QED BY <2>1, <2>3
<1> HIDE DEF w
<1>5. HasAll(w, Accesses[1]) <=> ins.major = "load" /\ ins.f3 = 0
  BY <1>1, <1>3
<1>6. HasAll(w, Accesses[2]) <=> ins.major = "load" /\ ins.f3 = 1
  BY <1>1, <1>3
<1>7. HasAll(w, Accesses[3]) <=> ins.major = "load" /\ ins.f3 = 2
  BY <1>1, <1>3
<1>8. HasAll(w, Accesses[4]) <=> ins.major = "load" /\ ins.f3 = 4
  BY <1>1, <1>3
<1>9. HasAll(w, Accesses[5]) <=> ins.major = "load" /\ ins.f3 = 5
  BY <1>1, <1>3
<1>10. HasAll(w, Accesses[6]) <=> ins.major = "store" /\ ins.f3 = 0
  BY <1>1, <1>4
<1>11. HasAll(w, Accesses[7]) <=> ins.major = "store" /\ ins.f3 = 1
  BY <1>1, <1>4
<1>12. HasAll(w, Accesses[8]) <=> ins.major = "store" /\ ins.f3 = 2
  BY <1>1, <1>4
<1> QED BY <1>5, <1>6, <1>7, <1>8, <1>9, <1>10, <1>11, <1>12, Zenon DEF w

\* The rows of the table that recognise an operation with an immediate.
LEMMA ImmediatesAre ==
  ASSUME NEW ins \in Encodable
  PROVE  LET w == Assemble(ins)
         IN /\ HasAll(w, Immediates[1]) <=> ins.major = "opimm" /\ ins.f3 = 0
            /\ HasAll(w, Immediates[2]) <=> ins.major = "opimm" /\ ins.f3 = 2
            /\ HasAll(w, Immediates[3]) <=> ins.major = "opimm" /\ ins.f3 = 3
            /\ HasAll(w, Immediates[4]) <=> ins.major = "opimm" /\ ins.f3 = 4
            /\ HasAll(w, Immediates[5]) <=> ins.major = "opimm" /\ ins.f3 = 6
            /\ HasAll(w, Immediates[6]) <=> ins.major = "opimm" /\ ins.f3 = 7
            /\ HasAll(w, Immediates[7]) <=> ins.major = "opimm" /\ ins.f3 = 1 /\ ins.imm \div 32 = 0
            /\ HasAll(w, Immediates[8]) <=> ins.major = "opimm" /\ ins.f3 = 5 /\ ins.imm \div 32 = 0
            /\ HasAll(w, Immediates[9]) <=> ins.major = "opimm" /\ ins.f3 = 5 /\ ins.imm \div 32 = 32
<1> DEFINE w == Assemble(ins)
<1>1. /\ Immediates[1] = OfFunct3("addi", 0, 19)
      /\ Immediates[2] = OfFunct3("slti", 2, 19)
      /\ Immediates[3] = OfFunct3("sltiu", 3, 19)
      /\ Immediates[4] = OfFunct3("xori", 4, 19)
      /\ Immediates[5] = OfFunct3("ori", 6, 19)
      /\ Immediates[6] = OfFunct3("andi", 7, 19)
      /\ Immediates[7] = OfFunct7("slli", 0, 1, 19)
      /\ Immediates[8] = OfFunct7("srli", 0, 5, 19)
      /\ Immediates[9] = OfFunct7("srai", 32, 5, 19)
  BY Zenon DEF Immediates
<1>2. ins.major \in DOMAIN Majors
  BY DEF Encodable
<1>3. \A func : \A f3 \in 0 .. 7 : HasAll(w, OfFunct3(func, f3, 19)) <=> ins.major = "opimm" /\ ins.f3 = f3
  <2>1. Majors[ins.major].opcode = 19 <=> ins.major = "opimm"
    BY <1>2, MajorIs
  <2>2. 19 \in {103, 99, 3, 35, 19, 115}
    OBVIOUS
  <2>3. \A func : \A f3 \in 0 .. 7 :
          HasAll(w, OfFunct3(func, f3, 19)) <=> Majors[ins.major].opcode = 19 /\ ins.f3 = f3
    BY <2>2, Funct3Row
  <2> HIDE DEF w
  <2> QED BY <2>1, <2>3
<1>4. \A func : \A f7 \in 0 .. 63 : \A f3 \in 0 .. 7 :
        HasAll(w, OfFunct7(func, f7, f3, 19)) <=>
          ins.major = "opimm" /\ ins.f3 = f3 /\ ins.imm \div 32 = f7
  <2>1. Majors[ins.major].opcode = 19 <=> ins.major = "opimm"
    BY <1>2, MajorIs
  <2>2. \A func : \A f7 \in 0 .. 63 : \A f3 \in 0 .. 7 :
          HasAll(w, OfFunct7(func, f7, f3, 19)) <=>
            Majors[ins.major].opcode = 19 /\ ins.f3 = f3 /\ ins.imm \div 32 = f7
    BY ShiftRow
  <2> HIDE DEF w
  <2> QED BY <2>1, <2>2
<1> HIDE DEF w
<1>5. HasAll(w, Immediates[1]) <=> ins.major = "opimm" /\ ins.f3 = 0
  BY <1>1, <1>3
<1>6. HasAll(w, Immediates[2]) <=> ins.major = "opimm" /\ ins.f3 = 2
  BY <1>1, <1>3
<1>7. HasAll(w, Immediates[3]) <=> ins.major = "opimm" /\ ins.f3 = 3
  BY <1>1, <1>3
<1>8. HasAll(w, Immediates[4]) <=> ins.major = "opimm" /\ ins.f3 = 4
  BY <1>1, <1>3
<1>9. HasAll(w, Immediates[5]) <=> ins.major = "opimm" /\ ins.f3 = 6
  BY <1>1, <1>3
<1>10. HasAll(w, Immediates[6]) <=> ins.major = "opimm" /\ ins.f3 = 7
  BY <1>1, <1>3
<1>11. HasAll(w, Immediates[7]) <=> ins.major = "opimm" /\ ins.f3 = 1 /\ ins.imm \div 32 = 0
  BY <1>1, <1>4
<1>12. HasAll(w, Immediates[8]) <=> ins.major = "opimm" /\ ins.f3 = 5 /\ ins.imm \div 32 = 0
  BY <1>1, <1>4
<1>13. HasAll(w, Immediates[9]) <=> ins.major = "opimm" /\ ins.f3 = 5 /\ ins.imm \div 32 = 32
  BY <1>1, <1>4
<1> QED BY <1>5, <1>6, <1>7, <1>8, <1>9, <1>10, <1>11, <1>12, <1>13, Zenon DEF w

\* The rows of the table that recognise a register operation.
LEMMA RegistersAre ==
  ASSUME NEW ins \in Encodable
  PROVE  LET w == Assemble(ins)
         IN /\ HasAll(w, Registers[1]) <=> ins.major = "arith" /\ ins.f3 = 0 /\ ins.f7 = 0
            /\ HasAll(w, Registers[2]) <=> ins.major = "arith" /\ ins.f3 = 0 /\ ins.f7 = 32
            /\ HasAll(w, Registers[3]) <=> ins.major = "arith" /\ ins.f3 = 1 /\ ins.f7 = 0
            /\ HasAll(w, Registers[4]) <=> ins.major = "arith" /\ ins.f3 = 2 /\ ins.f7 = 0
            /\ HasAll(w, Registers[5]) <=> ins.major = "arith" /\ ins.f3 = 3 /\ ins.f7 = 0
            /\ HasAll(w, Registers[6]) <=> ins.major = "arith" /\ ins.f3 = 4 /\ ins.f7 = 0
            /\ HasAll(w, Registers[7]) <=> ins.major = "arith" /\ ins.f3 = 5 /\ ins.f7 = 0
            /\ HasAll(w, Registers[8]) <=> ins.major = "arith" /\ ins.f3 = 5 /\ ins.f7 = 32
            /\ HasAll(w, Registers[9]) <=> ins.major = "arith" /\ ins.f3 = 6 /\ ins.f7 = 0
            /\ HasAll(w, Registers[10]) <=> ins.major = "arith" /\ ins.f3 = 7 /\ ins.f7 = 0
<1> DEFINE w == Assemble(ins)
<1>1. /\ Registers[1] = OfFunct7("add", 0, 0, 51)
      /\ Registers[2] = OfFunct7("sub", 32, 0, 51)
      /\ Registers[3] = OfFunct7("sll", 0, 1, 51)
      /\ Registers[4] = OfFunct7("slt", 0, 2, 51)
      /\ Registers[5] = OfFunct7("sltu", 0, 3, 51)
      /\ Registers[6] = OfFunct7("xor", 0, 4, 51)
      /\ Registers[7] = OfFunct7("srl", 0, 5, 51)
      /\ Registers[8] = OfFunct7("sra", 32, 5, 51)
      /\ Registers[9] = OfFunct7("or", 0, 6, 51)
      /\ Registers[10] = OfFunct7("and", 0, 7, 51)
  BY Zenon DEF Registers
<1>2. ins.major \in DOMAIN Majors
  BY DEF Encodable
<1>3. \A func : \A f7 \in 0 .. 127 : \A f3 \in 0 .. 7 :
        HasAll(w, OfFunct7(func, f7, f3, 51)) <=> ins.major = "arith" /\ ins.f3 = f3 /\ ins.f7 = f7
  BY RegisterRow
<1> HIDE DEF w
<1>4. HasAll(w, Registers[1]) <=> ins.major = "arith" /\ ins.f3 = 0 /\ ins.f7 = 0
  BY <1>1, <1>3
<1>5. HasAll(w, Registers[2]) <=> ins.major = "arith" /\ ins.f3 = 0 /\ ins.f7 = 32
  BY <1>1, <1>3
<1>6. HasAll(w, Registers[3]) <=> ins.major = "arith" /\ ins.f3 = 1 /\ ins.f7 = 0
  BY <1>1, <1>3
<1>7. HasAll(w, Registers[4]) <=> ins.major = "arith" /\ ins.f3 = 2 /\ ins.f7 = 0
  BY <1>1, <1>3
<1>8. HasAll(w, Registers[5]) <=> ins.major = "arith" /\ ins.f3 = 3 /\ ins.f7 = 0
  BY <1>1, <1>3
<1>9. HasAll(w, Registers[6]) <=> ins.major = "arith" /\ ins.f3 = 4 /\ ins.f7 = 0
  BY <1>1, <1>3
<1>10. HasAll(w, Registers[7]) <=> ins.major = "arith" /\ ins.f3 = 5 /\ ins.f7 = 0
  BY <1>1, <1>3
<1>11. HasAll(w, Registers[8]) <=> ins.major = "arith" /\ ins.f3 = 5 /\ ins.f7 = 32
  BY <1>1, <1>3
<1>12. HasAll(w, Registers[9]) <=> ins.major = "arith" /\ ins.f3 = 6 /\ ins.f7 = 0
  BY <1>1, <1>3
<1>13. HasAll(w, Registers[10]) <=> ins.major = "arith" /\ ins.f3 = 7 /\ ins.f7 = 0
  BY <1>1, <1>3
<1> QED BY <1>4, <1>5, <1>6, <1>7, <1>8, <1>9, <1>10, <1>11, <1>12, <1>13, Zenon DEF w

\* The rows of the table that recognise a multiplication.
LEMMA MultiplicationsAre ==
  ASSUME NEW ins \in Encodable
  PROVE  LET w == Assemble(ins)
         IN /\ HasAll(w, Multiplications[1]) <=> ins.major = "arith" /\ ins.f3 = 0 /\ ins.f7 = 1
            /\ HasAll(w, Multiplications[2]) <=> ins.major = "arith" /\ ins.f3 = 1 /\ ins.f7 = 1
            /\ HasAll(w, Multiplications[3]) <=> ins.major = "arith" /\ ins.f3 = 2 /\ ins.f7 = 1
            /\ HasAll(w, Multiplications[4]) <=> ins.major = "arith" /\ ins.f3 = 3 /\ ins.f7 = 1
            /\ HasAll(w, Multiplications[5]) <=> ins.major = "arith" /\ ins.f3 = 4 /\ ins.f7 = 1
            /\ HasAll(w, Multiplications[6]) <=> ins.major = "arith" /\ ins.f3 = 5 /\ ins.f7 = 1
            /\ HasAll(w, Multiplications[7]) <=> ins.major = "arith" /\ ins.f3 = 6 /\ ins.f7 = 1
            /\ HasAll(w, Multiplications[8]) <=> ins.major = "arith" /\ ins.f3 = 7 /\ ins.f7 = 1
<1> DEFINE w == Assemble(ins)
<1>1. /\ Multiplications[1] = OfFunct7("mul", 1, 0, 51)
      /\ Multiplications[2] = OfFunct7("mulh", 1, 1, 51)
      /\ Multiplications[3] = OfFunct7("mulhsu", 1, 2, 51)
      /\ Multiplications[4] = OfFunct7("mulhu", 1, 3, 51)
      /\ Multiplications[5] = OfFunct7("div", 1, 4, 51)
      /\ Multiplications[6] = OfFunct7("divu", 1, 5, 51)
      /\ Multiplications[7] = OfFunct7("rem", 1, 6, 51)
      /\ Multiplications[8] = OfFunct7("remu", 1, 7, 51)
  BY Zenon DEF Multiplications
<1>2. ins.major \in DOMAIN Majors
  BY DEF Encodable
<1>3. \A func : \A f7 \in 0 .. 127 : \A f3 \in 0 .. 7 :
        HasAll(w, OfFunct7(func, f7, f3, 51)) <=> ins.major = "arith" /\ ins.f3 = f3 /\ ins.f7 = f7
  BY RegisterRow
<1> HIDE DEF w
<1>4. HasAll(w, Multiplications[1]) <=> ins.major = "arith" /\ ins.f3 = 0 /\ ins.f7 = 1
  BY <1>1, <1>3
<1>5. HasAll(w, Multiplications[2]) <=> ins.major = "arith" /\ ins.f3 = 1 /\ ins.f7 = 1
  BY <1>1, <1>3
<1>6. HasAll(w, Multiplications[3]) <=> ins.major = "arith" /\ ins.f3 = 2 /\ ins.f7 = 1
  BY <1>1, <1>3
<1>7. HasAll(w, Multiplications[4]) <=> ins.major = "arith" /\ ins.f3 = 3 /\ ins.f7 = 1
  BY <1>1, <1>3
<1>8. HasAll(w, Multiplications[5]) <=> ins.major = "arith" /\ ins.f3 = 4 /\ ins.f7 = 1
  BY <1>1, <1>3
<1>9. HasAll(w, Multiplications[6]) <=> ins.major = "arith" /\ ins.f3 = 5 /\ ins.f7 = 1
  BY <1>1, <1>3
<1>10. HasAll(w, Multiplications[7]) <=> ins.major = "arith" /\ ins.f3 = 6 /\ ins.f7 = 1
  BY <1>1, <1>3
<1>11. HasAll(w, Multiplications[8]) <=> ins.major = "arith" /\ ins.f3 = 7 /\ ins.f7 = 1
  BY <1>1, <1>3
<1> QED BY <1>4, <1>5, <1>6, <1>7, <1>8, <1>9, <1>10, <1>11, Zenon DEF w

\* The rows of the table that recognise a system instruction.
LEMMA SystemAre ==
  ASSUME NEW ins \in Encodable
  PROVE  LET w == Assemble(ins)
         IN /\ HasAll(w, System[1]) <=> ins.major = "misc" /\ ins.f3 = 0 /\ ins.rd = 0 /\ ins.rs1 = 0 /\ ins.imm \in 0 .. 255
            /\ HasAll(w, System[2]) <=> ins.major = "misc" /\ ins.f3 = 1 /\ ins.rd = 0 /\ ins.rs1 = 0 /\ ins.imm = 0
            /\ HasAll(w, System[3]) <=> ins.major = "system" /\ ins.f3 = 0 /\ ins.rd = 0 /\ ins.rs1 = 0 /\ ins.imm = 0
            /\ HasAll(w, System[4]) <=> ins.major = "system" /\ ins.f3 = 0 /\ ins.rd = 0 /\ ins.rs1 = 0 /\ ins.imm = 1
            /\ HasAll(w, System[5]) <=> ins.major = "system" /\ ins.f3 = 1
            /\ HasAll(w, System[6]) <=> ins.major = "system" /\ ins.f3 = 2
            /\ HasAll(w, System[7]) <=> ins.major = "system" /\ ins.f3 = 3
            /\ HasAll(w, System[8]) <=> ins.major = "system" /\ ins.f3 = 5
            /\ HasAll(w, System[9]) <=> ins.major = "system" /\ ins.f3 = 6
            /\ HasAll(w, System[10]) <=> ins.major = "system" /\ ins.f3 = 7
<1> DEFINE w == Assemble(ins)
<1>1. /\ System[1] = Row("fence", {<<31, 28, 0>>, <<19, 0, 15>>})
      /\ System[2] = Row("fence_i", {<<31, 12, 1>>, <<11, 0, 15>>})
      /\ System[3] = Row("ecall", {<<31, 0, 115>>})
      /\ System[4] = Row("ebreak", {<<31, 20, 1>>, <<19, 0, 115>>})
      /\ System[5] = OfFunct3("csrrw", 1, 115)
      /\ System[6] = OfFunct3("csrrs", 2, 115)
      /\ System[7] = OfFunct3("csrrc", 3, 115)
      /\ System[8] = OfFunct3("csrrwi", 5, 115)
      /\ System[9] = OfFunct3("csrrsi", 6, 115)
      /\ System[10] = OfFunct3("csrrci", 7, 115)
  BY Zenon DEF System
<1>2. ins.major \in DOMAIN Majors
  BY DEF Encodable
<1>3. \A func : \A f3 \in 0 .. 7 : HasAll(w, OfFunct3(func, f3, 115)) <=> ins.major = "system" /\ ins.f3 = f3
  <2>1. Majors[ins.major].opcode = 115 <=> ins.major = "system"
    BY <1>2, MajorIs
  <2>2. 115 \in {103, 99, 3, 35, 19, 115}
    OBVIOUS
  <2>3. \A func : \A f3 \in 0 .. 7 :
          HasAll(w, OfFunct3(func, f3, 115)) <=> Majors[ins.major].opcode = 115 /\ ins.f3 = f3
    BY <2>2, Funct3Row
  <2> HIDE DEF w
  <2> QED BY <2>1, <2>3
<1>4. HasAll(w, System[1]) <=> ins.major = "misc" /\ ins.f3 = 0 /\ ins.rd = 0 /\ ins.rs1 = 0 /\ ins.imm \in 0 .. 255
  BY <1>1, CallIs
<1>5. HasAll(w, System[2]) <=> ins.major = "misc" /\ ins.f3 = 1 /\ ins.rd = 0 /\ ins.rs1 = 0 /\ ins.imm = 0
  BY <1>1, CallIs
<1>6. HasAll(w, System[3]) <=> ins.major = "system" /\ ins.f3 = 0 /\ ins.rd = 0 /\ ins.rs1 = 0 /\ ins.imm = 0
  BY <1>1, CallIs
<1>7. HasAll(w, System[4]) <=> ins.major = "system" /\ ins.f3 = 0 /\ ins.rd = 0 /\ ins.rs1 = 0 /\ ins.imm = 1
  BY <1>1, CallIs
<1> HIDE DEF w
<1>8. HasAll(w, System[5]) <=> ins.major = "system" /\ ins.f3 = 1
  BY <1>1, <1>3
<1>9. HasAll(w, System[6]) <=> ins.major = "system" /\ ins.f3 = 2
  BY <1>1, <1>3
<1>10. HasAll(w, System[7]) <=> ins.major = "system" /\ ins.f3 = 3
  BY <1>1, <1>3
<1>11. HasAll(w, System[8]) <=> ins.major = "system" /\ ins.f3 = 5
  BY <1>1, <1>3
<1>12. HasAll(w, System[9]) <=> ins.major = "system" /\ ins.f3 = 6
  BY <1>1, <1>3
<1>13. HasAll(w, System[10]) <=> ins.major = "system" /\ ins.f3 = 7
  BY <1>1, <1>3
<1> QED BY <1>4, <1>5, <1>6, <1>7, <1>8, <1>9, <1>10, <1>11, <1>12, <1>13, Zenon DEF w

\* The manual's names, by funct3.


\* The manual's names of the indirect jump, by funct3.
LEMMA JalrName ==
  ASSUME NEW ins, ins.major = "jalr"
  PROVE  /\ ins.f3 = 0 => Name(ins) = "jalr"
         /\ ins.f3 = 1 => Name(ins) = "unknown"
         /\ ins.f3 = 2 => Name(ins) = "unknown"
         /\ ins.f3 = 3 => Name(ins) = "unknown"
         /\ ins.f3 = 4 => Name(ins) = "unknown"
         /\ ins.f3 = 5 => Name(ins) = "unknown"
         /\ ins.f3 = 6 => Name(ins) = "unknown"
         /\ ins.f3 = 7 => Name(ins) = "unknown"
  BY DEF Name, Named, R

\* The manual's names of branches, by funct3.
LEMMA BranchName ==
  ASSUME NEW ins, ins.major = "branch"
  PROVE  /\ ins.f3 = 0 => Name(ins) = "beq"
         /\ ins.f3 = 1 => Name(ins) = "bne"
         /\ ins.f3 = 2 => Name(ins) = "unknown"
         /\ ins.f3 = 3 => Name(ins) = "unknown"
         /\ ins.f3 = 4 => Name(ins) = "blt"
         /\ ins.f3 = 5 => Name(ins) = "bge"
         /\ ins.f3 = 6 => Name(ins) = "bltu"
         /\ ins.f3 = 7 => Name(ins) = "bgeu"
  BY DEF Name, Named, R

\* The manual's names of loads, by funct3.
LEMMA LoadName ==
  ASSUME NEW ins, ins.major = "load"
  PROVE  /\ ins.f3 = 0 => Name(ins) = "lb"
         /\ ins.f3 = 1 => Name(ins) = "lh"
         /\ ins.f3 = 2 => Name(ins) = "lw"
         /\ ins.f3 = 3 => Name(ins) = "unknown"
         /\ ins.f3 = 4 => Name(ins) = "lbu"
         /\ ins.f3 = 5 => Name(ins) = "lhu"
         /\ ins.f3 = 6 => Name(ins) = "unknown"
         /\ ins.f3 = 7 => Name(ins) = "unknown"
  BY DEF Name, Named, R

\* The manual's names of stores, by funct3.
LEMMA StoreName ==
  ASSUME NEW ins, ins.major = "store"
  PROVE  /\ ins.f3 = 0 => Name(ins) = "sb"
         /\ ins.f3 = 1 => Name(ins) = "sh"
         /\ ins.f3 = 2 => Name(ins) = "sw"
         /\ ins.f3 = 3 => Name(ins) = "unknown"
         /\ ins.f3 = 4 => Name(ins) = "unknown"
         /\ ins.f3 = 5 => Name(ins) = "unknown"
         /\ ins.f3 = 6 => Name(ins) = "unknown"
         /\ ins.f3 = 7 => Name(ins) = "unknown"
  BY DEF Name, Named, R

\* The manual's names of operations with an immediate, by funct3.
LEMMA ImmediateName ==
  ASSUME NEW ins, ins.major = "opimm"
  PROVE  /\ ins.f3 = 0 => Name(ins) = "addi"
         /\ ins.f3 = 1 => Name(ins) = (IF ins.imm \div 32 = 0 THEN "slli" ELSE "unknown")
         /\ ins.f3 = 2 => Name(ins) = "slti"
         /\ ins.f3 = 3 => Name(ins) = "sltiu"
         /\ ins.f3 = 4 => Name(ins) = "xori"
         /\ ins.f3 = 5 => Name(ins) = (IF ins.imm \div 32 = 0 THEN "srli" ELSE IF ins.imm \div 32 = 32 THEN "srai" ELSE "unknown")
         /\ ins.f3 = 6 => Name(ins) = "ori"
         /\ ins.f3 = 7 => Name(ins) = "andi"
  BY DEF Name, Named, R

\* The manual's names of register operations, by funct3.
LEMMA RegisterName ==
  ASSUME NEW ins, ins.major = "arith" /\ ins.f7 = 0
  PROVE  /\ ins.f3 = 0 => Name(ins) = "add"
         /\ ins.f3 = 1 => Name(ins) = "sll"
         /\ ins.f3 = 2 => Name(ins) = "slt"
         /\ ins.f3 = 3 => Name(ins) = "sltu"
         /\ ins.f3 = 4 => Name(ins) = "xor"
         /\ ins.f3 = 5 => Name(ins) = "srl"
         /\ ins.f3 = 6 => Name(ins) = "or"
         /\ ins.f3 = 7 => Name(ins) = "and"
  BY DEF Name, Named, R

\* The manual's names of the alternate register operations, by funct3.
LEMMA AlternateName ==
  ASSUME NEW ins, ins.major = "arith" /\ ins.f7 = 32
  PROVE  /\ ins.f3 = 0 => Name(ins) = "sub"
         /\ ins.f3 = 1 => Name(ins) = "unknown"
         /\ ins.f3 = 2 => Name(ins) = "unknown"
         /\ ins.f3 = 3 => Name(ins) = "unknown"
         /\ ins.f3 = 4 => Name(ins) = "unknown"
         /\ ins.f3 = 5 => Name(ins) = "sra"
         /\ ins.f3 = 6 => Name(ins) = "unknown"
         /\ ins.f3 = 7 => Name(ins) = "unknown"
  BY DEF Name, Named, R

\* The manual's names of multiplications, by funct3.
LEMMA MultiplicationName ==
  ASSUME NEW ins, ins.major = "arith" /\ ins.f7 = 1
  PROVE  /\ ins.f3 = 0 => Name(ins) = "mul"
         /\ ins.f3 = 1 => Name(ins) = "mulh"
         /\ ins.f3 = 2 => Name(ins) = "mulhsu"
         /\ ins.f3 = 3 => Name(ins) = "mulhu"
         /\ ins.f3 = 4 => Name(ins) = "div"
         /\ ins.f3 = 5 => Name(ins) = "divu"
         /\ ins.f3 = 6 => Name(ins) = "rem"
         /\ ins.f3 = 7 => Name(ins) = "remu"
  BY DEF Name, Named, R

\* The manual's names of reserved operations, by funct3.
LEMMA ReservedName ==
  ASSUME NEW ins, ins.major = "arith" /\ ins.f7 \notin {0, 32, 1}
  PROVE  /\ ins.f3 = 0 => Name(ins) = "unknown"
         /\ ins.f3 = 1 => Name(ins) = "unknown"
         /\ ins.f3 = 2 => Name(ins) = "unknown"
         /\ ins.f3 = 3 => Name(ins) = "unknown"
         /\ ins.f3 = 4 => Name(ins) = "unknown"
         /\ ins.f3 = 5 => Name(ins) = "unknown"
         /\ ins.f3 = 6 => Name(ins) = "unknown"
         /\ ins.f3 = 7 => Name(ins) = "unknown"
  BY DEF Name, Named, R

\* The manual's names of fences, by funct3.
LEMMA FenceName ==
  ASSUME NEW ins, ins.major = "misc"
  PROVE  /\ ins.f3 = 0 => Name(ins) = (IF (ins.rd = 0 /\ ins.rs1 = 0) /\ ins.imm \in 0 .. 255 THEN "fence" ELSE "unknown")
         /\ ins.f3 = 1 => Name(ins) = (IF (ins.rd = 0 /\ ins.rs1 = 0) /\ ins.imm = 0 THEN "fence_i" ELSE "unknown")
         /\ ins.f3 = 2 => Name(ins) = "unknown"
         /\ ins.f3 = 3 => Name(ins) = "unknown"
         /\ ins.f3 = 4 => Name(ins) = "unknown"
         /\ ins.f3 = 5 => Name(ins) = "unknown"
         /\ ins.f3 = 6 => Name(ins) = "unknown"
         /\ ins.f3 = 7 => Name(ins) = "unknown"
  BY DEF Name, Named, R

\* The manual's names of system instructions, by funct3.
LEMMA SystemName ==
  ASSUME NEW ins, ins.major = "system"
  PROVE  /\ ins.f3 = 0 => Name(ins) = (IF (ins.rd = 0 /\ ins.rs1 = 0) /\ ins.imm = 0 THEN "ecall"
                                           ELSE IF (ins.rd = 0 /\ ins.rs1 = 0) /\ ins.imm = 1 THEN "ebreak" ELSE "unknown")
         /\ ins.f3 = 1 => Name(ins) = "csrrw"
         /\ ins.f3 = 2 => Name(ins) = "csrrs"
         /\ ins.f3 = 3 => Name(ins) = "csrrc"
         /\ ins.f3 = 4 => Name(ins) = "unknown"
         /\ ins.f3 = 5 => Name(ins) = "csrrwi"
         /\ ins.f3 = 6 => Name(ins) = "csrrsi"
         /\ ins.f3 = 7 => Name(ins) = "csrrci"
  BY DEF Name, Named, R

\* The manual's names of the jump and of the two with upper immediates.
LEMMA UpperName ==
  ASSUME NEW ins, ins.major \in {"auipc", "lui", "jal"}
  PROVE  Name(ins) = ins.major
  BY DEF Name


\* The rows of the jumps call what they are named for.
LEMMA JumpsNamed ==
  ASSUME NEW ins \in Encodable
  PROVE  \A k \in 1 .. 10 : HasAll(Assemble(ins), Jumps[k]) => Name(ins) = Jumps[k].func
<1> DEFINE w == Assemble(ins)
<1>1. /\ Jumps[1].func = "auipc"
      /\ Jumps[2].func = "lui"
      /\ Jumps[3].func = "jal"
      /\ Jumps[4].func = "jalr"
      /\ Jumps[5].func = "beq"
      /\ Jumps[6].func = "bne"
      /\ Jumps[7].func = "blt"
      /\ Jumps[8].func = "bge"
      /\ Jumps[9].func = "bltu"
      /\ Jumps[10].func = "bgeu"
  BY DEF Jumps, OfFunct3, OfOpcode, Row
<1>2. /\ HasAll(w, Jumps[1]) <=> ins.major = "auipc"
      /\ HasAll(w, Jumps[2]) <=> ins.major = "lui"
      /\ HasAll(w, Jumps[3]) <=> ins.major = "jal"
      /\ HasAll(w, Jumps[4]) <=> ins.major = "jalr" /\ ins.f3 = 0
      /\ HasAll(w, Jumps[5]) <=> ins.major = "branch" /\ ins.f3 = 0
      /\ HasAll(w, Jumps[6]) <=> ins.major = "branch" /\ ins.f3 = 1
      /\ HasAll(w, Jumps[7]) <=> ins.major = "branch" /\ ins.f3 = 4
      /\ HasAll(w, Jumps[8]) <=> ins.major = "branch" /\ ins.f3 = 5
      /\ HasAll(w, Jumps[9]) <=> ins.major = "branch" /\ ins.f3 = 6
      /\ HasAll(w, Jumps[10]) <=> ins.major = "branch" /\ ins.f3 = 7
  BY JumpsAre, Zenon
<1> HIDE DEF w
<1>3. HasAll(w, Jumps[1]) => Name(ins) = Jumps[1].func
  <2>1. ins.major = "auipc" => Name(ins) = "auipc"
    BY UpperName
  <2> QED BY <1>1, <1>2, <2>1, Zenon
<1>4. HasAll(w, Jumps[2]) => Name(ins) = Jumps[2].func
  <2>1. ins.major = "lui" => Name(ins) = "lui"
    BY UpperName
  <2> QED BY <1>1, <1>2, <2>1, Zenon
<1>5. HasAll(w, Jumps[3]) => Name(ins) = Jumps[3].func
  <2>1. ins.major = "jal" => Name(ins) = "jal"
    BY UpperName
  <2> QED BY <1>1, <1>2, <2>1, Zenon
<1>6. HasAll(w, Jumps[4]) => Name(ins) = Jumps[4].func
  <2>1. ins.major = "jalr" /\ ins.f3 = 0 => Name(ins) = "jalr"
    BY JalrName
  <2> QED BY <1>1, <1>2, <2>1, Zenon
<1>7. HasAll(w, Jumps[5]) => Name(ins) = Jumps[5].func
  <2>1. ins.major = "branch" /\ ins.f3 = 0 => Name(ins) = "beq"
    BY BranchName
  <2> QED BY <1>1, <1>2, <2>1, Zenon
<1>8. HasAll(w, Jumps[6]) => Name(ins) = Jumps[6].func
  <2>1. ins.major = "branch" /\ ins.f3 = 1 => Name(ins) = "bne"
    BY BranchName
  <2> QED BY <1>1, <1>2, <2>1, Zenon
<1>9. HasAll(w, Jumps[7]) => Name(ins) = Jumps[7].func
  <2>1. ins.major = "branch" /\ ins.f3 = 4 => Name(ins) = "blt"
    BY BranchName
  <2> QED BY <1>1, <1>2, <2>1, Zenon
<1>10. HasAll(w, Jumps[8]) => Name(ins) = Jumps[8].func
  <2>1. ins.major = "branch" /\ ins.f3 = 5 => Name(ins) = "bge"
    BY BranchName
  <2> QED BY <1>1, <1>2, <2>1, Zenon
<1>11. HasAll(w, Jumps[9]) => Name(ins) = Jumps[9].func
  <2>1. ins.major = "branch" /\ ins.f3 = 6 => Name(ins) = "bltu"
    BY BranchName
  <2> QED BY <1>1, <1>2, <2>1, Zenon
<1>12. HasAll(w, Jumps[10]) => Name(ins) = Jumps[10].func
  <2>1. ins.major = "branch" /\ ins.f3 = 7 => Name(ins) = "bgeu"
    BY BranchName
  <2> QED BY <1>1, <1>2, <2>1, Zenon
<1>13. \A k \in 1 .. 10 : k = 1 \/ k = 2 \/ k = 3 \/ k = 4 \/ k = 5 \/ k = 6 \/ k = 7 \/ k = 8 \/ k = 9 \/ k = 10
  OBVIOUS
<1> DEFINE P(k) == HasAll(w, Jumps[k]) => Name(ins) = Jumps[k].func
<1>14. P(1) /\ P(2) /\ P(3) /\ P(4) /\ P(5) /\ P(6) /\ P(7) /\ P(8) /\ P(9) /\ P(10)
  BY <1>3, <1>4, <1>5, <1>6, <1>7, <1>8, <1>9, <1>10, <1>11, <1>12, Zenon
<1> HIDE DEF P
<1>15. \A k \in 1 .. 10 : P(k)
  BY <1>13, <1>14, Zenon
<1> QED BY <1>15 DEF w, P

\* The rows of the loads and stores call what they are named for.
LEMMA AccessesNamed ==
  ASSUME NEW ins \in Encodable
  PROVE  \A k \in 1 .. 8 : HasAll(Assemble(ins), Accesses[k]) => Name(ins) = Accesses[k].func
<1> DEFINE w == Assemble(ins)
<1>1. /\ Accesses[1].func = "lb"
      /\ Accesses[2].func = "lh"
      /\ Accesses[3].func = "lw"
      /\ Accesses[4].func = "lbu"
      /\ Accesses[5].func = "lhu"
      /\ Accesses[6].func = "sb"
      /\ Accesses[7].func = "sh"
      /\ Accesses[8].func = "sw"
  BY DEF Accesses, OfFunct3, Row
<1>2. /\ HasAll(w, Accesses[1]) <=> ins.major = "load" /\ ins.f3 = 0
      /\ HasAll(w, Accesses[2]) <=> ins.major = "load" /\ ins.f3 = 1
      /\ HasAll(w, Accesses[3]) <=> ins.major = "load" /\ ins.f3 = 2
      /\ HasAll(w, Accesses[4]) <=> ins.major = "load" /\ ins.f3 = 4
      /\ HasAll(w, Accesses[5]) <=> ins.major = "load" /\ ins.f3 = 5
      /\ HasAll(w, Accesses[6]) <=> ins.major = "store" /\ ins.f3 = 0
      /\ HasAll(w, Accesses[7]) <=> ins.major = "store" /\ ins.f3 = 1
      /\ HasAll(w, Accesses[8]) <=> ins.major = "store" /\ ins.f3 = 2
  BY AccessesAre, Zenon
<1> HIDE DEF w
<1>3. HasAll(w, Accesses[1]) => Name(ins) = Accesses[1].func
  <2>1. ins.major = "load" /\ ins.f3 = 0 => Name(ins) = "lb"
    BY LoadName
  <2> QED BY <1>1, <1>2, <2>1, Zenon
<1>4. HasAll(w, Accesses[2]) => Name(ins) = Accesses[2].func
  <2>1. ins.major = "load" /\ ins.f3 = 1 => Name(ins) = "lh"
    BY LoadName
  <2> QED BY <1>1, <1>2, <2>1, Zenon
<1>5. HasAll(w, Accesses[3]) => Name(ins) = Accesses[3].func
  <2>1. ins.major = "load" /\ ins.f3 = 2 => Name(ins) = "lw"
    BY LoadName
  <2> QED BY <1>1, <1>2, <2>1, Zenon
<1>6. HasAll(w, Accesses[4]) => Name(ins) = Accesses[4].func
  <2>1. ins.major = "load" /\ ins.f3 = 4 => Name(ins) = "lbu"
    BY LoadName
  <2> QED BY <1>1, <1>2, <2>1, Zenon
<1>7. HasAll(w, Accesses[5]) => Name(ins) = Accesses[5].func
  <2>1. ins.major = "load" /\ ins.f3 = 5 => Name(ins) = "lhu"
    BY LoadName
  <2> QED BY <1>1, <1>2, <2>1, Zenon
<1>8. HasAll(w, Accesses[6]) => Name(ins) = Accesses[6].func
  <2>1. ins.major = "store" /\ ins.f3 = 0 => Name(ins) = "sb"
    BY StoreName
  <2> QED BY <1>1, <1>2, <2>1, Zenon
<1>9. HasAll(w, Accesses[7]) => Name(ins) = Accesses[7].func
  <2>1. ins.major = "store" /\ ins.f3 = 1 => Name(ins) = "sh"
    BY StoreName
  <2> QED BY <1>1, <1>2, <2>1, Zenon
<1>10. HasAll(w, Accesses[8]) => Name(ins) = Accesses[8].func
  <2>1. ins.major = "store" /\ ins.f3 = 2 => Name(ins) = "sw"
    BY StoreName
  <2> QED BY <1>1, <1>2, <2>1, Zenon
<1>11. \A k \in 1 .. 8 : k = 1 \/ k = 2 \/ k = 3 \/ k = 4 \/ k = 5 \/ k = 6 \/ k = 7 \/ k = 8
  OBVIOUS
<1> DEFINE P(k) == HasAll(w, Accesses[k]) => Name(ins) = Accesses[k].func
<1>12. P(1) /\ P(2) /\ P(3) /\ P(4) /\ P(5) /\ P(6) /\ P(7) /\ P(8)
  BY <1>3, <1>4, <1>5, <1>6, <1>7, <1>8, <1>9, <1>10, Zenon
<1> HIDE DEF P
<1>13. \A k \in 1 .. 8 : P(k)
  BY <1>11, <1>12, Zenon
<1> QED BY <1>13 DEF w, P

\* The rows of the operations with an immediate call what they are named for.
LEMMA ImmediatesNamed ==
  ASSUME NEW ins \in Encodable
  PROVE  \A k \in 1 .. 9 : HasAll(Assemble(ins), Immediates[k]) => Name(ins) = Immediates[k].func
<1> DEFINE w == Assemble(ins)
<1>1. /\ Immediates[1].func = "addi"
      /\ Immediates[2].func = "slti"
      /\ Immediates[3].func = "sltiu"
      /\ Immediates[4].func = "xori"
      /\ Immediates[5].func = "ori"
      /\ Immediates[6].func = "andi"
      /\ Immediates[7].func = "slli"
      /\ Immediates[8].func = "srli"
      /\ Immediates[9].func = "srai"
  BY DEF Immediates, OfFunct3, OfFunct7, Row
<1>2. /\ HasAll(w, Immediates[1]) <=> ins.major = "opimm" /\ ins.f3 = 0
      /\ HasAll(w, Immediates[2]) <=> ins.major = "opimm" /\ ins.f3 = 2
      /\ HasAll(w, Immediates[3]) <=> ins.major = "opimm" /\ ins.f3 = 3
      /\ HasAll(w, Immediates[4]) <=> ins.major = "opimm" /\ ins.f3 = 4
      /\ HasAll(w, Immediates[5]) <=> ins.major = "opimm" /\ ins.f3 = 6
      /\ HasAll(w, Immediates[6]) <=> ins.major = "opimm" /\ ins.f3 = 7
      /\ HasAll(w, Immediates[7]) <=> ins.major = "opimm" /\ ins.f3 = 1 /\ ins.imm \div 32 = 0
      /\ HasAll(w, Immediates[8]) <=> ins.major = "opimm" /\ ins.f3 = 5 /\ ins.imm \div 32 = 0
      /\ HasAll(w, Immediates[9]) <=> ins.major = "opimm" /\ ins.f3 = 5 /\ ins.imm \div 32 = 32
  BY ImmediatesAre, Zenon
<1> HIDE DEF w
<1>3. HasAll(w, Immediates[1]) => Name(ins) = Immediates[1].func
  <2>1. ins.major = "opimm" /\ ins.f3 = 0 => Name(ins) = "addi"
    BY ImmediateName
  <2> QED BY <1>1, <1>2, <2>1, Zenon
<1>4. HasAll(w, Immediates[2]) => Name(ins) = Immediates[2].func
  <2>1. ins.major = "opimm" /\ ins.f3 = 2 => Name(ins) = "slti"
    BY ImmediateName
  <2> QED BY <1>1, <1>2, <2>1, Zenon
<1>5. HasAll(w, Immediates[3]) => Name(ins) = Immediates[3].func
  <2>1. ins.major = "opimm" /\ ins.f3 = 3 => Name(ins) = "sltiu"
    BY ImmediateName
  <2> QED BY <1>1, <1>2, <2>1, Zenon
<1>6. HasAll(w, Immediates[4]) => Name(ins) = Immediates[4].func
  <2>1. ins.major = "opimm" /\ ins.f3 = 4 => Name(ins) = "xori"
    BY ImmediateName
  <2> QED BY <1>1, <1>2, <2>1, Zenon
<1>7. HasAll(w, Immediates[5]) => Name(ins) = Immediates[5].func
  <2>1. ins.major = "opimm" /\ ins.f3 = 6 => Name(ins) = "ori"
    BY ImmediateName
  <2> QED BY <1>1, <1>2, <2>1, Zenon
<1>8. HasAll(w, Immediates[6]) => Name(ins) = Immediates[6].func
  <2>1. ins.major = "opimm" /\ ins.f3 = 7 => Name(ins) = "andi"
    BY ImmediateName
  <2> QED BY <1>1, <1>2, <2>1, Zenon
<1>9. HasAll(w, Immediates[7]) => Name(ins) = Immediates[7].func
  <2>1. ins.major = "opimm" /\ ins.f3 = 1 /\ ins.imm \div 32 = 0 => Name(ins) = "slli"
    BY ImmediateName
  <2> QED BY <1>1, <1>2, <2>1, Zenon
<1>10. HasAll(w, Immediates[8]) => Name(ins) = Immediates[8].func
  <2>1. ins.major = "opimm" /\ ins.f3 = 5 /\ ins.imm \div 32 = 0 => Name(ins) = "srli"
    BY ImmediateName
  <2> QED BY <1>1, <1>2, <2>1, Zenon
<1>11. HasAll(w, Immediates[9]) => Name(ins) = Immediates[9].func
  <2>1. ins.major = "opimm" /\ ins.f3 = 5 /\ ins.imm \div 32 = 32 => Name(ins) = "srai"
    BY ImmediateName
  <2> QED BY <1>1, <1>2, <2>1, Zenon
<1>12. \A k \in 1 .. 9 : k = 1 \/ k = 2 \/ k = 3 \/ k = 4 \/ k = 5 \/ k = 6 \/ k = 7 \/ k = 8 \/ k = 9
  OBVIOUS
<1> DEFINE P(k) == HasAll(w, Immediates[k]) => Name(ins) = Immediates[k].func
<1>13. P(1) /\ P(2) /\ P(3) /\ P(4) /\ P(5) /\ P(6) /\ P(7) /\ P(8) /\ P(9)
  BY <1>3, <1>4, <1>5, <1>6, <1>7, <1>8, <1>9, <1>10, <1>11, Zenon
<1> HIDE DEF P
<1>14. \A k \in 1 .. 9 : P(k)
  BY <1>12, <1>13, Zenon
<1> QED BY <1>14 DEF w, P

\* The rows of the register operations call what they are named for.
LEMMA RegistersNamed ==
  ASSUME NEW ins \in Encodable
  PROVE  \A k \in 1 .. 10 : HasAll(Assemble(ins), Registers[k]) => Name(ins) = Registers[k].func
<1> DEFINE w == Assemble(ins)
<1>1. /\ Registers[1].func = "add"
      /\ Registers[2].func = "sub"
      /\ Registers[3].func = "sll"
      /\ Registers[4].func = "slt"
      /\ Registers[5].func = "sltu"
      /\ Registers[6].func = "xor"
      /\ Registers[7].func = "srl"
      /\ Registers[8].func = "sra"
      /\ Registers[9].func = "or"
      /\ Registers[10].func = "and"
  BY DEF Registers, OfFunct7, Row
<1>2. /\ HasAll(w, Registers[1]) <=> ins.major = "arith" /\ ins.f3 = 0 /\ ins.f7 = 0
      /\ HasAll(w, Registers[2]) <=> ins.major = "arith" /\ ins.f3 = 0 /\ ins.f7 = 32
      /\ HasAll(w, Registers[3]) <=> ins.major = "arith" /\ ins.f3 = 1 /\ ins.f7 = 0
      /\ HasAll(w, Registers[4]) <=> ins.major = "arith" /\ ins.f3 = 2 /\ ins.f7 = 0
      /\ HasAll(w, Registers[5]) <=> ins.major = "arith" /\ ins.f3 = 3 /\ ins.f7 = 0
      /\ HasAll(w, Registers[6]) <=> ins.major = "arith" /\ ins.f3 = 4 /\ ins.f7 = 0
      /\ HasAll(w, Registers[7]) <=> ins.major = "arith" /\ ins.f3 = 5 /\ ins.f7 = 0
      /\ HasAll(w, Registers[8]) <=> ins.major = "arith" /\ ins.f3 = 5 /\ ins.f7 = 32
      /\ HasAll(w, Registers[9]) <=> ins.major = "arith" /\ ins.f3 = 6 /\ ins.f7 = 0
      /\ HasAll(w, Registers[10]) <=> ins.major = "arith" /\ ins.f3 = 7 /\ ins.f7 = 0
  BY RegistersAre, Zenon
<1> HIDE DEF w
<1>3. HasAll(w, Registers[1]) => Name(ins) = Registers[1].func
  <2>1. ins.major = "arith" /\ ins.f3 = 0 /\ ins.f7 = 0 => Name(ins) = "add"
    BY RegisterName
  <2> QED BY <1>1, <1>2, <2>1, Zenon
<1>4. HasAll(w, Registers[2]) => Name(ins) = Registers[2].func
  <2>1. ins.major = "arith" /\ ins.f3 = 0 /\ ins.f7 = 32 => Name(ins) = "sub"
    BY AlternateName
  <2> QED BY <1>1, <1>2, <2>1, Zenon
<1>5. HasAll(w, Registers[3]) => Name(ins) = Registers[3].func
  <2>1. ins.major = "arith" /\ ins.f3 = 1 /\ ins.f7 = 0 => Name(ins) = "sll"
    BY RegisterName
  <2> QED BY <1>1, <1>2, <2>1, Zenon
<1>6. HasAll(w, Registers[4]) => Name(ins) = Registers[4].func
  <2>1. ins.major = "arith" /\ ins.f3 = 2 /\ ins.f7 = 0 => Name(ins) = "slt"
    BY RegisterName
  <2> QED BY <1>1, <1>2, <2>1, Zenon
<1>7. HasAll(w, Registers[5]) => Name(ins) = Registers[5].func
  <2>1. ins.major = "arith" /\ ins.f3 = 3 /\ ins.f7 = 0 => Name(ins) = "sltu"
    BY RegisterName
  <2> QED BY <1>1, <1>2, <2>1, Zenon
<1>8. HasAll(w, Registers[6]) => Name(ins) = Registers[6].func
  <2>1. ins.major = "arith" /\ ins.f3 = 4 /\ ins.f7 = 0 => Name(ins) = "xor"
    BY RegisterName
  <2> QED BY <1>1, <1>2, <2>1, Zenon
<1>9. HasAll(w, Registers[7]) => Name(ins) = Registers[7].func
  <2>1. ins.major = "arith" /\ ins.f3 = 5 /\ ins.f7 = 0 => Name(ins) = "srl"
    BY RegisterName
  <2> QED BY <1>1, <1>2, <2>1, Zenon
<1>10. HasAll(w, Registers[8]) => Name(ins) = Registers[8].func
  <2>1. ins.major = "arith" /\ ins.f3 = 5 /\ ins.f7 = 32 => Name(ins) = "sra"
    BY AlternateName
  <2> QED BY <1>1, <1>2, <2>1, Zenon
<1>11. HasAll(w, Registers[9]) => Name(ins) = Registers[9].func
  <2>1. ins.major = "arith" /\ ins.f3 = 6 /\ ins.f7 = 0 => Name(ins) = "or"
    BY RegisterName
  <2> QED BY <1>1, <1>2, <2>1, Zenon
<1>12. HasAll(w, Registers[10]) => Name(ins) = Registers[10].func
  <2>1. ins.major = "arith" /\ ins.f3 = 7 /\ ins.f7 = 0 => Name(ins) = "and"
    BY RegisterName
  <2> QED BY <1>1, <1>2, <2>1, Zenon
<1>13. \A k \in 1 .. 10 : k = 1 \/ k = 2 \/ k = 3 \/ k = 4 \/ k = 5 \/ k = 6 \/ k = 7 \/ k = 8 \/ k = 9 \/ k = 10
  OBVIOUS
<1> DEFINE P(k) == HasAll(w, Registers[k]) => Name(ins) = Registers[k].func
<1>14. P(1) /\ P(2) /\ P(3) /\ P(4) /\ P(5) /\ P(6) /\ P(7) /\ P(8) /\ P(9) /\ P(10)
  BY <1>3, <1>4, <1>5, <1>6, <1>7, <1>8, <1>9, <1>10, <1>11, <1>12, Zenon
<1> HIDE DEF P
<1>15. \A k \in 1 .. 10 : P(k)
  BY <1>13, <1>14, Zenon
<1> QED BY <1>15 DEF w, P

\* The rows of the multiplications call what they are named for.
LEMMA MultiplicationsNamed ==
  ASSUME NEW ins \in Encodable
  PROVE  \A k \in 1 .. 8 : HasAll(Assemble(ins), Multiplications[k]) => Name(ins) = Multiplications[k].func
<1> DEFINE w == Assemble(ins)
<1>1. /\ Multiplications[1].func = "mul"
      /\ Multiplications[2].func = "mulh"
      /\ Multiplications[3].func = "mulhsu"
      /\ Multiplications[4].func = "mulhu"
      /\ Multiplications[5].func = "div"
      /\ Multiplications[6].func = "divu"
      /\ Multiplications[7].func = "rem"
      /\ Multiplications[8].func = "remu"
  BY DEF Multiplications, OfFunct7, Row
<1>2. /\ HasAll(w, Multiplications[1]) <=> ins.major = "arith" /\ ins.f3 = 0 /\ ins.f7 = 1
      /\ HasAll(w, Multiplications[2]) <=> ins.major = "arith" /\ ins.f3 = 1 /\ ins.f7 = 1
      /\ HasAll(w, Multiplications[3]) <=> ins.major = "arith" /\ ins.f3 = 2 /\ ins.f7 = 1
      /\ HasAll(w, Multiplications[4]) <=> ins.major = "arith" /\ ins.f3 = 3 /\ ins.f7 = 1
      /\ HasAll(w, Multiplications[5]) <=> ins.major = "arith" /\ ins.f3 = 4 /\ ins.f7 = 1
      /\ HasAll(w, Multiplications[6]) <=> ins.major = "arith" /\ ins.f3 = 5 /\ ins.f7 = 1
      /\ HasAll(w, Multiplications[7]) <=> ins.major = "arith" /\ ins.f3 = 6 /\ ins.f7 = 1
      /\ HasAll(w, Multiplications[8]) <=> ins.major = "arith" /\ ins.f3 = 7 /\ ins.f7 = 1
  BY MultiplicationsAre, Zenon
<1> HIDE DEF w
<1>3. HasAll(w, Multiplications[1]) => Name(ins) = Multiplications[1].func
  <2>1. ins.major = "arith" /\ ins.f3 = 0 /\ ins.f7 = 1 => Name(ins) = "mul"
    BY MultiplicationName
  <2> QED BY <1>1, <1>2, <2>1, Zenon
<1>4. HasAll(w, Multiplications[2]) => Name(ins) = Multiplications[2].func
  <2>1. ins.major = "arith" /\ ins.f3 = 1 /\ ins.f7 = 1 => Name(ins) = "mulh"
    BY MultiplicationName
  <2> QED BY <1>1, <1>2, <2>1, Zenon
<1>5. HasAll(w, Multiplications[3]) => Name(ins) = Multiplications[3].func
  <2>1. ins.major = "arith" /\ ins.f3 = 2 /\ ins.f7 = 1 => Name(ins) = "mulhsu"
    BY MultiplicationName
  <2> QED BY <1>1, <1>2, <2>1, Zenon
<1>6. HasAll(w, Multiplications[4]) => Name(ins) = Multiplications[4].func
  <2>1. ins.major = "arith" /\ ins.f3 = 3 /\ ins.f7 = 1 => Name(ins) = "mulhu"
    BY MultiplicationName
  <2> QED BY <1>1, <1>2, <2>1, Zenon
<1>7. HasAll(w, Multiplications[5]) => Name(ins) = Multiplications[5].func
  <2>1. ins.major = "arith" /\ ins.f3 = 4 /\ ins.f7 = 1 => Name(ins) = "div"
    BY MultiplicationName
  <2> QED BY <1>1, <1>2, <2>1, Zenon
<1>8. HasAll(w, Multiplications[6]) => Name(ins) = Multiplications[6].func
  <2>1. ins.major = "arith" /\ ins.f3 = 5 /\ ins.f7 = 1 => Name(ins) = "divu"
    BY MultiplicationName
  <2> QED BY <1>1, <1>2, <2>1, Zenon
<1>9. HasAll(w, Multiplications[7]) => Name(ins) = Multiplications[7].func
  <2>1. ins.major = "arith" /\ ins.f3 = 6 /\ ins.f7 = 1 => Name(ins) = "rem"
    BY MultiplicationName
  <2> QED BY <1>1, <1>2, <2>1, Zenon
<1>10. HasAll(w, Multiplications[8]) => Name(ins) = Multiplications[8].func
  <2>1. ins.major = "arith" /\ ins.f3 = 7 /\ ins.f7 = 1 => Name(ins) = "remu"
    BY MultiplicationName
  <2> QED BY <1>1, <1>2, <2>1, Zenon
<1>11. \A k \in 1 .. 8 : k = 1 \/ k = 2 \/ k = 3 \/ k = 4 \/ k = 5 \/ k = 6 \/ k = 7 \/ k = 8
  OBVIOUS
<1> DEFINE P(k) == HasAll(w, Multiplications[k]) => Name(ins) = Multiplications[k].func
<1>12. P(1) /\ P(2) /\ P(3) /\ P(4) /\ P(5) /\ P(6) /\ P(7) /\ P(8)
  BY <1>3, <1>4, <1>5, <1>6, <1>7, <1>8, <1>9, <1>10, Zenon
<1> HIDE DEF P
<1>13. \A k \in 1 .. 8 : P(k)
  BY <1>11, <1>12, Zenon
<1> QED BY <1>13 DEF w, P

\* The rows of the system instructions call what they are named for.
LEMMA SystemNamed ==
  ASSUME NEW ins \in Encodable
  PROVE  \A k \in 1 .. 10 : HasAll(Assemble(ins), System[k]) => Name(ins) = System[k].func
<1> DEFINE w == Assemble(ins)
<1>1. /\ System[1].func = "fence"
      /\ System[2].func = "fence_i"
      /\ System[3].func = "ecall"
      /\ System[4].func = "ebreak"
      /\ System[5].func = "csrrw"
      /\ System[6].func = "csrrs"
      /\ System[7].func = "csrrc"
      /\ System[8].func = "csrrwi"
      /\ System[9].func = "csrrsi"
      /\ System[10].func = "csrrci"
  BY DEF System, OfFunct3, Row
<1>2. /\ HasAll(w, System[1]) <=> ins.major = "misc" /\ ins.f3 = 0 /\ ins.rd = 0 /\ ins.rs1 = 0 /\ ins.imm \in 0 .. 255
      /\ HasAll(w, System[2]) <=> ins.major = "misc" /\ ins.f3 = 1 /\ ins.rd = 0 /\ ins.rs1 = 0 /\ ins.imm = 0
      /\ HasAll(w, System[3]) <=> ins.major = "system" /\ ins.f3 = 0 /\ ins.rd = 0 /\ ins.rs1 = 0 /\ ins.imm = 0
      /\ HasAll(w, System[4]) <=> ins.major = "system" /\ ins.f3 = 0 /\ ins.rd = 0 /\ ins.rs1 = 0 /\ ins.imm = 1
      /\ HasAll(w, System[5]) <=> ins.major = "system" /\ ins.f3 = 1
      /\ HasAll(w, System[6]) <=> ins.major = "system" /\ ins.f3 = 2
      /\ HasAll(w, System[7]) <=> ins.major = "system" /\ ins.f3 = 3
      /\ HasAll(w, System[8]) <=> ins.major = "system" /\ ins.f3 = 5
      /\ HasAll(w, System[9]) <=> ins.major = "system" /\ ins.f3 = 6
      /\ HasAll(w, System[10]) <=> ins.major = "system" /\ ins.f3 = 7
  BY SystemAre, Zenon
<1> HIDE DEF w
<1>3. HasAll(w, System[1]) => Name(ins) = System[1].func
  <2>1. ins.major = "misc" /\ ins.f3 = 0 /\ ins.rd = 0 /\ ins.rs1 = 0 /\ ins.imm \in 0 .. 255 => Name(ins) = "fence"
    BY FenceName
  <2> QED BY <1>1, <1>2, <2>1, Zenon
<1>4. HasAll(w, System[2]) => Name(ins) = System[2].func
  <2>1. ins.major = "misc" /\ ins.f3 = 1 /\ ins.rd = 0 /\ ins.rs1 = 0 /\ ins.imm = 0 => Name(ins) = "fence_i"
    BY FenceName
  <2> QED BY <1>1, <1>2, <2>1, Zenon
<1>5. HasAll(w, System[3]) => Name(ins) = System[3].func
  <2>1. ins.major = "system" /\ ins.f3 = 0 /\ ins.rd = 0 /\ ins.rs1 = 0 /\ ins.imm = 0 => Name(ins) = "ecall"
    BY SystemName
  <2> QED BY <1>1, <1>2, <2>1, Zenon
<1>6. HasAll(w, System[4]) => Name(ins) = System[4].func
  <2>1. ins.major = "system" /\ ins.f3 = 0 /\ ins.rd = 0 /\ ins.rs1 = 0 /\ ins.imm = 1 => Name(ins) = "ebreak"
    BY SystemName
  <2> QED BY <1>1, <1>2, <2>1, Zenon
<1>7. HasAll(w, System[5]) => Name(ins) = System[5].func
  <2>1. ins.major = "system" /\ ins.f3 = 1 => Name(ins) = "csrrw"
    BY SystemName
  <2> QED BY <1>1, <1>2, <2>1, Zenon
<1>8. HasAll(w, System[6]) => Name(ins) = System[6].func
  <2>1. ins.major = "system" /\ ins.f3 = 2 => Name(ins) = "csrrs"
    BY SystemName
  <2> QED BY <1>1, <1>2, <2>1, Zenon
<1>9. HasAll(w, System[7]) => Name(ins) = System[7].func
  <2>1. ins.major = "system" /\ ins.f3 = 3 => Name(ins) = "csrrc"
    BY SystemName
  <2> QED BY <1>1, <1>2, <2>1, Zenon
<1>10. HasAll(w, System[8]) => Name(ins) = System[8].func
  <2>1. ins.major = "system" /\ ins.f3 = 5 => Name(ins) = "csrrwi"
    BY SystemName
  <2> QED BY <1>1, <1>2, <2>1, Zenon
<1>11. HasAll(w, System[9]) => Name(ins) = System[9].func
  <2>1. ins.major = "system" /\ ins.f3 = 6 => Name(ins) = "csrrsi"
    BY SystemName
  <2> QED BY <1>1, <1>2, <2>1, Zenon
<1>12. HasAll(w, System[10]) => Name(ins) = System[10].func
  <2>1. ins.major = "system" /\ ins.f3 = 7 => Name(ins) = "csrrci"
    BY SystemName
  <2> QED BY <1>1, <1>2, <2>1, Zenon
<1>13. \A k \in 1 .. 10 : k = 1 \/ k = 2 \/ k = 3 \/ k = 4 \/ k = 5 \/ k = 6 \/ k = 7 \/ k = 8 \/ k = 9 \/ k = 10
  OBVIOUS
<1> DEFINE P(k) == HasAll(w, System[k]) => Name(ins) = System[k].func
<1>14. P(1) /\ P(2) /\ P(3) /\ P(4) /\ P(5) /\ P(6) /\ P(7) /\ P(8) /\ P(9) /\ P(10)
  BY <1>3, <1>4, <1>5, <1>6, <1>7, <1>8, <1>9, <1>10, <1>11, <1>12, Zenon
<1> HIDE DEF P
<1>15. \A k \in 1 .. 10 : P(k)
  BY <1>13, <1>14, Zenon
<1> QED BY <1>15 DEF w, P


\* A jump or upper immediate that has a name matches a row.
LEMMA JumpsFound ==
  ASSUME NEW ins \in Encodable, ins.major \in {"auipc", "lui", "jal", "jalr", "branch"}
  PROVE  Name(ins) = "unknown" \/ \E k \in 1 .. 10 : HasAll(Assemble(ins), Jumps[k])
<1> DEFINE w == Assemble(ins)
<1>1. /\ HasAll(w, Jumps[1]) <=> ins.major = "auipc"
      /\ HasAll(w, Jumps[2]) <=> ins.major = "lui"
      /\ HasAll(w, Jumps[3]) <=> ins.major = "jal"
      /\ HasAll(w, Jumps[4]) <=> ins.major = "jalr" /\ ins.f3 = 0
      /\ HasAll(w, Jumps[5]) <=> ins.major = "branch" /\ ins.f3 = 0
      /\ HasAll(w, Jumps[6]) <=> ins.major = "branch" /\ ins.f3 = 1
      /\ HasAll(w, Jumps[7]) <=> ins.major = "branch" /\ ins.f3 = 4
      /\ HasAll(w, Jumps[8]) <=> ins.major = "branch" /\ ins.f3 = 5
      /\ HasAll(w, Jumps[9]) <=> ins.major = "branch" /\ ins.f3 = 6
      /\ HasAll(w, Jumps[10]) <=> ins.major = "branch" /\ ins.f3 = 7
  BY JumpsAre, Zenon
<1>2. ins.f3 = 0 \/ ins.f3 = 1 \/ ins.f3 = 2 \/ ins.f3 = 3 \/ ins.f3 = 4 \/ ins.f3 = 5 \/ ins.f3 = 6 \/ ins.f3 = 7
  BY DEF Encodable
<1> HIDE DEF w
<1>3. Name(ins) = "unknown" \/
      (HasAll(w, Jumps[1]) \/ HasAll(w, Jumps[2]) \/ HasAll(w, Jumps[3]) \/
       HasAll(w, Jumps[4]) \/ HasAll(w, Jumps[5]) \/ HasAll(w, Jumps[6]) \/
       HasAll(w, Jumps[7]) \/ HasAll(w, Jumps[8]) \/ HasAll(w, Jumps[9]) \/
       HasAll(w, Jumps[10]))
  <2>1. CASE ins.major \in {"auipc", "lui", "jal"}
    BY <1>1, <2>1
  <2>2. CASE ins.major = "jalr"
    BY <1>1, <1>2, <2>2, JalrName
  <2>3. CASE ins.major = "branch"
    BY <1>1, <1>2, <2>3, BranchName
  <2> QED BY <2>1, <2>2, <2>3
<1>4. /\ 1 \in 1 .. 10
      /\ 2 \in 1 .. 10
      /\ 3 \in 1 .. 10
      /\ 4 \in 1 .. 10
      /\ 5 \in 1 .. 10
      /\ 6 \in 1 .. 10
      /\ 7 \in 1 .. 10
      /\ 8 \in 1 .. 10
      /\ 9 \in 1 .. 10
      /\ 10 \in 1 .. 10
  OBVIOUS
<1> QED BY <1>3, <1>4, Zenon DEF w

\* A load or store that has a name matches a row.
LEMMA AccessesFound ==
  ASSUME NEW ins \in Encodable, ins.major \in {"load", "store"}
  PROVE  Name(ins) = "unknown" \/ \E k \in 1 .. 8 : HasAll(Assemble(ins), Accesses[k])
<1> DEFINE w == Assemble(ins)
<1>1. /\ HasAll(w, Accesses[1]) <=> ins.major = "load" /\ ins.f3 = 0
      /\ HasAll(w, Accesses[2]) <=> ins.major = "load" /\ ins.f3 = 1
      /\ HasAll(w, Accesses[3]) <=> ins.major = "load" /\ ins.f3 = 2
      /\ HasAll(w, Accesses[4]) <=> ins.major = "load" /\ ins.f3 = 4
      /\ HasAll(w, Accesses[5]) <=> ins.major = "load" /\ ins.f3 = 5
      /\ HasAll(w, Accesses[6]) <=> ins.major = "store" /\ ins.f3 = 0
      /\ HasAll(w, Accesses[7]) <=> ins.major = "store" /\ ins.f3 = 1
      /\ HasAll(w, Accesses[8]) <=> ins.major = "store" /\ ins.f3 = 2
  BY AccessesAre, Zenon
<1>2. ins.f3 = 0 \/ ins.f3 = 1 \/ ins.f3 = 2 \/ ins.f3 = 3 \/ ins.f3 = 4 \/ ins.f3 = 5 \/ ins.f3 = 6 \/ ins.f3 = 7
  BY DEF Encodable
<1> HIDE DEF w
<1>3. Name(ins) = "unknown" \/
      (HasAll(w, Accesses[1]) \/ HasAll(w, Accesses[2]) \/ HasAll(w, Accesses[3]) \/
       HasAll(w, Accesses[4]) \/ HasAll(w, Accesses[5]) \/ HasAll(w, Accesses[6]) \/
       HasAll(w, Accesses[7]) \/ HasAll(w, Accesses[8]))
  <2>1. CASE ins.major = "load"
    BY <1>1, <1>2, <2>1, LoadName
  <2>2. CASE ins.major = "store"
    BY <1>1, <1>2, <2>2, StoreName
  <2> QED BY <2>1, <2>2
<1>4. /\ 1 \in 1 .. 8
      /\ 2 \in 1 .. 8
      /\ 3 \in 1 .. 8
      /\ 4 \in 1 .. 8
      /\ 5 \in 1 .. 8
      /\ 6 \in 1 .. 8
      /\ 7 \in 1 .. 8
      /\ 8 \in 1 .. 8
  OBVIOUS
<1> QED BY <1>3, <1>4, Zenon DEF w

\* An operation with an immediate that has a name matches a row.
LEMMA ImmediatesFound ==
  ASSUME NEW ins \in Encodable, ins.major \in {"opimm"}
  PROVE  Name(ins) = "unknown" \/ \E k \in 1 .. 9 : HasAll(Assemble(ins), Immediates[k])
<1> DEFINE w == Assemble(ins)
<1>1. /\ HasAll(w, Immediates[1]) <=> ins.major = "opimm" /\ ins.f3 = 0
      /\ HasAll(w, Immediates[2]) <=> ins.major = "opimm" /\ ins.f3 = 2
      /\ HasAll(w, Immediates[3]) <=> ins.major = "opimm" /\ ins.f3 = 3
      /\ HasAll(w, Immediates[4]) <=> ins.major = "opimm" /\ ins.f3 = 4
      /\ HasAll(w, Immediates[5]) <=> ins.major = "opimm" /\ ins.f3 = 6
      /\ HasAll(w, Immediates[6]) <=> ins.major = "opimm" /\ ins.f3 = 7
      /\ HasAll(w, Immediates[7]) <=> ins.major = "opimm" /\ ins.f3 = 1 /\ ins.imm \div 32 = 0
      /\ HasAll(w, Immediates[8]) <=> ins.major = "opimm" /\ ins.f3 = 5 /\ ins.imm \div 32 = 0
      /\ HasAll(w, Immediates[9]) <=> ins.major = "opimm" /\ ins.f3 = 5 /\ ins.imm \div 32 = 32
  BY ImmediatesAre, Zenon
<1>2. ins.f3 = 0 \/ ins.f3 = 1 \/ ins.f3 = 2 \/ ins.f3 = 3 \/ ins.f3 = 4 \/ ins.f3 = 5 \/ ins.f3 = 6 \/ ins.f3 = 7
  BY DEF Encodable
<1> HIDE DEF w
<1>3. Name(ins) = "unknown" \/
      (HasAll(w, Immediates[1]) \/ HasAll(w, Immediates[2]) \/ HasAll(w, Immediates[3]) \/
       HasAll(w, Immediates[4]) \/ HasAll(w, Immediates[5]) \/ HasAll(w, Immediates[6]) \/
       HasAll(w, Immediates[7]) \/ HasAll(w, Immediates[8]) \/ HasAll(w, Immediates[9]))
  <2>1. CASE ins.major = "opimm"
    BY <1>1, <1>2, <2>1, ImmediateName
  <2> QED BY <2>1
<1>4. /\ 1 \in 1 .. 9
      /\ 2 \in 1 .. 9
      /\ 3 \in 1 .. 9
      /\ 4 \in 1 .. 9
      /\ 5 \in 1 .. 9
      /\ 6 \in 1 .. 9
      /\ 7 \in 1 .. 9
      /\ 8 \in 1 .. 9
      /\ 9 \in 1 .. 9
  OBVIOUS
<1> QED BY <1>3, <1>4, Zenon DEF w

\* A system instruction that has a name matches a row.
LEMMA SystemFound ==
  ASSUME NEW ins \in Encodable, ins.major \in {"misc", "system"}
  PROVE  Name(ins) = "unknown" \/ \E k \in 1 .. 10 : HasAll(Assemble(ins), System[k])
<1> DEFINE w == Assemble(ins)
<1>1. /\ HasAll(w, System[1]) <=> ins.major = "misc" /\ ins.f3 = 0 /\ ins.rd = 0 /\ ins.rs1 = 0 /\ ins.imm \in 0 .. 255
      /\ HasAll(w, System[2]) <=> ins.major = "misc" /\ ins.f3 = 1 /\ ins.rd = 0 /\ ins.rs1 = 0 /\ ins.imm = 0
      /\ HasAll(w, System[3]) <=> ins.major = "system" /\ ins.f3 = 0 /\ ins.rd = 0 /\ ins.rs1 = 0 /\ ins.imm = 0
      /\ HasAll(w, System[4]) <=> ins.major = "system" /\ ins.f3 = 0 /\ ins.rd = 0 /\ ins.rs1 = 0 /\ ins.imm = 1
      /\ HasAll(w, System[5]) <=> ins.major = "system" /\ ins.f3 = 1
      /\ HasAll(w, System[6]) <=> ins.major = "system" /\ ins.f3 = 2
      /\ HasAll(w, System[7]) <=> ins.major = "system" /\ ins.f3 = 3
      /\ HasAll(w, System[8]) <=> ins.major = "system" /\ ins.f3 = 5
      /\ HasAll(w, System[9]) <=> ins.major = "system" /\ ins.f3 = 6
      /\ HasAll(w, System[10]) <=> ins.major = "system" /\ ins.f3 = 7
  BY SystemAre, Zenon
<1>2. ins.f3 = 0 \/ ins.f3 = 1 \/ ins.f3 = 2 \/ ins.f3 = 3 \/ ins.f3 = 4 \/ ins.f3 = 5 \/ ins.f3 = 6 \/ ins.f3 = 7
  BY DEF Encodable
<1> HIDE DEF w
<1>3. Name(ins) = "unknown" \/
      (HasAll(w, System[1]) \/ HasAll(w, System[2]) \/ HasAll(w, System[3]) \/
       HasAll(w, System[4]) \/ HasAll(w, System[5]) \/ HasAll(w, System[6]) \/
       HasAll(w, System[7]) \/ HasAll(w, System[8]) \/ HasAll(w, System[9]) \/
       HasAll(w, System[10]))
  <2>1. CASE ins.major = "misc"
    BY <1>1, <1>2, <2>1, FenceName
  <2>2. CASE ins.major = "system"
    BY <1>1, <1>2, <2>2, SystemName
  <2> QED BY <2>1, <2>2
<1>4. /\ 1 \in 1 .. 10
      /\ 2 \in 1 .. 10
      /\ 3 \in 1 .. 10
      /\ 4 \in 1 .. 10
      /\ 5 \in 1 .. 10
      /\ 6 \in 1 .. 10
      /\ 7 \in 1 .. 10
      /\ 8 \in 1 .. 10
      /\ 9 \in 1 .. 10
      /\ 10 \in 1 .. 10
  OBVIOUS
<1> QED BY <1>3, <1>4, Zenon DEF w

\* An operation between registers that has a name matches a row.
LEMMA RegistersFound ==
  ASSUME NEW ins \in Encodable, ins.major = "arith"
  PROVE  \/ Name(ins) = "unknown"
         \/ \E k \in 1 .. 10 : HasAll(Assemble(ins), Registers[k])
         \/ \E k \in 1 .. 8 : HasAll(Assemble(ins), Multiplications[k])
<1> DEFINE w == Assemble(ins)
<1>1. /\ HasAll(w, Registers[1]) <=> ins.major = "arith" /\ ins.f3 = 0 /\ ins.f7 = 0
      /\ HasAll(w, Registers[2]) <=> ins.major = "arith" /\ ins.f3 = 0 /\ ins.f7 = 32
      /\ HasAll(w, Registers[3]) <=> ins.major = "arith" /\ ins.f3 = 1 /\ ins.f7 = 0
      /\ HasAll(w, Registers[4]) <=> ins.major = "arith" /\ ins.f3 = 2 /\ ins.f7 = 0
      /\ HasAll(w, Registers[5]) <=> ins.major = "arith" /\ ins.f3 = 3 /\ ins.f7 = 0
      /\ HasAll(w, Registers[6]) <=> ins.major = "arith" /\ ins.f3 = 4 /\ ins.f7 = 0
      /\ HasAll(w, Registers[7]) <=> ins.major = "arith" /\ ins.f3 = 5 /\ ins.f7 = 0
      /\ HasAll(w, Registers[8]) <=> ins.major = "arith" /\ ins.f3 = 5 /\ ins.f7 = 32
      /\ HasAll(w, Registers[9]) <=> ins.major = "arith" /\ ins.f3 = 6 /\ ins.f7 = 0
      /\ HasAll(w, Registers[10]) <=> ins.major = "arith" /\ ins.f3 = 7 /\ ins.f7 = 0
  BY RegistersAre, Zenon
<1>2. /\ HasAll(w, Multiplications[1]) <=> ins.major = "arith" /\ ins.f3 = 0 /\ ins.f7 = 1
      /\ HasAll(w, Multiplications[2]) <=> ins.major = "arith" /\ ins.f3 = 1 /\ ins.f7 = 1
      /\ HasAll(w, Multiplications[3]) <=> ins.major = "arith" /\ ins.f3 = 2 /\ ins.f7 = 1
      /\ HasAll(w, Multiplications[4]) <=> ins.major = "arith" /\ ins.f3 = 3 /\ ins.f7 = 1
      /\ HasAll(w, Multiplications[5]) <=> ins.major = "arith" /\ ins.f3 = 4 /\ ins.f7 = 1
      /\ HasAll(w, Multiplications[6]) <=> ins.major = "arith" /\ ins.f3 = 5 /\ ins.f7 = 1
      /\ HasAll(w, Multiplications[7]) <=> ins.major = "arith" /\ ins.f3 = 6 /\ ins.f7 = 1
      /\ HasAll(w, Multiplications[8]) <=> ins.major = "arith" /\ ins.f3 = 7 /\ ins.f7 = 1
  BY MultiplicationsAre, Zenon
<1>3. ins.f3 = 0 \/ ins.f3 = 1 \/ ins.f3 = 2 \/ ins.f3 = 3 \/ ins.f3 = 4 \/ ins.f3 = 5 \/ ins.f3 = 6 \/ ins.f3 = 7
  BY DEF Encodable
<1> HIDE DEF w
<1>4. CASE ins.f7 = 0
  <2>1. Name(ins) = "unknown" \/
        (HasAll(w, Registers[1]) \/ HasAll(w, Registers[2]) \/ HasAll(w, Registers[3]) \/
         HasAll(w, Registers[4]) \/ HasAll(w, Registers[5]) \/ HasAll(w, Registers[6]) \/
         HasAll(w, Registers[7]) \/ HasAll(w, Registers[8]) \/ HasAll(w, Registers[9]) \/
         HasAll(w, Registers[10]))
    BY <1>1, <1>3, <1>4, RegisterName
  <2>2. /\ 1 \in 1 .. 10
        /\ 2 \in 1 .. 10
        /\ 3 \in 1 .. 10
        /\ 4 \in 1 .. 10
        /\ 5 \in 1 .. 10
        /\ 6 \in 1 .. 10
        /\ 7 \in 1 .. 10
        /\ 8 \in 1 .. 10
        /\ 9 \in 1 .. 10
        /\ 10 \in 1 .. 10
    OBVIOUS
  <2> QED BY <2>1, <2>2, Zenon DEF w
<1>5. CASE ins.f7 = 32
  <2>1. Name(ins) = "unknown" \/ HasAll(w, Registers[2]) \/ HasAll(w, Registers[8])
    BY <1>1, <1>3, <1>5, AlternateName
  <2>2. 2 \in 1 .. 10 /\ 8 \in 1 .. 10
    OBVIOUS
  <2> QED BY <2>1, <2>2, Zenon DEF w
<1>6. CASE ins.f7 = 1
  <2>1. Name(ins) = "unknown" \/
        (HasAll(w, Multiplications[1]) \/ HasAll(w, Multiplications[2]) \/
         HasAll(w, Multiplications[3]) \/ HasAll(w, Multiplications[4]) \/
         HasAll(w, Multiplications[5]) \/ HasAll(w, Multiplications[6]) \/
         HasAll(w, Multiplications[7]) \/ HasAll(w, Multiplications[8]))
    BY <1>2, <1>3, <1>6, MultiplicationName
  <2>2. /\ 1 \in 1 .. 8
        /\ 2 \in 1 .. 8
        /\ 3 \in 1 .. 8
        /\ 4 \in 1 .. 8
        /\ 5 \in 1 .. 8
        /\ 6 \in 1 .. 8
        /\ 7 \in 1 .. 8
        /\ 8 \in 1 .. 8
    OBVIOUS
  <2> QED BY <2>1, <2>2, Zenon DEF w
<1>7. CASE ins.f7 \notin {0, 32, 1}
  BY <1>3, <1>7, ReservedName
<1> QED BY <1>4, <1>5, <1>6, <1>7

\* Each row of the table but the last matches the instructions it is named for,
\* and every instruction with a name matches one of them.
LEMMA Recognised ==
  ASSUME NEW ins \in Encodable
  PROVE  /\ \A r \in 1 .. 55 : HasAll(Assemble(ins), opcodes[r]) => Name(ins) = opcodes[r].func
         /\ Name(ins) = "unknown" \/ \E r \in 1 .. 55 : HasAll(Assemble(ins), opcodes[r])
<1> DEFINE w == Assemble(ins)
           P(row) == HasAll(w, row) => Name(ins) = row.func
<1>1. /\ \A k \in 1 .. 10 : P(Jumps[k])
      /\ \A k \in 1 .. 8 : P(Accesses[k])
      /\ \A k \in 1 .. 9 : P(Immediates[k])
      /\ \A k \in 1 .. 10 : P(Registers[k])
      /\ \A k \in 1 .. 10 : P(System[k])
      /\ \A k \in 1 .. 8 : P(Multiplications[k])
  BY JumpsNamed, AccessesNamed, ImmediatesNamed, RegistersNamed, SystemNamed, MultiplicationsNamed, Zenon
<1>2. \/ Name(ins) = "unknown"
      \/ \E k \in 1 .. 10 : HasAll(w, Jumps[k])
      \/ \E k \in 1 .. 8 : HasAll(w, Accesses[k])
      \/ \E k \in 1 .. 9 : HasAll(w, Immediates[k])
      \/ \E k \in 1 .. 10 : HasAll(w, Registers[k])
      \/ \E k \in 1 .. 10 : HasAll(w, System[k])
      \/ \E k \in 1 .. 8 : HasAll(w, Multiplications[k])
  <2>1. ins.major \in {"auipc", "lui", "jal", "jalr", "branch", "load", "store", "opimm",
                       "arith", "misc", "system"}
    BY DEF Encodable, Majors
  <2> QED BY <2>1, JumpsFound, AccessesFound, ImmediatesFound, RegistersFound, SystemFound
<1> HIDE DEF w, P
<1>3. ASSUME NEW r \in 1 .. 55 PROVE P(opcodes[r])
  <2>1. \/ r \in 1 .. 10 \/ r - 10 \in 1 .. 8 \/ r - 18 \in 1 .. 9
        \/ r - 27 \in 1 .. 10 \/ r - 37 \in 1 .. 10 \/ r - 47 \in 1 .. 8
    OBVIOUS
  <2>2. /\ 0 + r = r /\ 10 + (r - 10) = r /\ 18 + (r - 18) = r
        /\ 27 + (r - 27) = r /\ 37 + (r - 37) = r /\ 47 + (r - 47) = r
    OBVIOUS
  <2> QED BY <1>1, <2>1, <2>2, Table
<1>4. ASSUME NEW k \in 1 .. 10
      PROVE  0 + k \in 1 .. 55 /\ 27 + k \in 1 .. 55 /\ 37 + k \in 1 .. 55
  OBVIOUS
<1>5. ASSUME NEW k \in 1 .. 9 PROVE 18 + k \in 1 .. 55
  OBVIOUS
<1>6. ASSUME NEW k \in 1 .. 8 PROVE 10 + k \in 1 .. 55 /\ 47 + k \in 1 .. 55
  OBVIOUS
<1>7. Name(ins) = "unknown" \/ \E r \in 1 .. 55 : HasAll(w, opcodes[r])
  BY <1>2, <1>4, <1>5, <1>6, Table
<1>8. \A r \in 1 .. 55 : HasAll(w, opcodes[r]) => Name(ins) = opcodes[r].func
  BY <1>3 DEF P
<1> QED BY <1>7, <1>8 DEF w


\* No row fixes a bit twice.
LEMMA RowsApart == \A r \in 1 .. 56 : Apart(opcodes[r])
<1>0. /\ \A func : \A p \in Int : Apart(OfOpcode(func, p))
      /\ \A func : \A f3 \in Int : \A p \in Int : Apart(OfFunct3(func, f3, p))
      /\ \A func : \A f7 \in Int : \A f3 \in Int : \A p \in Int : Apart(OfFunct7(func, f7, f3, p))
  BY Forms
<1>1. ASSUME NEW func
      PROVE  /\ Apart(Row(func, {<<31, 28, 0>>, <<19, 0, 15>>}))
             /\ Apart(Row(func, {<<31, 12, 1>>, <<11, 0, 15>>}))
             /\ Apart(Row(func, {<<31, 0, 115>>}))
             /\ Apart(Row(func, {<<31, 20, 1>>, <<19, 0, 115>>}))
             /\ Apart(Row(func, {}))
  BY DEF Apart, Row, BitPos
<1>2. {0, 1, 2, 3, 4, 5, 6, 7, 32, 23, 55, 111, 103, 99, 35, 19, 51, 115} \subseteq Int
  OBVIOUS
<1>3. ASSUME NEW k \in 1 .. 10 PROVE Apart(Jumps[k])
  <2>1. /\ Apart(Jumps[1])
        /\ Apart(Jumps[2])
        /\ Apart(Jumps[3])
        /\ Apart(Jumps[4])
        /\ Apart(Jumps[5])
        /\ Apart(Jumps[6])
        /\ Apart(Jumps[7])
        /\ Apart(Jumps[8])
        /\ Apart(Jumps[9])
        /\ Apart(Jumps[10])
    BY <1>0, <1>1, <1>2 DEF Jumps
  <2>2. k = 1 \/ k = 2 \/ k = 3 \/ k = 4 \/ k = 5 \/ k = 6 \/ k = 7 \/ k = 8 \/ k = 9 \/ k = 10
    OBVIOUS
  <2> QED BY <2>1, <2>2, Zenon
<1>4. ASSUME NEW k \in 1 .. 8 PROVE Apart(Accesses[k])
  <2>1. /\ Apart(Accesses[1])
        /\ Apart(Accesses[2])
        /\ Apart(Accesses[3])
        /\ Apart(Accesses[4])
        /\ Apart(Accesses[5])
        /\ Apart(Accesses[6])
        /\ Apart(Accesses[7])
        /\ Apart(Accesses[8])
    BY <1>0, <1>1, <1>2 DEF Accesses
  <2>2. k = 1 \/ k = 2 \/ k = 3 \/ k = 4 \/ k = 5 \/ k = 6 \/ k = 7 \/ k = 8
    OBVIOUS
  <2> QED BY <2>1, <2>2, Zenon
<1>5. ASSUME NEW k \in 1 .. 9 PROVE Apart(Immediates[k])
  <2>1. /\ Apart(Immediates[1])
        /\ Apart(Immediates[2])
        /\ Apart(Immediates[3])
        /\ Apart(Immediates[4])
        /\ Apart(Immediates[5])
        /\ Apart(Immediates[6])
        /\ Apart(Immediates[7])
        /\ Apart(Immediates[8])
        /\ Apart(Immediates[9])
    BY <1>0, <1>1, <1>2 DEF Immediates
  <2>2. k = 1 \/ k = 2 \/ k = 3 \/ k = 4 \/ k = 5 \/ k = 6 \/ k = 7 \/ k = 8 \/ k = 9
    OBVIOUS
  <2> QED BY <2>1, <2>2, Zenon
<1>6. ASSUME NEW k \in 1 .. 10 PROVE Apart(Registers[k])
  <2>1. /\ Apart(Registers[1])
        /\ Apart(Registers[2])
        /\ Apart(Registers[3])
        /\ Apart(Registers[4])
        /\ Apart(Registers[5])
        /\ Apart(Registers[6])
        /\ Apart(Registers[7])
        /\ Apart(Registers[8])
        /\ Apart(Registers[9])
        /\ Apart(Registers[10])
    BY <1>0, <1>1, <1>2 DEF Registers
  <2>2. k = 1 \/ k = 2 \/ k = 3 \/ k = 4 \/ k = 5 \/ k = 6 \/ k = 7 \/ k = 8 \/ k = 9 \/ k = 10
    OBVIOUS
  <2> QED BY <2>1, <2>2, Zenon
<1>7. ASSUME NEW k \in 1 .. 8 PROVE Apart(Multiplications[k])
  <2>1. /\ Apart(Multiplications[1])
        /\ Apart(Multiplications[2])
        /\ Apart(Multiplications[3])
        /\ Apart(Multiplications[4])
        /\ Apart(Multiplications[5])
        /\ Apart(Multiplications[6])
        /\ Apart(Multiplications[7])
        /\ Apart(Multiplications[8])
    BY <1>0, <1>1, <1>2 DEF Multiplications
  <2>2. k = 1 \/ k = 2 \/ k = 3 \/ k = 4 \/ k = 5 \/ k = 6 \/ k = 7 \/ k = 8
    OBVIOUS
  <2> QED BY <2>1, <2>2, Zenon
<1>8. ASSUME NEW k \in 1 .. 10 PROVE Apart(System[k])
  <2>1. /\ Apart(System[1])
        /\ Apart(System[2])
        /\ Apart(System[3])
        /\ Apart(System[4])
        /\ Apart(System[5])
        /\ Apart(System[6])
        /\ Apart(System[7])
        /\ Apart(System[8])
        /\ Apart(System[9])
        /\ Apart(System[10])
    BY <1>0, <1>1, <1>2 DEF System
  <2>2. k = 1 \/ k = 2 \/ k = 3 \/ k = 4 \/ k = 5 \/ k = 6 \/ k = 7 \/ k = 8 \/ k = 9 \/ k = 10
    OBVIOUS
  <2> QED BY <2>1, <2>2, Zenon
<1>9. ASSUME NEW r \in 1 .. 56 PROVE Apart(opcodes[r])
  <2>1. \/ r \in 1 .. 10 \/ r - 10 \in 1 .. 8 \/ r - 18 \in 1 .. 9
        \/ r - 27 \in 1 .. 10 \/ r - 37 \in 1 .. 10 \/ r - 47 \in 1 .. 8 \/ r = 56
    OBVIOUS
  <2>2. /\ 0 + r = r /\ 10 + (r - 10) = r /\ 18 + (r - 18) = r
        /\ 27 + (r - 27) = r /\ 37 + (r - 37) = r /\ 47 + (r - 47) = r
    OBVIOUS
  <2> QED BY <1>1, <1>3, <1>4, <1>5, <1>6, <1>7, <1>8, <2>1, <2>2, Table
<1> QED BY <1>9

\* The opcodes of the manual's 32-bit instructions end in two ones.
LEMMA LowBits ==
  ASSUME NEW ins \in Encodable
  PROVE  Assemble(ins)[0] = 1 /\ Assemble(ins)[1] = 1
<1> DEFINE c == Majors[ins.major].opcode
<1>1. c \in {23, 55, 111, 103, 99, 3, 35, 19, 51, 15, 115}
  BY DEF Encodable, Majors
<1>2. Assemble(ins)[0] = BitsOf(c)[0] /\ Assemble(ins)[1] = BitsOf(c)[1]
  BY AssembledBits
<1> HIDE DEF c
<1>3. ASSUME NEW n \in Int, n % 2 = 1, (n \div 2) % 2 = 1
      PROVE  BitsOf(n)[0] = 1 /\ BitsOf(n)[1] = 1
  <2>1. 2 ^ 0 = 1 /\ 2 ^ 1 = 2 /\ n \div 1 = n
    BY SMT
  <2>2. BitsOf(n)[0] = (n \div (2 ^ 0)) % 2 /\ BitsOf(n)[1] = (n \div (2 ^ 1)) % 2
    BY DEF BitsOf, BitPos
  <2> QED BY <1>3, <2>1, <2>2
<1>4. c \in Int /\ c % 2 = 1 /\ (c \div 2) % 2 = 1
  BY <1>1
<1> QED BY <1>2, <1>3, <1>4

-----------------------------------------------------------------------------
(* The steps.                                                              *)

\* The rows compiled so far, the word that was assembled, and what decode and
\* do_op made of it.
IInv ==
  /\ at \in {"initialise", "fetch", "decode", "execute", "done"}
  /\ i \in 1 .. 56
  /\ DOMAIN mask = 1 .. 56 /\ DOMAIN value = 1 .. 56
  /\ \A r \in 1 .. 56 :
       at # "initialise" \/ r < i => /\ mask[r] = Compile(opcodes[r], MaskBit)
                                    /\ value[r] = Compile(opcodes[r], ValueBit)
  /\ at \in {"decode", "execute", "done"} =>
       instruction \in Encodable /\ current_instr = Assemble(instruction)
  /\ at \in {"execute", "done"} => field = Fields(current_instr)
  /\ at = "done" => op = Name(instruction)

\* The instructions fetched are the manual's.
LEMMA InstructionsEncodable == Instructions \subseteq Encodable
  BY InstructionsAssumption DEF Encodable

\* The word is compared with the row's pattern.
LEMMA MatchesRow ==
  ASSUME NEW r \in 1 .. 56, NEW w \in Word32,
         mask[r] = Compile(opcodes[r], MaskBit), value[r] = Compile(opcodes[r], ValueBit)
  PROVE  Matches(w, r) <=> HasAll(w, opcodes[r])
<1> DEFINE row == opcodes[r]
<1>1. /\ mask[r] = [b \in BitPos |-> MaskBit[Spec32(row, 31 - b)]]
      /\ value[r] = [b \in BitPos |-> ValueBit[Spec32(row, 31 - b)]]
  BY Compiled
<1>2. Apart(row)
  BY RowsApart
<1> HIDE DEF row
<1>3. Matches(w, r) <=>
        \A b \in BitPos : w[b] * MaskBit[Spec32(row, 31 - b)] = ValueBit[Spec32(row, 31 - b)]
  BY <1>1 DEF Matches
<1> QED BY <1>2, <1>3, MatchBits DEF row

\* The first row that matches an instruction is the one named for it.
LEMMA FirstMatch ==
  ASSUME NEW ins \in Encodable, NEW r \in 1 .. 56,
         \A s \in 1 .. 56 : Matches(Assemble(ins), s) <=> HasAll(Assemble(ins), opcodes[s]),
         Matches(Assemble(ins), r),
         \A s \in 1 .. r - 1 : ~Matches(Assemble(ins), s)
  PROVE  opcodes[r].func = Name(ins)
<1>1. CASE r \in 1 .. 55
  BY <1>1, Recognised, Zenon
<1>2. CASE r = 56
  <2>1. \A s \in 1 .. 55 : ~HasAll(Assemble(ins), opcodes[s])
    BY <1>2
  <2>2. Name(ins) = "unknown"
    BY <2>1, Recognised, Zenon
  <2>3. opcodes[56].func = "unknown"
    BY Table DEF Row
  <2> QED BY <1>2, <2>2, <2>3
<1>3. r \in 1 .. 55 \/ r = 56
  OBVIOUS
<1> QED BY <1>1, <1>2, <1>3

\* The table is empty at first.
LEMMA Start == Init => IInv
<1>1. Len(opcodes) = 56
  BY Table, Zenon
<1> QED BY <1>1 DEF Init, IInv, Rows

\* riscv_initialise compiles the rows one by one.
LEMMA InitialiseStep == IInv /\ Initialise => IInv'
<1> SUFFICES ASSUME IInv, Initialise PROVE IInv'
  OBVIOUS
<1>1. Len(opcodes) = 56
  BY Table, Zenon
<1>2. at = "initialise" /\ i \in 1 .. 56 /\ DOMAIN mask = 1 .. 56 /\ DOMAIN value = 1 .. 56
  BY DEF IInv, Initialise
<1>3. /\ DOMAIN mask' = 1 .. 56 /\ DOMAIN value' = 1 .. 56
      /\ mask'[i] = Compile(opcodes[i], MaskBit) /\ value'[i] = Compile(opcodes[i], ValueBit)
      /\ \A r \in 1 .. 56 : r # i => mask'[r] = mask[r] /\ value'[r] = value[r]
  BY <1>2 DEF Initialise
<1>4. \A r \in 1 .. 56 : r < i => /\ mask[r] = Compile(opcodes[r], MaskBit)
                                 /\ value[r] = Compile(opcodes[r], ValueBit)
  BY DEF IInv
<1>5. \A r \in 1 .. 56 : r < i + 1 => /\ mask'[r] = Compile(opcodes[r], MaskBit)
                                     /\ value'[r] = Compile(opcodes[r], ValueBit)
  <2>1. \A r \in 1 .. 56 : r < i + 1 => r = i \/ r < i
    BY <1>2
  <2> QED BY <1>3, <1>4, <2>1
<1>6. CASE i = Len(opcodes)
  <2>1. at' = "fetch" /\ i' = i
    BY <1>6 DEF Initialise
  <2>2. \A r \in 1 .. 56 : r < i + 1
    BY <1>1, <1>6
  <2> QED BY <1>2, <1>3, <1>5, <2>1, <2>2 DEF IInv
<1>7. CASE i # Len(opcodes)
  <2>1. at' = "initialise" /\ i' = i + 1 /\ i + 1 \in 1 .. 56
    BY <1>1, <1>2, <1>7 DEF Initialise
  <2> QED BY <1>3, <1>5, <2>1 DEF IInv
<1> QED BY <1>6, <1>7

\* A word that arrives was assembled from an instruction of the manual.
LEMMA FetchStep == IInv /\ Fetch => IInv'
<1> SUFFICES ASSUME IInv, Fetch PROVE IInv'
  OBVIOUS
<1>1. /\ at = "fetch" /\ at' = "decode" /\ i' = i /\ mask' = mask /\ value' = value
      /\ instruction' \in Encodable /\ current_instr' = Assemble(instruction')
  BY InstructionsEncodable DEF Fetch
<1> QED BY <1>1 DEF IInv

\* It is taken apart, and never dismissed for its lowest bits.
LEMMA decodeStep == IInv /\ decode => IInv'
<1> SUFFICES ASSUME IInv, decode PROVE IInv'
  OBVIOUS
<1>1. /\ at = "decode" /\ i' = i /\ mask' = mask /\ value' = value /\ instruction' = instruction
      /\ current_instr' = current_instr /\ field' = Fields(current_instr)
      /\ instruction \in Encodable /\ current_instr = Assemble(instruction)
  BY DEF decode, IInv
<1>2. current_instr[0] = 1 /\ current_instr[1] = 1
  BY <1>1, LowBits
<1>3. at' = "execute"
  BY <1>2 DEF decode
<1> QED BY <1>1, <1>3 DEF IInv

\* The row that do_op finds first is the instruction's.
LEMMA ExecuteStep == IInv /\ Execute => IInv'
<1> SUFFICES ASSUME IInv, Execute PROVE IInv'
  OBVIOUS
<1>1. /\ at = "execute" /\ at' = "done" /\ i' = i /\ mask' = mask /\ value' = value
      /\ instruction' = instruction /\ current_instr' = current_instr /\ field' = field
      /\ instruction \in Encodable /\ current_instr = Assemble(instruction)
      /\ field = Fields(current_instr)
  BY DEF Execute, IInv
<1>2. PICK r \in Rows : /\ Matches(current_instr, r)
                        /\ \A earlier \in 1 .. r - 1 : ~Matches(current_instr, earlier)
                        /\ op' = opcodes[r].func
  BY DEF Execute
<1>3. r \in 1 .. 56
  <2>1. Len(opcodes) = 56
    BY Table, Zenon
  <2> QED BY <2>1 DEF Rows
<1>4. \A s \in 1 .. 56 : /\ mask[s] = Compile(opcodes[s], MaskBit)
                        /\ value[s] = Compile(opcodes[s], ValueBit)
  BY <1>1 DEF IInv
<1>5. Assemble(instruction) \in Word32
  BY <1>1, AssembleType
<1>6. \A s \in 1 .. 56 : Matches(current_instr, s) <=> HasAll(current_instr, opcodes[s])
  BY <1>1, <1>4, <1>5, MatchesRow, Zenon
<1>7. op' = Name(instruction)
  BY <1>1, <1>2, <1>3, <1>6, FirstMatch, Zenon
<1> QED BY <1>1, <1>7 DEF IInv

\* The invariant holds of every run.
LEMMA Invariant == Spec => []IInv
<1>1. IInv /\ UNCHANGED vars => IInv'
  BY DEF IInv, vars
<1>2. IInv /\ [Next]_vars => IInv'
  BY <1>1, InitialiseStep, FetchStep, decodeStep, ExecuteStep DEF Next
<1> QED BY Start, <1>2, PTL DEF Spec

-----------------------------------------------------------------------------
(* The theorems.                                                           *)

\* The core (decoder.sv) and the emulator (riscv.c) take every instruction of
\* the manual apart into the same registers and immediates.
THEOREM DecodersCorrect == Spec => []DecodersAgree
<1>1. IInv => DecodersAgree
  <2> SUFFICES ASSUME IInv, at \in {"execute", "done"}
               PROVE  /\ \A f \in {"imm12", "imm12wr", "broffset", "upper20", "jmpoffset"} :
                            Decoder!Operands(current_instr)[f] = field[f]
                      /\ \A f \in {"rd", "rs1", "rs2"} :
                            Decoder!Operands(current_instr)[f] = Decoder!Slice(field[f], 4, 0)
    BY Zenon DEF DecodersAgree
  <2>1. field = Fields(current_instr) /\ current_instr = Assemble(instruction) /\ instruction \in Encodable
    BY DEF IInv
  <2>2. current_instr \in Word32
    BY <2>1, AssembleType
  <2> QED BY <2>1, <2>2, OperandsAlike
<1> QED BY <1>1, Invariant, PTL

\* The emulator executes each instruction of the manual as the instruction it
\* is, with its operands, and those the manual reserves as unknown.
THEOREM DecodeCorrect == Spec => []DecodeInvertsAssemble
<1>1. IInv => DecodeInvertsAssemble
  <2> SUFFICES ASSUME IInv, at = "done" PROVE op = Name(instruction) /\ FieldsRight
    BY DEF DecodeInvertsAssemble
  <2>1. /\ field = Fields(current_instr) /\ current_instr = Assemble(instruction)
        /\ instruction \in Encodable /\ op = Name(instruction)
    BY DEF IInv
  <2>2. Majors[instruction.major].format \in {"R", "I", "S", "B", "U", "J"}
    BY <2>1, MajorTypes DEF Encodable
  <2>3. FieldsRight
    BY <2>1, <2>2, RegisterFields, ImmediateFields DEF FieldsRight
  <2> QED BY <2>1, <2>3
<1> QED BY <1>1, Invariant, PTL


-----------------------------------------------------------------------------
(* No two rows are alike.                                                  *)

\* The pattern fixes bit b as x.
Fixes(row, b, x) == MaskBit[Spec32(row, 31 - b)] = 1 /\ ValueBit[Spec32(row, 31 - b)] = x

\* The pattern fixes the bits from l to h as the number v.
Gives(row, h, l, v) == \A b \in l .. h : Fixes(row, b, BitsOf(v)[b - l])

\* Some bit is fixed differently by two patterns.
Clash(row, other) ==
  \E b \in BitPos : \E x, y \in {0, 1} : Fixes(row, b, x) /\ Fixes(other, b, y) /\ x # y

\* It works both ways.
LEMMA ClashBack == ASSUME NEW row, NEW other, Clash(row, other) PROVE Clash(other, row)
  BY Zenon DEF Clash

\* A triple of the table is what the pattern gives.
LEMMA TripleGives ==
  ASSUME NEW row, Apart(row), NEW f \in row.fixed
  PROVE  Gives(row, f[1], f[2], f[3])
<1>1. ASSUME NEW b \in f[2] .. f[1]
      PROVE  Fixes(row, b, BitsOf(f[3])[b - f[2]])
  <2>1. b \in BitPos /\ f[3] \in Int /\ b - f[2] \in 0 .. 31
    BY <1>1 DEF Apart, BitPos
  <2>2. BitsOf(f[3])[b - f[2]] \in {0, 1}
    BY <2>1, Digit
  <2>3. Spec32(row, 31 - b) = IF BitsOf(f[3])[b - f[2]] = 1 THEN "1" ELSE "0"
    BY <1>1, <2>1, PatternBits
  <2>4. MaskBit["0"] = 1 /\ MaskBit["1"] = 1 /\ ValueBit["0"] = 0 /\ ValueBit["1"] = 1
    BY DEF MaskBit, ValueBit, Character
  <2> QED BY <2>2, <2>3, <2>4 DEF Fixes
<1> QED BY <1>1 DEF Gives

\* Patterns that give different numbers clash.
LEMMA Differ ==
  ASSUME NEW row, NEW other, NEW v, NEW u, v # u,
         \/ v \in 0 .. 127 /\ u \in 0 .. 127 /\ Gives(row, 6, 0, v) /\ Gives(other, 6, 0, u)
         \/ v \in 0 .. 7 /\ u \in 0 .. 7 /\ Gives(row, 14, 12, v) /\ Gives(other, 14, 12, u)
         \/ v \in 0 .. 127 /\ u \in 0 .. 127 /\ Gives(row, 31, 25, v) /\ Gives(other, 31, 25, u)
  PROVE  Clash(row, other)
<1>1. v \in Int /\ u \in Int
  OBVIOUS
<1>2. CASE v \in 0 .. 127 /\ u \in 0 .. 127 /\ Gives(row, 6, 0, v) /\ Gives(other, 6, 0, u)
  <2>1. ~SameDigits(v, u, 6)
    BY <1>1, <1>2, Digits
  <2>2. PICK b \in 0 .. 6 : BitsOf(v)[b] # BitsOf(u)[b]
    BY <2>1 DEF SameDigits
  <2>3. BitsOf(v)[b] \in {0, 1} /\ BitsOf(u)[b] \in {0, 1} /\ b \in BitPos /\ b - 0 = b
    BY <1>1, Digit DEF BitPos
  <2>4. Fixes(row, b, BitsOf(v)[b]) /\ Fixes(other, b, BitsOf(u)[b])
    BY <1>2, <2>3 DEF Gives
  <2> QED BY <2>2, <2>3, <2>4, Zenon DEF Clash
<1>3. CASE v \in 0 .. 7 /\ u \in 0 .. 7 /\ Gives(row, 14, 12, v) /\ Gives(other, 14, 12, u)
  <2>1. ~SameDigits(v, u, 2)
    BY <1>1, <1>3, Digits
  <2>2. PICK c \in 0 .. 2 : BitsOf(v)[c] # BitsOf(u)[c]
    BY <2>1 DEF SameDigits
  <2>3. /\ BitsOf(v)[c] \in {0, 1} /\ BitsOf(u)[c] \in {0, 1}
        /\ c + 12 \in BitPos /\ c + 12 \in 12 .. 14 /\ (c + 12) - 12 = c
    BY <1>1, Digit DEF BitPos
  <2>4. Fixes(row, c + 12, BitsOf(v)[c]) /\ Fixes(other, c + 12, BitsOf(u)[c])
    BY <1>3, <2>3 DEF Gives
  <2> QED BY <2>2, <2>3, <2>4, Zenon DEF Clash
<1>4. CASE v \in 0 .. 127 /\ u \in 0 .. 127 /\ Gives(row, 31, 25, v) /\ Gives(other, 31, 25, u)
  <2>1. ~SameDigits(v, u, 6)
    BY <1>1, <1>4, Digits
  <2>2. PICK c \in 0 .. 6 : BitsOf(v)[c] # BitsOf(u)[c]
    BY <2>1 DEF SameDigits
  <2>3. /\ BitsOf(v)[c] \in {0, 1} /\ BitsOf(u)[c] \in {0, 1}
        /\ c + 25 \in BitPos /\ c + 25 \in 25 .. 31 /\ (c + 25) - 25 = c
    BY <1>1, Digit DEF BitPos
  <2>4. Fixes(row, c + 25, BitsOf(v)[c]) /\ Fixes(other, c + 25, BitsOf(u)[c])
    BY <1>4, <2>3 DEF Gives
  <2> QED BY <2>2, <2>3, <2>4, Zenon DEF Clash
<1> QED BY <1>2, <1>3, <1>4

\* What the usual patterns give.
LEMMA FormGives ==
  ASSUME NEW func, NEW f7 \in Int, NEW f3 \in Int, NEW p \in Int
  PROVE  /\ Gives(OfOpcode(func, p), 6, 0, p)
         /\ Gives(OfFunct3(func, f3, p), 6, 0, p) /\ Gives(OfFunct3(func, f3, p), 14, 12, f3)
         /\ Gives(OfFunct7(func, f7, f3, p), 6, 0, p) /\ Gives(OfFunct7(func, f7, f3, p), 14, 12, f3)
         /\ Gives(OfFunct7(func, f7, f3, p), 31, 25, f7)
<1>1. Apart(OfOpcode(func, p)) /\ Apart(OfFunct3(func, f3, p)) /\ Apart(OfFunct7(func, f7, f3, p))
  BY Forms
<1>2. /\ <<6, 0, p>> \in OfOpcode(func, p).fixed
      /\ <<6, 0, p>> \in OfFunct3(func, f3, p).fixed /\ <<14, 12, f3>> \in OfFunct3(func, f3, p).fixed
      /\ <<6, 0, p>> \in OfFunct7(func, f7, f3, p).fixed /\ <<14, 12, f3>> \in OfFunct7(func, f7, f3, p).fixed
      /\ <<31, 25, f7>> \in OfFunct7(func, f7, f3, p).fixed
  BY DEF OfOpcode, OfFunct3, OfFunct7, Row
<1>3. ASSUME NEW row, Apart(row), NEW h, NEW l, NEW v, <<h, l, v>> \in row.fixed
      PROVE  Gives(row, h, l, v)
  <2>1. <<h, l, v>>[1] = h /\ <<h, l, v>>[2] = l /\ <<h, l, v>>[3] = v
    OBVIOUS
  <2> DEFINE f == <<h, l, v>>
  <2>2. f \in row.fixed
    BY <1>3
  <2> HIDE DEF f
  <2>3. Gives(row, f[1], f[2], f[3])
    BY <1>3, <2>2, TripleGives
  <2> QED BY <2>1, <2>3 DEF f
<1> QED BY <1>1, <1>2, <1>3, Zenon


\* The opcode, funct3 and funct7 that a pattern gives; -1 where it gives none.
Keyed(row, p, f3, f7) ==
  /\ p \in 0 .. 127 /\ Gives(row, 6, 0, p)
  /\ f3 = -1 \/ (f3 \in 0 .. 7 /\ Gives(row, 14, 12, f3))
  /\ f7 = -1 \/ (f7 \in 0 .. 127 /\ Gives(row, 31, 25, f7))

\* Patterns that differ in a key clash.
LEMMA KeysDiffer ==
  ASSUME NEW row, NEW other, NEW p, NEW f3, NEW f7, NEW p2, NEW g3, NEW g7,
         Keyed(row, p, f3, f7), Keyed(other, p2, g3, g7),
         \/ p # p2
         \/ (f3 # g3 /\ f3 # -1 /\ g3 # -1)
         \/ (f7 # g7 /\ f7 # -1 /\ g7 # -1)
  PROVE  Clash(row, other)
<1>1. CASE p # p2
  BY <1>1, Differ DEF Keyed
<1>2. CASE f3 # g3 /\ f3 # -1 /\ g3 # -1
  BY <1>2, Differ DEF Keyed
<1>3. CASE f7 # g7 /\ f7 # -1 /\ g7 # -1
  BY <1>3, Differ DEF Keyed
<1> QED BY <1>1, <1>2, <1>3

\* The keys of a usual pattern.
LEMMA OpcodeKey == \A func : \A p \in 0 .. 127 : Keyed(OfOpcode(func, p), p, -1, -1)
<1> SUFFICES ASSUME NEW func, NEW p \in 0 .. 127
             PROVE  Keyed(OfOpcode(func, p), p, -1, -1)
  OBVIOUS
<1>1. p \in Int /\ 0 \in Int
  OBVIOUS
<1>2. Gives(OfOpcode(func, p), 6, 0, p)
  BY <1>1, FormGives
<1> QED BY <1>2 DEF Keyed

\* The keys of a usual pattern.
LEMMA Funct3Key == \A func : \A f3 \in 0 .. 7 : \A p \in 0 .. 127 : Keyed(OfFunct3(func, f3, p), p, f3, -1)
<1> SUFFICES ASSUME NEW func, NEW f3 \in 0 .. 7, NEW p \in 0 .. 127
             PROVE  Keyed(OfFunct3(func, f3, p), p, f3, -1)
  OBVIOUS
<1>1. f3 \in Int /\ p \in Int /\ 0 \in Int
  OBVIOUS
<1>2. Gives(OfFunct3(func, f3, p), 6, 0, p) /\ Gives(OfFunct3(func, f3, p), 14, 12, f3)
  BY <1>1, FormGives, Zenon
<1> QED BY <1>2 DEF Keyed

\* The keys of a usual pattern.
LEMMA Funct7Key ==
  \A func : \A f7 \in 0 .. 127 : \A f3 \in 0 .. 7 : \A p \in 0 .. 127 :
    Keyed(OfFunct7(func, f7, f3, p), p, f3, f7)
<1> SUFFICES ASSUME NEW func, NEW f7 \in 0 .. 127, NEW f3 \in 0 .. 7, NEW p \in 0 .. 127
             PROVE  Keyed(OfFunct7(func, f7, f3, p), p, f3, f7)
  BY Zenon
<1>1. f7 \in Int /\ f3 \in Int /\ p \in Int /\ 0 \in Int
  OBVIOUS
<1>2. /\ Gives(OfFunct7(func, f7, f3, p), 6, 0, p) /\ Gives(OfFunct7(func, f7, f3, p), 14, 12, f3)
      /\ Gives(OfFunct7(func, f7, f3, p), 31, 25, f7)
  BY <1>1, FormGives
<1> QED BY <1>2 DEF Keyed

\* The keys of the rows.
LEMMA JumpsKeys ==
  /\ Keyed(Jumps[1], 23, -1, -1)
  /\ Keyed(Jumps[2], 55, -1, -1)
  /\ Keyed(Jumps[3], 111, -1, -1)
  /\ Keyed(Jumps[4], 103, 0, -1)
  /\ Keyed(Jumps[5], 99, 0, -1)
  /\ Keyed(Jumps[6], 99, 1, -1)
  /\ Keyed(Jumps[7], 99, 4, -1)
  /\ Keyed(Jumps[8], 99, 5, -1)
  /\ Keyed(Jumps[9], 99, 6, -1)
  /\ Keyed(Jumps[10], 99, 7, -1)
<1>1. Keyed(Jumps[1], 23, -1, -1)
  <2>1. Jumps[1] = OfOpcode("auipc", 23)
    BY DEF Jumps
  <2>2. 23 \in 0 .. 127
    OBVIOUS
  <2> QED BY <2>1, <2>2, OpcodeKey
<1>2. Keyed(Jumps[2], 55, -1, -1)
  <2>1. Jumps[2] = OfOpcode("lui", 55)
    BY DEF Jumps
  <2>2. 55 \in 0 .. 127
    OBVIOUS
  <2> QED BY <2>1, <2>2, OpcodeKey
<1>3. Keyed(Jumps[3], 111, -1, -1)
  <2>1. Jumps[3] = OfOpcode("jal", 111)
    BY DEF Jumps
  <2>2. 111 \in 0 .. 127
    OBVIOUS
  <2> QED BY <2>1, <2>2, OpcodeKey
<1>4. Keyed(Jumps[4], 103, 0, -1)
  <2>1. Jumps[4] = OfFunct3("jalr", 0, 103)
    BY DEF Jumps
  <2>2. 103 \in 0 .. 127 /\ 0 \in 0 .. 7
    OBVIOUS
  <2> QED BY <2>1, <2>2, Funct3Key
<1>5. Keyed(Jumps[5], 99, 0, -1)
  <2>1. Jumps[5] = OfFunct3("beq", 0, 99)
    BY DEF Jumps
  <2>2. 99 \in 0 .. 127 /\ 0 \in 0 .. 7
    OBVIOUS
  <2> QED BY <2>1, <2>2, Funct3Key
<1>6. Keyed(Jumps[6], 99, 1, -1)
  <2>1. Jumps[6] = OfFunct3("bne", 1, 99)
    BY DEF Jumps
  <2>2. 99 \in 0 .. 127 /\ 1 \in 0 .. 7
    OBVIOUS
  <2> QED BY <2>1, <2>2, Funct3Key
<1>7. Keyed(Jumps[7], 99, 4, -1)
  <2>1. Jumps[7] = OfFunct3("blt", 4, 99)
    BY DEF Jumps
  <2>2. 99 \in 0 .. 127 /\ 4 \in 0 .. 7
    OBVIOUS
  <2> QED BY <2>1, <2>2, Funct3Key
<1>8. Keyed(Jumps[8], 99, 5, -1)
  <2>1. Jumps[8] = OfFunct3("bge", 5, 99)
    BY DEF Jumps
  <2>2. 99 \in 0 .. 127 /\ 5 \in 0 .. 7
    OBVIOUS
  <2> QED BY <2>1, <2>2, Funct3Key
<1>9. Keyed(Jumps[9], 99, 6, -1)
  <2>1. Jumps[9] = OfFunct3("bltu", 6, 99)
    BY DEF Jumps
  <2>2. 99 \in 0 .. 127 /\ 6 \in 0 .. 7
    OBVIOUS
  <2> QED BY <2>1, <2>2, Funct3Key
<1>10. Keyed(Jumps[10], 99, 7, -1)
  <2>1. Jumps[10] = OfFunct3("bgeu", 7, 99)
    BY DEF Jumps
  <2>2. 99 \in 0 .. 127 /\ 7 \in 0 .. 7
    OBVIOUS
  <2> QED BY <2>1, <2>2, Funct3Key
<1> QED BY <1>1, <1>2, <1>3, <1>4, <1>5, <1>6, <1>7, <1>8, <1>9, <1>10

\* No two rows of the group are alike.
LEMMA JumpsClash == \A r, s \in 1 .. 10 : r # s => Clash(Jumps[r], Jumps[s])
<1>1. \A row, other, p, f3, f7, p2, g3, g7 :
        /\ Keyed(row, p, f3, f7) /\ Keyed(other, p2, g3, g7)
        /\ \/ p # p2
           \/ (f3 # g3 /\ f3 # -1 /\ g3 # -1)
           \/ (f7 # g7 /\ f7 # -1 /\ g7 # -1)
        => Clash(row, other)
  BY KeysDiffer
<1> QED BY <1>1, JumpsKeys

\* The keys of the rows.
LEMMA AccessesKeys ==
  /\ Keyed(Accesses[1], 3, 0, -1)
  /\ Keyed(Accesses[2], 3, 1, -1)
  /\ Keyed(Accesses[3], 3, 2, -1)
  /\ Keyed(Accesses[4], 3, 4, -1)
  /\ Keyed(Accesses[5], 3, 5, -1)
  /\ Keyed(Accesses[6], 35, 0, -1)
  /\ Keyed(Accesses[7], 35, 1, -1)
  /\ Keyed(Accesses[8], 35, 2, -1)
<1>1. Keyed(Accesses[1], 3, 0, -1)
  <2>1. Accesses[1] = OfFunct3("lb", 0, 3)
    BY DEF Accesses
  <2>2. 3 \in 0 .. 127 /\ 0 \in 0 .. 7
    OBVIOUS
  <2> QED BY <2>1, <2>2, Funct3Key
<1>2. Keyed(Accesses[2], 3, 1, -1)
  <2>1. Accesses[2] = OfFunct3("lh", 1, 3)
    BY DEF Accesses
  <2>2. 3 \in 0 .. 127 /\ 1 \in 0 .. 7
    OBVIOUS
  <2> QED BY <2>1, <2>2, Funct3Key
<1>3. Keyed(Accesses[3], 3, 2, -1)
  <2>1. Accesses[3] = OfFunct3("lw", 2, 3)
    BY DEF Accesses
  <2>2. 3 \in 0 .. 127 /\ 2 \in 0 .. 7
    OBVIOUS
  <2> QED BY <2>1, <2>2, Funct3Key
<1>4. Keyed(Accesses[4], 3, 4, -1)
  <2>1. Accesses[4] = OfFunct3("lbu", 4, 3)
    BY DEF Accesses
  <2>2. 3 \in 0 .. 127 /\ 4 \in 0 .. 7
    OBVIOUS
  <2> QED BY <2>1, <2>2, Funct3Key
<1>5. Keyed(Accesses[5], 3, 5, -1)
  <2>1. Accesses[5] = OfFunct3("lhu", 5, 3)
    BY DEF Accesses
  <2>2. 3 \in 0 .. 127 /\ 5 \in 0 .. 7
    OBVIOUS
  <2> QED BY <2>1, <2>2, Funct3Key
<1>6. Keyed(Accesses[6], 35, 0, -1)
  <2>1. Accesses[6] = OfFunct3("sb", 0, 35)
    BY DEF Accesses
  <2>2. 35 \in 0 .. 127 /\ 0 \in 0 .. 7
    OBVIOUS
  <2> QED BY <2>1, <2>2, Funct3Key
<1>7. Keyed(Accesses[7], 35, 1, -1)
  <2>1. Accesses[7] = OfFunct3("sh", 1, 35)
    BY DEF Accesses
  <2>2. 35 \in 0 .. 127 /\ 1 \in 0 .. 7
    OBVIOUS
  <2> QED BY <2>1, <2>2, Funct3Key
<1>8. Keyed(Accesses[8], 35, 2, -1)
  <2>1. Accesses[8] = OfFunct3("sw", 2, 35)
    BY DEF Accesses
  <2>2. 35 \in 0 .. 127 /\ 2 \in 0 .. 7
    OBVIOUS
  <2> QED BY <2>1, <2>2, Funct3Key
<1> QED BY <1>1, <1>2, <1>3, <1>4, <1>5, <1>6, <1>7, <1>8

\* No two rows of the group are alike.
LEMMA AccessesClash == \A r, s \in 1 .. 8 : r # s => Clash(Accesses[r], Accesses[s])
<1>1. \A row, other, p, f3, f7, p2, g3, g7 :
        /\ Keyed(row, p, f3, f7) /\ Keyed(other, p2, g3, g7)
        /\ \/ p # p2
           \/ (f3 # g3 /\ f3 # -1 /\ g3 # -1)
           \/ (f7 # g7 /\ f7 # -1 /\ g7 # -1)
        => Clash(row, other)
  BY KeysDiffer
<1> QED BY <1>1, AccessesKeys

\* The keys of the rows.
LEMMA ImmediatesKeys ==
  /\ Keyed(Immediates[1], 19, 0, -1)
  /\ Keyed(Immediates[2], 19, 2, -1)
  /\ Keyed(Immediates[3], 19, 3, -1)
  /\ Keyed(Immediates[4], 19, 4, -1)
  /\ Keyed(Immediates[5], 19, 6, -1)
  /\ Keyed(Immediates[6], 19, 7, -1)
  /\ Keyed(Immediates[7], 19, 1, 0)
  /\ Keyed(Immediates[8], 19, 5, 0)
  /\ Keyed(Immediates[9], 19, 5, 32)
<1>1. Keyed(Immediates[1], 19, 0, -1)
  <2>1. Immediates[1] = OfFunct3("addi", 0, 19)
    BY DEF Immediates
  <2>2. 19 \in 0 .. 127 /\ 0 \in 0 .. 7
    OBVIOUS
  <2> QED BY <2>1, <2>2, Funct3Key
<1>2. Keyed(Immediates[2], 19, 2, -1)
  <2>1. Immediates[2] = OfFunct3("slti", 2, 19)
    BY DEF Immediates
  <2>2. 19 \in 0 .. 127 /\ 2 \in 0 .. 7
    OBVIOUS
  <2> QED BY <2>1, <2>2, Funct3Key
<1>3. Keyed(Immediates[3], 19, 3, -1)
  <2>1. Immediates[3] = OfFunct3("sltiu", 3, 19)
    BY DEF Immediates
  <2>2. 19 \in 0 .. 127 /\ 3 \in 0 .. 7
    OBVIOUS
  <2> QED BY <2>1, <2>2, Funct3Key
<1>4. Keyed(Immediates[4], 19, 4, -1)
  <2>1. Immediates[4] = OfFunct3("xori", 4, 19)
    BY DEF Immediates
  <2>2. 19 \in 0 .. 127 /\ 4 \in 0 .. 7
    OBVIOUS
  <2> QED BY <2>1, <2>2, Funct3Key
<1>5. Keyed(Immediates[5], 19, 6, -1)
  <2>1. Immediates[5] = OfFunct3("ori", 6, 19)
    BY DEF Immediates
  <2>2. 19 \in 0 .. 127 /\ 6 \in 0 .. 7
    OBVIOUS
  <2> QED BY <2>1, <2>2, Funct3Key
<1>6. Keyed(Immediates[6], 19, 7, -1)
  <2>1. Immediates[6] = OfFunct3("andi", 7, 19)
    BY DEF Immediates
  <2>2. 19 \in 0 .. 127 /\ 7 \in 0 .. 7
    OBVIOUS
  <2> QED BY <2>1, <2>2, Funct3Key
<1>7. Keyed(Immediates[7], 19, 1, 0)
  <2>1. Immediates[7] = OfFunct7("slli", 0, 1, 19)
    BY DEF Immediates
  <2>2. 19 \in 0 .. 127 /\ 1 \in 0 .. 7 /\ 0 \in 0 .. 127
    OBVIOUS
  <2> QED BY <2>1, <2>2, Funct7Key, Zenon
<1>8. Keyed(Immediates[8], 19, 5, 0)
  <2>1. Immediates[8] = OfFunct7("srli", 0, 5, 19)
    BY DEF Immediates
  <2>2. 19 \in 0 .. 127 /\ 5 \in 0 .. 7 /\ 0 \in 0 .. 127
    OBVIOUS
  <2> QED BY <2>1, <2>2, Funct7Key, Zenon
<1>9. Keyed(Immediates[9], 19, 5, 32)
  <2>1. Immediates[9] = OfFunct7("srai", 32, 5, 19)
    BY DEF Immediates
  <2>2. 19 \in 0 .. 127 /\ 5 \in 0 .. 7 /\ 32 \in 0 .. 127
    OBVIOUS
  <2> QED BY <2>1, <2>2, Funct7Key, Zenon
<1> QED BY <1>1, <1>2, <1>3, <1>4, <1>5, <1>6, <1>7, <1>8, <1>9

\* No two rows of the group are alike.
LEMMA ImmediatesClash == \A r, s \in 1 .. 9 : r # s => Clash(Immediates[r], Immediates[s])
<1>1. \A row, other, p, f3, f7, p2, g3, g7 :
        /\ Keyed(row, p, f3, f7) /\ Keyed(other, p2, g3, g7)
        /\ \/ p # p2
           \/ (f3 # g3 /\ f3 # -1 /\ g3 # -1)
           \/ (f7 # g7 /\ f7 # -1 /\ g7 # -1)
        => Clash(row, other)
  BY KeysDiffer
<1> QED BY <1>1, ImmediatesKeys

\* The keys of the rows.
LEMMA RegistersKeys ==
  /\ Keyed(Registers[1], 51, 0, 0)
  /\ Keyed(Registers[2], 51, 0, 32)
  /\ Keyed(Registers[3], 51, 1, 0)
  /\ Keyed(Registers[4], 51, 2, 0)
  /\ Keyed(Registers[5], 51, 3, 0)
  /\ Keyed(Registers[6], 51, 4, 0)
  /\ Keyed(Registers[7], 51, 5, 0)
  /\ Keyed(Registers[8], 51, 5, 32)
  /\ Keyed(Registers[9], 51, 6, 0)
  /\ Keyed(Registers[10], 51, 7, 0)
<1>1. Keyed(Registers[1], 51, 0, 0)
  <2>1. Registers[1] = OfFunct7("add", 0, 0, 51)
    BY DEF Registers
  <2>2. 51 \in 0 .. 127 /\ 0 \in 0 .. 7 /\ 0 \in 0 .. 127
    OBVIOUS
  <2> QED BY <2>1, <2>2, Funct7Key, Zenon
<1>2. Keyed(Registers[2], 51, 0, 32)
  <2>1. Registers[2] = OfFunct7("sub", 32, 0, 51)
    BY DEF Registers
  <2>2. 51 \in 0 .. 127 /\ 0 \in 0 .. 7 /\ 32 \in 0 .. 127
    OBVIOUS
  <2> QED BY <2>1, <2>2, Funct7Key, Zenon
<1>3. Keyed(Registers[3], 51, 1, 0)
  <2>1. Registers[3] = OfFunct7("sll", 0, 1, 51)
    BY DEF Registers
  <2>2. 51 \in 0 .. 127 /\ 1 \in 0 .. 7 /\ 0 \in 0 .. 127
    OBVIOUS
  <2> QED BY <2>1, <2>2, Funct7Key, Zenon
<1>4. Keyed(Registers[4], 51, 2, 0)
  <2>1. Registers[4] = OfFunct7("slt", 0, 2, 51)
    BY DEF Registers
  <2>2. 51 \in 0 .. 127 /\ 2 \in 0 .. 7 /\ 0 \in 0 .. 127
    OBVIOUS
  <2> QED BY <2>1, <2>2, Funct7Key, Zenon
<1>5. Keyed(Registers[5], 51, 3, 0)
  <2>1. Registers[5] = OfFunct7("sltu", 0, 3, 51)
    BY DEF Registers
  <2>2. 51 \in 0 .. 127 /\ 3 \in 0 .. 7 /\ 0 \in 0 .. 127
    OBVIOUS
  <2> QED BY <2>1, <2>2, Funct7Key, Zenon
<1>6. Keyed(Registers[6], 51, 4, 0)
  <2>1. Registers[6] = OfFunct7("xor", 0, 4, 51)
    BY DEF Registers
  <2>2. 51 \in 0 .. 127 /\ 4 \in 0 .. 7 /\ 0 \in 0 .. 127
    OBVIOUS
  <2> QED BY <2>1, <2>2, Funct7Key, Zenon
<1>7. Keyed(Registers[7], 51, 5, 0)
  <2>1. Registers[7] = OfFunct7("srl", 0, 5, 51)
    BY DEF Registers
  <2>2. 51 \in 0 .. 127 /\ 5 \in 0 .. 7 /\ 0 \in 0 .. 127
    OBVIOUS
  <2> QED BY <2>1, <2>2, Funct7Key, Zenon
<1>8. Keyed(Registers[8], 51, 5, 32)
  <2>1. Registers[8] = OfFunct7("sra", 32, 5, 51)
    BY DEF Registers
  <2>2. 51 \in 0 .. 127 /\ 5 \in 0 .. 7 /\ 32 \in 0 .. 127
    OBVIOUS
  <2> QED BY <2>1, <2>2, Funct7Key, Zenon
<1>9. Keyed(Registers[9], 51, 6, 0)
  <2>1. Registers[9] = OfFunct7("or", 0, 6, 51)
    BY DEF Registers
  <2>2. 51 \in 0 .. 127 /\ 6 \in 0 .. 7 /\ 0 \in 0 .. 127
    OBVIOUS
  <2> QED BY <2>1, <2>2, Funct7Key, Zenon
<1>10. Keyed(Registers[10], 51, 7, 0)
  <2>1. Registers[10] = OfFunct7("and", 0, 7, 51)
    BY DEF Registers
  <2>2. 51 \in 0 .. 127 /\ 7 \in 0 .. 7 /\ 0 \in 0 .. 127
    OBVIOUS
  <2> QED BY <2>1, <2>2, Funct7Key, Zenon
<1> QED BY <1>1, <1>2, <1>3, <1>4, <1>5, <1>6, <1>7, <1>8, <1>9, <1>10

\* No two rows of the group are alike.
LEMMA RegistersClash == \A r, s \in 1 .. 10 : r # s => Clash(Registers[r], Registers[s])
<1>1. \A row, other, p, f3, f7, p2, g3, g7 :
        /\ Keyed(row, p, f3, f7) /\ Keyed(other, p2, g3, g7)
        /\ \/ p # p2
           \/ (f3 # g3 /\ f3 # -1 /\ g3 # -1)
           \/ (f7 # g7 /\ f7 # -1 /\ g7 # -1)
        => Clash(row, other)
  BY KeysDiffer
<1> QED BY <1>1, RegistersKeys

\* The keys of the rows.
LEMMA MultiplicationsKeys ==
  /\ Keyed(Multiplications[1], 51, 0, 1)
  /\ Keyed(Multiplications[2], 51, 1, 1)
  /\ Keyed(Multiplications[3], 51, 2, 1)
  /\ Keyed(Multiplications[4], 51, 3, 1)
  /\ Keyed(Multiplications[5], 51, 4, 1)
  /\ Keyed(Multiplications[6], 51, 5, 1)
  /\ Keyed(Multiplications[7], 51, 6, 1)
  /\ Keyed(Multiplications[8], 51, 7, 1)
<1>1. Keyed(Multiplications[1], 51, 0, 1)
  <2>1. Multiplications[1] = OfFunct7("mul", 1, 0, 51)
    BY DEF Multiplications
  <2>2. 51 \in 0 .. 127 /\ 0 \in 0 .. 7 /\ 1 \in 0 .. 127
    OBVIOUS
  <2> QED BY <2>1, <2>2, Funct7Key, Zenon
<1>2. Keyed(Multiplications[2], 51, 1, 1)
  <2>1. Multiplications[2] = OfFunct7("mulh", 1, 1, 51)
    BY DEF Multiplications
  <2>2. 51 \in 0 .. 127 /\ 1 \in 0 .. 7 /\ 1 \in 0 .. 127
    OBVIOUS
  <2> QED BY <2>1, <2>2, Funct7Key, Zenon
<1>3. Keyed(Multiplications[3], 51, 2, 1)
  <2>1. Multiplications[3] = OfFunct7("mulhsu", 1, 2, 51)
    BY DEF Multiplications
  <2>2. 51 \in 0 .. 127 /\ 2 \in 0 .. 7 /\ 1 \in 0 .. 127
    OBVIOUS
  <2> QED BY <2>1, <2>2, Funct7Key, Zenon
<1>4. Keyed(Multiplications[4], 51, 3, 1)
  <2>1. Multiplications[4] = OfFunct7("mulhu", 1, 3, 51)
    BY DEF Multiplications
  <2>2. 51 \in 0 .. 127 /\ 3 \in 0 .. 7 /\ 1 \in 0 .. 127
    OBVIOUS
  <2> QED BY <2>1, <2>2, Funct7Key, Zenon
<1>5. Keyed(Multiplications[5], 51, 4, 1)
  <2>1. Multiplications[5] = OfFunct7("div", 1, 4, 51)
    BY DEF Multiplications
  <2>2. 51 \in 0 .. 127 /\ 4 \in 0 .. 7 /\ 1 \in 0 .. 127
    OBVIOUS
  <2> QED BY <2>1, <2>2, Funct7Key, Zenon
<1>6. Keyed(Multiplications[6], 51, 5, 1)
  <2>1. Multiplications[6] = OfFunct7("divu", 1, 5, 51)
    BY DEF Multiplications
  <2>2. 51 \in 0 .. 127 /\ 5 \in 0 .. 7 /\ 1 \in 0 .. 127
    OBVIOUS
  <2> QED BY <2>1, <2>2, Funct7Key, Zenon
<1>7. Keyed(Multiplications[7], 51, 6, 1)
  <2>1. Multiplications[7] = OfFunct7("rem", 1, 6, 51)
    BY DEF Multiplications
  <2>2. 51 \in 0 .. 127 /\ 6 \in 0 .. 7 /\ 1 \in 0 .. 127
    OBVIOUS
  <2> QED BY <2>1, <2>2, Funct7Key, Zenon
<1>8. Keyed(Multiplications[8], 51, 7, 1)
  <2>1. Multiplications[8] = OfFunct7("remu", 1, 7, 51)
    BY DEF Multiplications
  <2>2. 51 \in 0 .. 127 /\ 7 \in 0 .. 7 /\ 1 \in 0 .. 127
    OBVIOUS
  <2> QED BY <2>1, <2>2, Funct7Key, Zenon
<1> QED BY <1>1, <1>2, <1>3, <1>4, <1>5, <1>6, <1>7, <1>8

\* No two rows of the group are alike.
LEMMA MultiplicationsClash == \A r, s \in 1 .. 8 : r # s => Clash(Multiplications[r], Multiplications[s])
<1>1. \A row, other, p, f3, f7, p2, g3, g7 :
        /\ Keyed(row, p, f3, f7) /\ Keyed(other, p2, g3, g7)
        /\ \/ p # p2
           \/ (f3 # g3 /\ f3 # -1 /\ g3 # -1)
           \/ (f7 # g7 /\ f7 # -1 /\ g7 # -1)
        => Clash(row, other)
  BY KeysDiffer
<1> QED BY <1>1, MultiplicationsKeys

\* A triple is what the pattern gives.
LEMMA WideGives ==
  ASSUME NEW row, Apart(row), NEW h, NEW l, NEW v, <<h, l, v>> \in row.fixed
  PROVE  Gives(row, h, l, v)
<1> DEFINE f == <<h, l, v>>
<1>1. f \in row.fixed /\ f[1] = h /\ f[2] = l /\ f[3] = v
  OBVIOUS
<1> HIDE DEF f
<1>2. Gives(row, f[1], f[2], f[3])
  BY <1>1, TripleGives
<1> QED BY <1>1, <1>2

\* A pattern that starts with an opcode gives zeros above it.
LEMMA LowGives ==
  ASSUME NEW row, NEW h \in 14 .. 31, NEW v \in 0 .. 127, Gives(row, h, 0, v)
  PROVE  /\ Gives(row, 6, 0, v) /\ Gives(row, 14, 12, 0)
         /\ \A b \in 7 .. h : Fixes(row, b, 0)
<1>1. \A b \in 0 .. h : Fixes(row, b, BitsOf(v)[b - 0])
  BY DEF Gives
<1>2. Gives(row, 6, 0, v)
  BY <1>1 DEF Gives
<1>3. ASSUME NEW b \in 7 .. h PROVE Fixes(row, b, 0)
  <2>1. b \in 0 .. h /\ b - 0 = b /\ b \in 7 .. 31
    OBVIOUS
  <2>2. BitsOf(v)[b] = 0
    BY <2>1, OpcodeHighBits
  <2> QED BY <1>1, <2>1, <2>2
<1>4. ASSUME NEW b \in 12 .. 14 PROVE Fixes(row, b, BitsOf(0)[b - 12])
  <2>1. b \in 7 .. h /\ b - 12 \in 0 .. 31
    OBVIOUS
  <2>2. BitsOf(0)[b - 12] = 0
    BY <2>1, ZeroBits
  <2> QED BY <1>3, <2>1, <2>2
<1>5. Gives(row, 14, 12, 0)
  BY <1>4 DEF Gives
<1> QED BY <1>2, <1>3, <1>5

\* What the patterns of the fences and calls give.
LEMMA CallGives ==
  ASSUME NEW func
  PROVE  LET fence  == Row(func, {<<31, 28, 0>>, <<19, 0, 15>>})
             fence_i == Row(func, {<<31, 12, 1>>, <<11, 0, 15>>})
             ecall  == Row(func, {<<31, 0, 115>>})
             ebreak == Row(func, {<<31, 20, 1>>, <<19, 0, 115>>})
         IN /\ Keyed(fence, 15, 0, -1) /\ Keyed(fence_i, 15, 1, -1)
            /\ Keyed(ecall, 115, 0, -1) /\ Keyed(ebreak, 115, 0, -1)
            /\ Fixes(ecall, 20, 0) /\ Fixes(ebreak, 20, 1)
<1> DEFINE fence  == Row(func, {<<31, 28, 0>>, <<19, 0, 15>>})
           fence_i == Row(func, {<<31, 12, 1>>, <<11, 0, 15>>})
           ecall  == Row(func, {<<31, 0, 115>>})
           ebreak == Row(func, {<<31, 20, 1>>, <<19, 0, 115>>})
<1>1. Apart(fence) /\ Apart(fence_i) /\ Apart(ecall) /\ Apart(ebreak)
  BY DEF Apart, Row, BitPos
<1>2. /\ <<19, 0, 15>> \in fence.fixed
      /\ <<31, 12, 1>> \in fence_i.fixed /\ <<11, 0, 15>> \in fence_i.fixed
      /\ <<31, 0, 115>> \in ecall.fixed
      /\ <<31, 20, 1>> \in ebreak.fixed /\ <<19, 0, 115>> \in ebreak.fixed
  BY DEF Row
<1> HIDE DEF fence, fence_i, ecall, ebreak
<1>3. /\ Gives(fence, 19, 0, 15) /\ Gives(fence_i, 31, 12, 1) /\ Gives(fence_i, 11, 0, 15)
      /\ Gives(ecall, 31, 0, 115) /\ Gives(ebreak, 31, 20, 1) /\ Gives(ebreak, 19, 0, 115)
  BY <1>1, <1>2, WideGives
<1>4. Gives(fence, 6, 0, 15) /\ Gives(fence, 14, 12, 0)
  <2>1. 19 \in 14 .. 31 /\ 15 \in 0 .. 127
    OBVIOUS
  <2> QED BY <1>3, <2>1, LowGives
<1>5. Gives(fence_i, 6, 0, 15) /\ Gives(fence_i, 14, 12, 1)
  BY <1>3 DEF Gives
<1>6. Gives(ecall, 6, 0, 115) /\ Gives(ecall, 14, 12, 0) /\ Fixes(ecall, 20, 0)
  <2>1. 31 \in 14 .. 31 /\ 115 \in 0 .. 127 /\ 20 \in 7 .. 31
    OBVIOUS
  <2> QED BY <1>3, <2>1, LowGives
<1>7. Gives(ebreak, 6, 0, 115) /\ Gives(ebreak, 14, 12, 0)
  <2>1. 19 \in 14 .. 31 /\ 115 \in 0 .. 127
    OBVIOUS
  <2> QED BY <1>3, <2>1, LowGives
<1>8. Fixes(ebreak, 20, 1)
  <2>1. Fixes(ebreak, 20, BitsOf(1)[20 - 20])
    BY <1>3 DEF Gives
  <2>2. BitsOf(1)[0] = 1
    <3>1. 2 ^ 0 = 1
      BY SMT
    <3>2. BitsOf(1)[0] = (1 \div (2 ^ 0)) % 2
      BY DEF BitsOf, BitPos
    <3> QED BY <3>1, <3>2
  <2>3. 20 - 20 = 0
    OBVIOUS
  <2> QED BY <2>1, <2>2, <2>3
<1>9. Keyed(fence, 15, 0, -1) /\ Keyed(fence_i, 15, 1, -1)
  BY <1>4, <1>5 DEF Keyed
<1>10. Keyed(ecall, 115, 0, -1) /\ Keyed(ebreak, 115, 0, -1)
  BY <1>6, <1>7 DEF Keyed
<1> QED BY <1>6, <1>8, <1>9, <1>10 DEF fence, fence_i, ecall, ebreak

\* The keys of the rows.
LEMMA SystemKeys ==
  /\ Keyed(System[1], 15, 0, -1)
  /\ Keyed(System[2], 15, 1, -1)
  /\ Keyed(System[3], 115, 0, -1)
  /\ Keyed(System[4], 115, 0, -1)
  /\ Keyed(System[5], 115, 1, -1)
  /\ Keyed(System[6], 115, 2, -1)
  /\ Keyed(System[7], 115, 3, -1)
  /\ Keyed(System[8], 115, 5, -1)
  /\ Keyed(System[9], 115, 6, -1)
  /\ Keyed(System[10], 115, 7, -1)
  /\ Fixes(System[3], 20, 0) /\ Fixes(System[4], 20, 1)
<1>1. /\ System[1] = Row("fence", {<<31, 28, 0>>, <<19, 0, 15>>})
      /\ System[2] = Row("fence_i", {<<31, 12, 1>>, <<11, 0, 15>>})
      /\ System[3] = Row("ecall", {<<31, 0, 115>>})
      /\ System[4] = Row("ebreak", {<<31, 20, 1>>, <<19, 0, 115>>})
  BY DEF System
<1>2. /\ Keyed(System[1], 15, 0, -1) /\ Keyed(System[2], 15, 1, -1)
      /\ Keyed(System[3], 115, 0, -1) /\ Keyed(System[4], 115, 0, -1)
      /\ Fixes(System[3], 20, 0) /\ Fixes(System[4], 20, 1)
  BY <1>1, CallGives
<1>5. Keyed(System[5], 115, 1, -1)
  <2>1. System[5] = OfFunct3("csrrw", 1, 115)
    BY DEF System
  <2>2. 115 \in 0 .. 127 /\ 1 \in 0 .. 7
    OBVIOUS
  <2> QED BY <2>1, <2>2, Funct3Key
<1>6. Keyed(System[6], 115, 2, -1)
  <2>1. System[6] = OfFunct3("csrrs", 2, 115)
    BY DEF System
  <2>2. 115 \in 0 .. 127 /\ 2 \in 0 .. 7
    OBVIOUS
  <2> QED BY <2>1, <2>2, Funct3Key
<1>7. Keyed(System[7], 115, 3, -1)
  <2>1. System[7] = OfFunct3("csrrc", 3, 115)
    BY DEF System
  <2>2. 115 \in 0 .. 127 /\ 3 \in 0 .. 7
    OBVIOUS
  <2> QED BY <2>1, <2>2, Funct3Key
<1>8. Keyed(System[8], 115, 5, -1)
  <2>1. System[8] = OfFunct3("csrrwi", 5, 115)
    BY DEF System
  <2>2. 115 \in 0 .. 127 /\ 5 \in 0 .. 7
    OBVIOUS
  <2> QED BY <2>1, <2>2, Funct3Key
<1>9. Keyed(System[9], 115, 6, -1)
  <2>1. System[9] = OfFunct3("csrrsi", 6, 115)
    BY DEF System
  <2>2. 115 \in 0 .. 127 /\ 6 \in 0 .. 7
    OBVIOUS
  <2> QED BY <2>1, <2>2, Funct3Key
<1>10. Keyed(System[10], 115, 7, -1)
  <2>1. System[10] = OfFunct3("csrrci", 7, 115)
    BY DEF System
  <2>2. 115 \in 0 .. 127 /\ 7 \in 0 .. 7
    OBVIOUS
  <2> QED BY <2>1, <2>2, Funct3Key
<1> QED BY <1>2, <1>5, <1>6, <1>7, <1>8, <1>9, <1>10

\* No two rows of the group are alike.
LEMMA SystemClash == \A r, s \in 1 .. 10 : r # s => Clash(System[r], System[s])
<1>1. \A row, other, p, f3, f7, p2, g3, g7 :
        /\ Keyed(row, p, f3, f7) /\ Keyed(other, p2, g3, g7)
        /\ \/ p # p2
           \/ (f3 # g3 /\ f3 # -1 /\ g3 # -1)
           \/ (f7 # g7 /\ f7 # -1 /\ g7 # -1)
        => Clash(row, other)
  BY KeysDiffer
<1>2. Clash(System[3], System[4])
  <2>1. 20 \in BitPos /\ 0 # 1
    BY DEF BitPos
  <2> QED BY <2>1, SystemKeys DEF Clash
<1>3. Clash(System[4], System[3])
  BY <1>2, ClashBack
<1> QED BY <1>1, <1>2, <1>3, SystemKeys

\* The opcodes that the rows of a group give.
LEMMA Heads ==
  /\ \A k \in 1 .. 10 : \E p \in {23, 55, 111, 103, 99} : \E f3, f7 : Keyed(Jumps[k], p, f3, f7)
  /\ \A k \in 1 .. 8 : \E p \in {3, 35} : \E f3, f7 : Keyed(Accesses[k], p, f3, f7)
  /\ \A k \in 1 .. 9 : \E p \in {19} : \E f3, f7 : Keyed(Immediates[k], p, f3, f7)
  /\ \A k \in 1 .. 10 : \E p \in {51} : \E f3, f7 : Keyed(Registers[k], p, f3, f7) /\ f7 \in {0, 32}
  /\ \A k \in 1 .. 10 : \E p \in {15, 115} : \E f3, f7 : Keyed(System[k], p, f3, f7)
  /\ \A k \in 1 .. 8 : \E p \in {51} : \E f3, f7 : Keyed(Multiplications[k], p, f3, f7) /\ f7 = 1
<1>1. \A k \in 1 .. 10 : \E p \in {23, 55, 111, 103, 99} : \E f3, f7 : Keyed(Jumps[k], p, f3, f7)
  BY JumpsKeys
<1>2. \A k \in 1 .. 8 : \E p \in {3, 35} : \E f3, f7 : Keyed(Accesses[k], p, f3, f7)
  BY AccessesKeys
<1>3. \A k \in 1 .. 9 : \E p \in {19} : \E f3, f7 : Keyed(Immediates[k], p, f3, f7)
  BY ImmediatesKeys
<1>4. \A k \in 1 .. 10 : \E p \in {51} : \E f3, f7 : Keyed(Registers[k], p, f3, f7) /\ f7 \in {0, 32}
  BY RegistersKeys
<1>5. \A k \in 1 .. 10 : \E p \in {15, 115} : \E f3, f7 : Keyed(System[k], p, f3, f7)
  BY SystemKeys
<1>6. \A k \in 1 .. 8 : \E p \in {51} : \E f3, f7 : Keyed(Multiplications[k], p, f3, f7) /\ f7 = 1
  BY MultiplicationsKeys
<1> QED BY <1>1, <1>2, <1>3, <1>4, <1>5, <1>6

\* Nor is a row like one of another group.
LEMMA GroupsClash ==
  /\ \A r \in 1 .. 10 : \A s \in 1 .. 8 : Clash(Jumps[r], Accesses[s])
  /\ \A r \in 1 .. 10 : \A s \in 1 .. 9 : Clash(Jumps[r], Immediates[s])
  /\ \A r \in 1 .. 10 : \A s \in 1 .. 10 : Clash(Jumps[r], Registers[s])
  /\ \A r \in 1 .. 10 : \A s \in 1 .. 10 : Clash(Jumps[r], System[s])
  /\ \A r \in 1 .. 10 : \A s \in 1 .. 8 : Clash(Jumps[r], Multiplications[s])
  /\ \A r \in 1 .. 8 : \A s \in 1 .. 9 : Clash(Accesses[r], Immediates[s])
  /\ \A r \in 1 .. 8 : \A s \in 1 .. 10 : Clash(Accesses[r], Registers[s])
  /\ \A r \in 1 .. 8 : \A s \in 1 .. 10 : Clash(Accesses[r], System[s])
  /\ \A r \in 1 .. 8 : \A s \in 1 .. 8 : Clash(Accesses[r], Multiplications[s])
  /\ \A r \in 1 .. 9 : \A s \in 1 .. 10 : Clash(Immediates[r], Registers[s])
  /\ \A r \in 1 .. 9 : \A s \in 1 .. 10 : Clash(Immediates[r], System[s])
  /\ \A r \in 1 .. 9 : \A s \in 1 .. 8 : Clash(Immediates[r], Multiplications[s])
  /\ \A r \in 1 .. 10 : \A s \in 1 .. 10 : Clash(Registers[r], System[s])
  /\ \A r \in 1 .. 10 : \A s \in 1 .. 8 : Clash(Registers[r], Multiplications[s])
  /\ \A r \in 1 .. 10 : \A s \in 1 .. 8 : Clash(System[r], Multiplications[s])
<1>0. \A row, other, p, f3, f7, p2, g3, g7 :
        /\ Keyed(row, p, f3, f7) /\ Keyed(other, p2, g3, g7)
        /\ \/ p # p2
           \/ (f7 # g7 /\ f7 # -1 /\ g7 # -1)
        => Clash(row, other)
  BY KeysDiffer
<1>1. \A r \in 1 .. 10 : \A s \in 1 .. 8 : Clash(Jumps[r], Accesses[s])
  BY <1>0, Heads, SMTT(30)
<1>2. \A r \in 1 .. 10 : \A s \in 1 .. 9 : Clash(Jumps[r], Immediates[s])
  BY <1>0, Heads, SMTT(30)
<1>3. \A r \in 1 .. 10 : \A s \in 1 .. 10 : Clash(Jumps[r], Registers[s])
  BY <1>0, Heads, SMTT(30)
<1>4. \A r \in 1 .. 10 : \A s \in 1 .. 10 : Clash(Jumps[r], System[s])
  BY <1>0, Heads, SMTT(30)
<1>5. \A r \in 1 .. 10 : \A s \in 1 .. 8 : Clash(Jumps[r], Multiplications[s])
  BY <1>0, Heads, SMTT(30)
<1>6. \A r \in 1 .. 8 : \A s \in 1 .. 9 : Clash(Accesses[r], Immediates[s])
  BY <1>0, Heads, SMTT(30)
<1>7. \A r \in 1 .. 8 : \A s \in 1 .. 10 : Clash(Accesses[r], Registers[s])
  BY <1>0, Heads, SMTT(30)
<1>8. \A r \in 1 .. 8 : \A s \in 1 .. 10 : Clash(Accesses[r], System[s])
  BY <1>0, Heads, SMTT(30)
<1>9. \A r \in 1 .. 8 : \A s \in 1 .. 8 : Clash(Accesses[r], Multiplications[s])
  BY <1>0, Heads, SMTT(30)
<1>10. \A r \in 1 .. 9 : \A s \in 1 .. 10 : Clash(Immediates[r], Registers[s])
  BY <1>0, Heads, SMTT(30)
<1>11. \A r \in 1 .. 9 : \A s \in 1 .. 10 : Clash(Immediates[r], System[s])
  BY <1>0, Heads, SMTT(30)
<1>12. \A r \in 1 .. 9 : \A s \in 1 .. 8 : Clash(Immediates[r], Multiplications[s])
  BY <1>0, Heads, SMTT(30)
<1>13. \A r \in 1 .. 10 : \A s \in 1 .. 10 : Clash(Registers[r], System[s])
  BY <1>0, Heads, SMTT(30)
<1>14. \A r \in 1 .. 10 : \A s \in 1 .. 8 : Clash(Registers[r], Multiplications[s])
  BY <1>0, Heads, SMTT(30)
<1>15. \A r \in 1 .. 10 : \A s \in 1 .. 8 : Clash(System[r], Multiplications[s])
  BY <1>0, Heads, SMTT(30)
<1> QED BY <1>1, <1>2, <1>3, <1>4, <1>5, <1>6, <1>7, <1>8, <1>9, <1>10, <1>11, <1>12, <1>13,
           <1>14, <1>15, Zenon

\* No two rows of the table are alike, but for the last.
LEMMA RowsClash == \A r, s \in 1 .. 55 : r # s => Clash(opcodes[r], opcodes[s])
<1> DEFINE Group(r) ==
             \/ \E k \in 1 .. 10 : r = 0 + k /\ opcodes[r] = Jumps[k]
             \/ \E k \in 1 .. 8 : r = 10 + k /\ opcodes[r] = Accesses[k]
             \/ \E k \in 1 .. 9 : r = 18 + k /\ opcodes[r] = Immediates[k]
             \/ \E k \in 1 .. 10 : r = 27 + k /\ opcodes[r] = Registers[k]
             \/ \E k \in 1 .. 10 : r = 37 + k /\ opcodes[r] = System[k]
             \/ \E k \in 1 .. 8 : r = 47 + k /\ opcodes[r] = Multiplications[k]
<1>1. ASSUME NEW r \in 1 .. 55 PROVE Group(r)
  <2>1. CASE r \in 1 .. 10
    <3>1. r - 0 \in 1 .. 10 /\ r = 0 + (r - 0)
      BY <2>1
    <3>2. opcodes[0 + (r - 0)] = Jumps[r - 0]
      BY <3>1, Table
    <3> QED BY <3>1, <3>2
  <2>2. CASE r \in 11 .. 18
    <3>1. r - 10 \in 1 .. 8 /\ r = 10 + (r - 10)
      BY <2>2
    <3>2. opcodes[10 + (r - 10)] = Accesses[r - 10]
      BY <3>1, Table
    <3> QED BY <3>1, <3>2
  <2>3. CASE r \in 19 .. 27
    <3>1. r - 18 \in 1 .. 9 /\ r = 18 + (r - 18)
      BY <2>3
    <3>2. opcodes[18 + (r - 18)] = Immediates[r - 18]
      BY <3>1, Table
    <3> QED BY <3>1, <3>2
  <2>4. CASE r \in 28 .. 37
    <3>1. r - 27 \in 1 .. 10 /\ r = 27 + (r - 27)
      BY <2>4
    <3>2. opcodes[27 + (r - 27)] = Registers[r - 27]
      BY <3>1, Table
    <3> QED BY <3>1, <3>2
  <2>5. CASE r \in 38 .. 47
    <3>1. r - 37 \in 1 .. 10 /\ r = 37 + (r - 37)
      BY <2>5
    <3>2. opcodes[37 + (r - 37)] = System[r - 37]
      BY <3>1, Table
    <3> QED BY <3>1, <3>2
  <2>6. CASE r \in 48 .. 55
    <3>1. r - 47 \in 1 .. 8 /\ r = 47 + (r - 47)
      BY <2>6
    <3>2. opcodes[47 + (r - 47)] = Multiplications[r - 47]
      BY <3>1, Table
    <3> QED BY <3>1, <3>2
  <2> QED BY <2>1, <2>2, <2>3, <2>4, <2>5, <2>6
<1>2. ASSUME NEW r \in 1 .. 55, NEW s \in 1 .. 55, r # s PROVE Clash(opcodes[r], opcodes[s])
  <2>0. Group(r) /\ Group(s)
    BY <1>1, <1>2
  <2>1. CASE \E k \in 1 .. 10 : r = 0 + k /\ opcodes[r] = Jumps[k]
    <3>1. CASE \E k \in 1 .. 10 : s = 0 + k /\ opcodes[s] = Jumps[k]
      BY <1>2, <2>1, <3>1, JumpsClash
    <3>2. CASE \E k \in 1 .. 8 : s = 10 + k /\ opcodes[s] = Accesses[k]
      BY <2>1, <3>2, GroupsClash, Zenon
    <3>3. CASE \E k \in 1 .. 9 : s = 18 + k /\ opcodes[s] = Immediates[k]
      BY <2>1, <3>3, GroupsClash, Zenon
    <3>4. CASE \E k \in 1 .. 10 : s = 27 + k /\ opcodes[s] = Registers[k]
      BY <2>1, <3>4, GroupsClash, Zenon
    <3>5. CASE \E k \in 1 .. 10 : s = 37 + k /\ opcodes[s] = System[k]
      BY <2>1, <3>5, GroupsClash, Zenon
    <3>6. CASE \E k \in 1 .. 8 : s = 47 + k /\ opcodes[s] = Multiplications[k]
      BY <2>1, <3>6, GroupsClash, Zenon
    <3> QED BY <2>0, <3>1, <3>2, <3>3, <3>4, <3>5, <3>6, Zenon
  <2>2. CASE \E k \in 1 .. 8 : r = 10 + k /\ opcodes[r] = Accesses[k]
    <3>1. CASE \E k \in 1 .. 10 : s = 0 + k /\ opcodes[s] = Jumps[k]
      <4>1. Clash(opcodes[s], opcodes[r])
        BY <2>2, <3>1, GroupsClash, Zenon
      <4> QED BY <4>1, ClashBack
    <3>2. CASE \E k \in 1 .. 8 : s = 10 + k /\ opcodes[s] = Accesses[k]
      BY <1>2, <2>2, <3>2, AccessesClash
    <3>3. CASE \E k \in 1 .. 9 : s = 18 + k /\ opcodes[s] = Immediates[k]
      BY <2>2, <3>3, GroupsClash, Zenon
    <3>4. CASE \E k \in 1 .. 10 : s = 27 + k /\ opcodes[s] = Registers[k]
      BY <2>2, <3>4, GroupsClash, Zenon
    <3>5. CASE \E k \in 1 .. 10 : s = 37 + k /\ opcodes[s] = System[k]
      BY <2>2, <3>5, GroupsClash, Zenon
    <3>6. CASE \E k \in 1 .. 8 : s = 47 + k /\ opcodes[s] = Multiplications[k]
      BY <2>2, <3>6, GroupsClash, Zenon
    <3> QED BY <2>0, <3>1, <3>2, <3>3, <3>4, <3>5, <3>6, Zenon
  <2>3. CASE \E k \in 1 .. 9 : r = 18 + k /\ opcodes[r] = Immediates[k]
    <3>1. CASE \E k \in 1 .. 10 : s = 0 + k /\ opcodes[s] = Jumps[k]
      <4>1. Clash(opcodes[s], opcodes[r])
        BY <2>3, <3>1, GroupsClash, Zenon
      <4> QED BY <4>1, ClashBack
    <3>2. CASE \E k \in 1 .. 8 : s = 10 + k /\ opcodes[s] = Accesses[k]
      <4>1. Clash(opcodes[s], opcodes[r])
        BY <2>3, <3>2, GroupsClash, Zenon
      <4> QED BY <4>1, ClashBack
    <3>3. CASE \E k \in 1 .. 9 : s = 18 + k /\ opcodes[s] = Immediates[k]
      BY <1>2, <2>3, <3>3, ImmediatesClash
    <3>4. CASE \E k \in 1 .. 10 : s = 27 + k /\ opcodes[s] = Registers[k]
      BY <2>3, <3>4, GroupsClash, Zenon
    <3>5. CASE \E k \in 1 .. 10 : s = 37 + k /\ opcodes[s] = System[k]
      BY <2>3, <3>5, GroupsClash, Zenon
    <3>6. CASE \E k \in 1 .. 8 : s = 47 + k /\ opcodes[s] = Multiplications[k]
      BY <2>3, <3>6, GroupsClash, Zenon
    <3> QED BY <2>0, <3>1, <3>2, <3>3, <3>4, <3>5, <3>6, Zenon
  <2>4. CASE \E k \in 1 .. 10 : r = 27 + k /\ opcodes[r] = Registers[k]
    <3>1. CASE \E k \in 1 .. 10 : s = 0 + k /\ opcodes[s] = Jumps[k]
      <4>1. Clash(opcodes[s], opcodes[r])
        BY <2>4, <3>1, GroupsClash, Zenon
      <4> QED BY <4>1, ClashBack
    <3>2. CASE \E k \in 1 .. 8 : s = 10 + k /\ opcodes[s] = Accesses[k]
      <4>1. Clash(opcodes[s], opcodes[r])
        BY <2>4, <3>2, GroupsClash, Zenon
      <4> QED BY <4>1, ClashBack
    <3>3. CASE \E k \in 1 .. 9 : s = 18 + k /\ opcodes[s] = Immediates[k]
      <4>1. Clash(opcodes[s], opcodes[r])
        BY <2>4, <3>3, GroupsClash, Zenon
      <4> QED BY <4>1, ClashBack
    <3>4. CASE \E k \in 1 .. 10 : s = 27 + k /\ opcodes[s] = Registers[k]
      BY <1>2, <2>4, <3>4, RegistersClash
    <3>5. CASE \E k \in 1 .. 10 : s = 37 + k /\ opcodes[s] = System[k]
      BY <2>4, <3>5, GroupsClash, Zenon
    <3>6. CASE \E k \in 1 .. 8 : s = 47 + k /\ opcodes[s] = Multiplications[k]
      BY <2>4, <3>6, GroupsClash, Zenon
    <3> QED BY <2>0, <3>1, <3>2, <3>3, <3>4, <3>5, <3>6, Zenon
  <2>5. CASE \E k \in 1 .. 10 : r = 37 + k /\ opcodes[r] = System[k]
    <3>1. CASE \E k \in 1 .. 10 : s = 0 + k /\ opcodes[s] = Jumps[k]
      <4>1. Clash(opcodes[s], opcodes[r])
        BY <2>5, <3>1, GroupsClash, Zenon
      <4> QED BY <4>1, ClashBack
    <3>2. CASE \E k \in 1 .. 8 : s = 10 + k /\ opcodes[s] = Accesses[k]
      <4>1. Clash(opcodes[s], opcodes[r])
        BY <2>5, <3>2, GroupsClash, Zenon
      <4> QED BY <4>1, ClashBack
    <3>3. CASE \E k \in 1 .. 9 : s = 18 + k /\ opcodes[s] = Immediates[k]
      <4>1. Clash(opcodes[s], opcodes[r])
        BY <2>5, <3>3, GroupsClash, Zenon
      <4> QED BY <4>1, ClashBack
    <3>4. CASE \E k \in 1 .. 10 : s = 27 + k /\ opcodes[s] = Registers[k]
      <4>1. Clash(opcodes[s], opcodes[r])
        BY <2>5, <3>4, GroupsClash, Zenon
      <4> QED BY <4>1, ClashBack
    <3>5. CASE \E k \in 1 .. 10 : s = 37 + k /\ opcodes[s] = System[k]
      BY <1>2, <2>5, <3>5, SystemClash
    <3>6. CASE \E k \in 1 .. 8 : s = 47 + k /\ opcodes[s] = Multiplications[k]
      BY <2>5, <3>6, GroupsClash, Zenon
    <3> QED BY <2>0, <3>1, <3>2, <3>3, <3>4, <3>5, <3>6, Zenon
  <2>6. CASE \E k \in 1 .. 8 : r = 47 + k /\ opcodes[r] = Multiplications[k]
    <3>1. CASE \E k \in 1 .. 10 : s = 0 + k /\ opcodes[s] = Jumps[k]
      <4>1. Clash(opcodes[s], opcodes[r])
        BY <2>6, <3>1, GroupsClash, Zenon
      <4> QED BY <4>1, ClashBack
    <3>2. CASE \E k \in 1 .. 8 : s = 10 + k /\ opcodes[s] = Accesses[k]
      <4>1. Clash(opcodes[s], opcodes[r])
        BY <2>6, <3>2, GroupsClash, Zenon
      <4> QED BY <4>1, ClashBack
    <3>3. CASE \E k \in 1 .. 9 : s = 18 + k /\ opcodes[s] = Immediates[k]
      <4>1. Clash(opcodes[s], opcodes[r])
        BY <2>6, <3>3, GroupsClash, Zenon
      <4> QED BY <4>1, ClashBack
    <3>4. CASE \E k \in 1 .. 10 : s = 27 + k /\ opcodes[s] = Registers[k]
      <4>1. Clash(opcodes[s], opcodes[r])
        BY <2>6, <3>4, GroupsClash, Zenon
      <4> QED BY <4>1, ClashBack
    <3>5. CASE \E k \in 1 .. 10 : s = 37 + k /\ opcodes[s] = System[k]
      <4>1. Clash(opcodes[s], opcodes[r])
        BY <2>6, <3>5, GroupsClash, Zenon
      <4> QED BY <4>1, ClashBack
    <3>6. CASE \E k \in 1 .. 8 : s = 47 + k /\ opcodes[s] = Multiplications[k]
      BY <1>2, <2>6, <3>6, MultiplicationsClash
    <3> QED BY <2>0, <3>1, <3>2, <3>3, <3>4, <3>5, <3>6, Zenon
  <2> QED BY <2>0, <2>1, <2>2, <2>3, <2>4, <2>5, <2>6, Zenon
<1> QED BY <1>2, Zenon

\* All rows of a table but the last.
LEMMA RowsBut ==
  \A n : n = 56 => \A q \in (1 .. n) \ {n} : q \in 1 .. 55
<1> SUFFICES ASSUME NEW q, q \in 1 .. 56, q # 56 PROVE q \in 1 .. 55
  OBVIOUS
<1> QED OBVIOUS

\* Two rows of the table that riscv_initialise compiles never match one word:
\* the order in which do_op tries the rows does not matter.
THEOREM RowsCorrect == Spec => []RowsExclusive
<1>1. IInv => RowsExclusive
  <2> SUFFICES ASSUME IInv, at = "fetch",
                      NEW r \in 1 .. 55, NEW s \in 1 .. 55, r # s
               PROVE  \E b \in BitPos : mask[r][b] * mask[s][b] = 1 /\ value[r][b] # value[s][b]
    <3>1. Len(opcodes) = 56
      BY Table, Zenon
    <3>2. ASSUME NEW q \in Rows \ {Len(opcodes)} PROVE q \in 1 .. 55
      BY <3>1, <3>2, RowsBut, Zenon DEF Rows
    <3> QED BY <3>2, Zenon DEF RowsExclusive
  <2>1. r \in 1 .. 56 /\ s \in 1 .. 56
    OBVIOUS
  <2>2. /\ mask[r] = Compile(opcodes[r], MaskBit) /\ value[r] = Compile(opcodes[r], ValueBit)
        /\ mask[s] = Compile(opcodes[s], MaskBit) /\ value[s] = Compile(opcodes[s], ValueBit)
    BY <2>1 DEF IInv
  <2>3. ASSUME NEW q \in {r, s}, NEW b \in BitPos, NEW x, Fixes(opcodes[q], b, x)
        PROVE  mask[q][b] = 1 /\ value[q][b] = x
    <3>1. /\ Compile(opcodes[q], MaskBit) = [c \in BitPos |-> MaskBit[Spec32(opcodes[q], 31 - c)]]
          /\ Compile(opcodes[q], ValueBit) = [c \in BitPos |-> ValueBit[Spec32(opcodes[q], 31 - c)]]
      BY Compiled
    <3> QED BY <2>2, <2>3, <3>1 DEF Fixes
  <2>4. PICK b \in BitPos : \E x, y \in {0, 1} :
          Fixes(opcodes[r], b, x) /\ Fixes(opcodes[s], b, y) /\ x # y
    BY RowsClash, Zenon DEF Clash
  <2>5. mask[r][b] = 1 /\ mask[s][b] = 1 /\ value[r][b] # value[s][b]
    BY <2>3, <2>4
  <2> QED BY <2>5
<1> QED BY <1>1, Invariant, PTL
=============================================================================
