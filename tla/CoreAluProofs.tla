--------------------------- MODULE CoreAluProofs ---------------------------
(***************************************************************************)
(* The core's arithmetic and branch units compute what the emulator        *)
(* computes, for every pair of operands and each width of a word, the 32   *)
(* bits of the code included.                                              *)
(***************************************************************************)
EXTENDS AluTest, WellFoundedInduction, TLAPS

\* Words of 8, 16 or 32 bits.
LEMMA Widths == WORD \in {256, 65536, 4294967296}
<1>1. CASE ByteBits = 2
  BY <1>1, SMTT(20) DEF WORD, XLEN
<1>2. CASE ByteBits = 4
  BY <1>2, SMTT(20) DEF WORD, XLEN
<1>3. CASE ByteBits = 8
  BY <1>3, SMTT(20) DEF WORD, XLEN
<1> QED BY <1>1, <1>2, <1>3, ByteBitsAssumption, SMT

\* A word read as a signed number differs from it by nothing or by WORD.
LEMMA SignedRange ==
  ASSUME NEW a \in WordNum
  PROVE  Signed(a) \in {a, a - WORD} /\ Signed(a) \in Int /\ a \in Int
  BY Widths, SMT DEF Signed, WordNum

\* WORD more or less is the same modulo WORD.
LEMMA WrapShift ==
  ASSUME NEW n \in Int
  PROVE  Wrap(n - WORD) = Wrap(n)
<1>1. CASE WORD = 256
  BY <1>1, SMTT(20) DEF Wrap
<1>2. CASE WORD = 65536
  BY <1>2, SMTT(20) DEF Wrap
<1>3. CASE WORD = 4294967296
  BY <1>3, SMTT(20) DEF Wrap
<1> QED BY <1>1, <1>2, <1>3, Widths, SMT

\* add adds the ports as signed numbers, the emulator as words: the sums agree modulo WORD.
LEMMA SignedSum ==
  ASSUME NEW a \in WordNum, NEW b \in WordNum
  PROVE  Wrap(Signed(a) + Signed(b)) = Wrap(a + b)
<1> WORD \in Int
  BY Widths, SMT
<1>1. a \in Int /\ b \in Int /\ Signed(a) \in {a, a - WORD} /\ Signed(b) \in {b, b - WORD}
  BY SignedRange
<1>2. Signed(a) + Signed(b) \in {a + b, (a + b) - WORD, ((a + b) - WORD) - WORD}
  BY <1>1, SMT
<1>3. /\ Wrap((a + b) - WORD) = Wrap(a + b)
      /\ Wrap(((a + b) - WORD) - WORD) = Wrap((a + b) - WORD)
  <2>1. a + b \in Int /\ (a + b) - WORD \in Int
    BY <1>1
  <2> QED BY <2>1, WrapShift
<1> QED BY <1>2, <1>3

\* sub subtracts the ports as signed numbers, the emulator as words.
LEMMA SignedDifference ==
  ASSUME NEW a \in WordNum, NEW b \in WordNum
  PROVE  Wrap(Signed(a) - Signed(b)) = Wrap(a - b)
<1> WORD \in Int
  BY Widths, SMT
<1>1. a \in Int /\ b \in Int /\ Signed(a) \in {a, a - WORD} /\ Signed(b) \in {b, b - WORD}
  BY SignedRange
<1>2. Signed(a) - Signed(b) \in {a - b, (a - b) - WORD, (a - b) + WORD}
  BY <1>1, SMT
<1>3. /\ Wrap((a - b) - WORD) = Wrap(a - b)
      /\ Wrap(((a - b) + WORD) - WORD) = Wrap((a - b) + WORD)
  <2>1. a - b \in Int /\ (a - b) + WORD \in Int
    BY <1>1
  <2> QED BY <2>1, WrapShift
<1>4. ((a - b) + WORD) - WORD = a - b
  BY <1>1, SMT
<1> QED BY <1>2, <1>3, <1>4

-----------------------------------------------------------------------------
(* The units.                                                              *)

\* Each operation is the mode of the same name.
LEMMA OperatesAlike ==
  ASSUME NEW f \in DOMAIN Funct, NEW a \in WordNum, NEW b \in WordNum
  PROVE  Operate(f, a, b) = Alu(f, a, b)
<1>1. CASE f = "ADD"
  BY <1>1, SignedSum DEF Operate, Alu
<1>2. CASE f = "SUB"
  BY <1>2, SignedDifference DEF Operate, Alu
<1>3. CASE f \in {"SLT", "SLTU"}
  BY <1>3 DEF Operate, Alu, Flag
<1>4. CASE f \in {"SLL", "SRL", "SRA"}
  BY <1>4 DEF Operate, Alu
<1>5. CASE f \in {"XOR", "OR", "AND"}
  BY <1>5 DEF Operate, Alu
<1> QED BY <1>1, <1>2, <1>3, <1>4, <1>5 DEF Funct

\* At most one operation is selected.
LEMMA OneSelected ==
  ASSUME NEW f \in DOMAIN Funct, NEW g \in DOMAIN Funct, NEW func7, NEW func3, NEW imm_t,
         Selects(func7, func3, imm_t, f), Selects(func7, func3, imm_t, g)
  PROVE  f = g
  BY DEF Funct, Selects, NeedsFunct7

\* The unit's result is that of the operation its inputs select.
LEMMA SelectedResult ==
  ASSUME NEW f \in DOMAIN Funct, NEW func7, NEW func3, NEW imm_t, NEW a, NEW b,
         Selects(func7, func3, imm_t, f)
  PROVE  Rd(func7, func3, imm_t, a, b) = Operate(f, a, b)
<1> DEFINE selected == {g \in DOMAIN Funct : Selects(func7, func3, imm_t, g)}
<1>1. f \in selected
  OBVIOUS
<1>2. \A g \in selected : g = f
  BY OneSelected
<1>3. (CHOOSE g \in selected : TRUE) = f
  BY <1>1, <1>2
<1> QED BY <1>1, <1>3 DEF Rd

-----------------------------------------------------------------------------
(* Every reachable state.  The ports hold words: that is all the agreement *)
(* needs.                                                                  *)

WordsInv == ports.ra_d \in WordNum /\ ports.rb_d \in WordNum

\* What a port or a result is cut to is a word.
LEMMA WrapType == \A n \in Int : Wrap(n) \in WordNum
<1>1. WORD \in Nat /\ WORD > 0
  BY Widths, SMT
<1> QED BY <1>1, SMT DEF Wrap, WordNum

\* The operands of every block are words.
LEMMA BlockWords ==
  ASSUME NEW n \in Int, NEW k \in 1 .. 12
  PROVE  /\ Blocks(n)[k].ports.ra_d \in WordNum
         /\ Blocks(n)[k].ports.rb_d \in WordNum
  BY WrapType DEF Blocks, Test, Ports, AddTwice, AddOpposite, SubEqual, SubOpposite,
     ShiftByItself, LessThanPositive, LessUnsigned, XorBits, ShiftRightOut,
     ShiftRightSigned, OrBits, AndBits

IInv == WordsInv /\ i \in Nat /\ block \in 1 .. 12

\* The idle ports hold zeros.
LEMMA InvInit == Init => IInv
<1>1. 0 \in WordNum
  BY Widths, SMT DEF WordNum
<1> QED BY <1>1 DEF Init, IInv, WordsInv, Idle, Ports

\* A block drives words, and so does an instruction.
LEMMA InvNext == IInv /\ [Next]_vars => IInv'
<1> SUFFICES ASSUME IInv, [Next]_vars
             PROVE  IInv'
  OBVIOUS
<1>1. CASE RunBlock
  <2>1. WordsInv'
    BY <1>1, BlockWords DEF RunBlock, IInv, WordsInv
  <2>2. (i \in Nat /\ block \in 1 .. 12)'
    BY <1>1 DEF RunBlock, IInv
  <2> QED BY <2>1, <2>2 DEF IInv
<1>2. CASE Instruction
  <2>1. WordsInv'
    BY <1>2, OperandAssumption DEF Instruction, WordsInv, Ports
  <2> QED BY <1>2, <2>1 DEF Instruction, IInv
<1>3. CASE UNCHANGED vars
  BY <1>3 DEF vars, IInv, WordsInv
<1> QED BY <1>1, <1>2, <1>3 DEF Next

\* The ports always hold words.
LEMMA Reachable == Spec => []IInv
  BY InvInit, InvNext, PTL DEF Spec

\* The arithmetic unit computes what the emulator computes, whatever the
\* instruction and its operands.
THEOREM AgreeCorrect == Spec => []AgreesWithGolden
<1>1. IInv => AgreesWithGolden
  <2> SUFFICES ASSUME IInv, NEW f \in DOMAIN Funct,
                      Selects(ports.func7, ports.func3, ports.imm_t, f)
               PROVE  rd_d = Alu(f, ports.ra_d, ports.rb_d)
    BY DEF AgreesWithGolden
  <2>1. rd_d = Operate(f, ports.ra_d, ports.rb_d)
    BY SelectedResult DEF rd_d
  <2>2. Operate(f, ports.ra_d, ports.rb_d) = Alu(f, ports.ra_d, ports.rb_d)
    BY OperatesAlike DEF IInv, WordsInv
  <2> QED BY <2>1, <2>2
<1> QED BY <1>1, Reachable, PTL

-----------------------------------------------------------------------------
(* Branches.                                                               *)

\* The conditional rows of the opcode table.
LEMMA ConditionalRows ==
  /\ Opcodes["beq"].alu_mode = "SEQ" /\ Opcodes["beq"].pc_mode = "COND_JUMP"
  /\ Opcodes["bne"].alu_mode = "SEQ" /\ Opcodes["bne"].pc_mode = "COND_JUMP_INV"
  /\ Opcodes["blt"].alu_mode = "SLT" /\ Opcodes["blt"].pc_mode = "COND_JUMP"
  /\ Opcodes["bge"].alu_mode = "SLT" /\ Opcodes["bge"].pc_mode = "COND_JUMP_INV"
  /\ Opcodes["bltu"].alu_mode = "SLTU" /\ Opcodes["bltu"].pc_mode = "COND_JUMP"
  /\ Opcodes["bgeu"].alu_mode = "SLTU" /\ Opcodes["bgeu"].pc_mode = "COND_JUMP_INV"
  BY DEF Opcodes, CondJump, Plain

\* When each of them is taken.
LEMMA GoldenBranches ==
  ASSUME NEW a, NEW b
  PROVE  /\ GoldenTaken("beq", a, b) <=> Flag(a = b) # 0
         /\ GoldenTaken("bne", a, b) <=> Flag(a = b) = 0
         /\ GoldenTaken("blt", a, b) <=> Flag(Signed(a) < Signed(b)) # 0
         /\ GoldenTaken("bge", a, b) <=> Flag(Signed(a) < Signed(b)) = 0
         /\ GoldenTaken("bltu", a, b) <=> Flag(a < b) # 0
         /\ GoldenTaken("bgeu", a, b) <=> Flag(a < b) = 0
<1>1. /\ Alu("SEQ", a, b) = Flag(a = b)
      /\ Alu("SLT", a, b) = Flag(Signed(a) < Signed(b))
      /\ Alu("SLTU", a, b) = Flag(a < b)
  BY DEF Alu
<1> QED BY <1>1, ConditionalRows DEF GoldenTaken

\* For each conditional branch, both decide alike.
LEMMA BranchesAlike ==
  ASSUME NEW name \in DOMAIN BranchFunct, NEW a \in WordNum, NEW b \in WordNum
  PROVE  Branch(BranchFunct[name], a, b) <=> GoldenTaken(name, a, b)
<1>1. a \in Int /\ b \in Int /\ Signed(a) \in Int /\ Signed(b) \in Int
  BY SignedRange
<1>2. CASE name \in {"beq", "bne"}
  BY <1>2, GoldenBranches DEF Branch, BranchFunct, Flag
<1>3. CASE name \in {"blt", "bge"}
  BY <1>1, <1>3, GoldenBranches DEF Branch, BranchFunct, Flag
<1>4. CASE name \in {"bltu", "bgeu"}
  BY <1>1, <1>4, GoldenBranches DEF Branch, BranchFunct, Flag
<1> QED BY <1>2, <1>3, <1>4 DEF BranchFunct

\* The branch unit takes the branches the emulator takes, and no other.
THEOREM BranchesCorrect == Spec => []BranchesAgree
<1>1. IInv => BranchesAgree
  <2> SUFFICES ASSUME IInv, NEW name \in DOMAIN BranchFunct,
                      ports.func3 = BranchFunct[name]
               PROVE  Branch(ports.func3, ports.ra_d, ports.rb_d)
                        <=> GoldenTaken(name, ports.ra_d, ports.rb_d)
    BY DEF BranchesAgree
  <2> QED BY BranchesAlike DEF IInv, WordsInv
<1> QED BY <1>1, Reachable, PTL

-----------------------------------------------------------------------------
(* The blocks of the test: two that misjudge, and ten that pass.           *)

\* A set of numbers has a least one.
LEMMA Least ==
  ASSUME NEW T, T \subseteq Nat, T # {}
  PROVE  \E m \in T : \A k \in T : ~(k < m)
<1>1. PICK m \in T : \A k \in T : <<k, m>> \notin OpToRel(<, Nat)
  BY WFMin, NatLessThanWellFounded, Zenon
<1> QED BY <1>1, Zenon DEF OpToRel

\* A set that has 0 and the successor of each of its numbers has them all.
LEMMA Induction ==
  ASSUME NEW S, 0 \in S, \A n \in Nat : n \in S => n + 1 \in S
  PROVE  Nat \subseteq S
<1> DEFINE T == {n \in Nat : n \notin S}
<1> SUFFICES ASSUME T # {} PROVE FALSE
  OBVIOUS
<1>1. PICK m \in T : \A k \in T : ~(k < m)
  <2>1. T \subseteq Nat /\ T # {}
    OBVIOUS
  <2> HIDE DEF T
  <2> QED BY <2>1, Least
<1>2. m - 1 \in Nat /\ m - 1 \notin T
  BY <1>1
<1> QED BY <1>1, <1>2

\* Two bits and more above the lowest, a power of two is at least four.
LEMMA Fours == \A b \in 2 .. 31 : 2 ^ b \in Nat /\ 2 ^ b >= 4
<1> DEFINE P(p) == p \in Nat /\ p >= 4
<1>1. /\ P(2 ^ 2) /\ P(2 ^ 3) /\ P(2 ^ 4) /\ P(2 ^ 5) /\ P(2 ^ 6) /\ P(2 ^ 7) /\ P(2 ^ 8) /\ P(2 ^ 9)
      /\ P(2 ^ 10) /\ P(2 ^ 11) /\ P(2 ^ 12) /\ P(2 ^ 13) /\ P(2 ^ 14) /\ P(2 ^ 15) /\ P(2 ^ 16) /\ P(2 ^ 17)
      /\ P(2 ^ 18) /\ P(2 ^ 19) /\ P(2 ^ 20) /\ P(2 ^ 21) /\ P(2 ^ 22) /\ P(2 ^ 23) /\ P(2 ^ 24) /\ P(2 ^ 25)
      /\ P(2 ^ 26) /\ P(2 ^ 27) /\ P(2 ^ 28) /\ P(2 ^ 29) /\ P(2 ^ 30) /\ P(2 ^ 31)
  BY SMT
<1>2. ASSUME NEW b \in 2 .. 31
      PROVE
        \/ b = 2 \/ b = 3 \/ b = 4 \/ b = 5 \/ b = 6 \/ b = 7 \/ b = 8 \/ b = 9
        \/ b = 10 \/ b = 11 \/ b = 12 \/ b = 13 \/ b = 14 \/ b = 15 \/ b = 16 \/ b = 17
        \/ b = 18 \/ b = 19 \/ b = 20 \/ b = 21 \/ b = 22 \/ b = 23 \/ b = 24 \/ b = 25
        \/ b = 26 \/ b = 27 \/ b = 28 \/ b = 29 \/ b = 30 \/ b = 31
  BY SMT
<1> HIDE DEF P
<1>3. \A b \in 2 .. 31 : P(2 ^ b)
  BY <1>1, <1>2, Zenon
<1> QED BY <1>3 DEF P

\* What OfBits computes from the top: g[i] is the number of the bits from i.
Sums(g, f) == g = [j \in 0 .. XLEN |-> IF j = XLEN THEN 0 ELSE f[j] + 2 * g[j + 1]]

\* The recursion of OfBits has at most one solution.
LEMMA SumsUnique ==
  ASSUME NEW f, NEW g, NEW h, Sums(g, f), Sums(h, f)
  PROVE  g[0] = h[0]
<1> DEFINE S == {k \in Nat : k <= XLEN => g[XLEN - k] = h[XLEN - k]}
<1>1. XLEN \in Nat
  BY ByteBitsAssumption DEF XLEN
<1>2. 0 \in S
  BY <1>1 DEF Sums
<1>3. ASSUME NEW k \in Nat, k \in S PROVE k + 1 \in S
  <2> SUFFICES ASSUME k + 1 <= XLEN PROVE g[XLEN - (k + 1)] = h[XLEN - (k + 1)]
    OBVIOUS
  <2> DEFINE j == XLEN - (k + 1)
  <2>1. j \in 0 .. XLEN /\ j # XLEN /\ j + 1 = XLEN - k
    BY <1>1
  <2>2. g[j + 1] = h[j + 1]
    BY <1>1, <1>3, <2>1
  <2>3. g[j] = f[j] + 2 * g[j + 1] /\ h[j] = f[j] + 2 * h[j + 1]
    BY <2>1 DEF Sums
  <2> QED BY <2>2, <2>3
<1>4. XLEN \in S
  <2> HIDE DEF S
  <2> QED BY <1>1, <1>2, <1>3, Induction
<1> QED BY <1>1, <1>4

\* A number of two bits.
LEMMA TwoBits ==
  ASSUME NEW f, f[0] \in {0, 1}, f[1] \in {0, 1}, \A j \in 2 .. XLEN - 1 : f[j] = 0
  PROVE  OfBits(f) = f[0] + 2 * f[1]
<1> DEFINE g == [j \in 0 .. XLEN |-> IF j = 0 THEN f[0] + 2 * f[1] ELSE IF j = 1 THEN f[1] ELSE 0]
<1>1. XLEN \in {8, 16, 32}
  BY ByteBitsAssumption DEF XLEN
<1>2. Sums(g, f)
  <2> DEFINE h == [j \in 0 .. XLEN |-> IF j = XLEN THEN 0 ELSE f[j] + 2 * g[j + 1]]
  <2>1. ASSUME NEW j \in 0 .. XLEN PROVE g[j] = h[j]
    <3>1. CASE j = 0
      BY <1>1, <3>1
    <3>2. CASE j = 1
      BY <1>1, <3>2
    <3>3. CASE j = XLEN
      BY <1>1, <3>3
    <3>4. CASE j \in 2 .. XLEN - 1
      BY <1>1, <3>4
    <3> QED BY <1>1, <3>1, <3>2, <3>3, <3>4
  <2>2. g = [j \in 0 .. XLEN |-> g[j]]
    OBVIOUS
  <2>3. g = h
    BY <2>1, <2>2
  <2> QED BY <2>3 DEF Sums
<1>3. g[0] = f[0] + 2 * f[1]
  BY <1>1
<1> HIDE DEF g
<1>4. Sums(CHOOSE h : Sums(h, f), f)
  BY <1>2, Zenon
<1>5. OfBits(f) = (CHOOSE h : Sums(h, f))[0]
  BY Zenon DEF OfBits, Sums
<1> QED BY <1>2, <1>3, <1>4, <1>5, SumsUnique

\* The bits of one and of two.
LEMMA SmallBits ==
  /\ Bit(1, 0) = 1 /\ Bit(1, 1) = 0 /\ Bit(2, 0) = 0 /\ Bit(2, 1) = 1
  /\ \A j \in 2 .. XLEN - 1 : Bit(1, j) = 0 /\ Bit(2, j) = 0
<1>1. 2 ^ 0 = 1 /\ 2 ^ 1 = 2
  BY SMT
<1>2. Bit(1, 0) = 1 /\ Bit(1, 1) = 0 /\ Bit(2, 0) = 0 /\ Bit(2, 1) = 1
  BY <1>1 DEF Bit
<1>3. ASSUME NEW j \in 2 .. XLEN - 1 PROVE Bit(1, j) = 0 /\ Bit(2, j) = 0
  <2> DEFINE p == 2 ^ j
  <2>1. j \in 2 .. 31
    BY ByteBitsAssumption DEF XLEN
  <2>2. p \in Nat /\ p >= 4
    BY <2>1, Fours, Zenon
  <2>3. Bit(1, j) = (1 \div p) % 2 /\ Bit(2, j) = (2 \div p) % 2
    BY Zenon DEF Bit
  <2> HIDE DEF p
  <2>4. 1 \div p = 0 /\ 2 \div p = 0
    BY <2>2
  <2> QED BY <2>3, <2>4
<1> QED BY <1>2, <1>3

\* The bitwise blocks.
LEMMA SmallLogic == BitXor(1, 2) = 3 /\ BitOr(1, 2) = 3 /\ BitAnd(1, 2) = 0
<1> DEFINE x == [j \in BitIndex |-> (Bit(1, j) + Bit(2, j)) % 2]
           o == [j \in BitIndex |-> IF Bit(1, j) + Bit(2, j) > 0 THEN 1 ELSE 0]
           a == [j \in BitIndex |-> Bit(1, j) * Bit(2, j)]
<1>1. BitIndex = 0 .. XLEN - 1 /\ 0 \in BitIndex /\ 1 \in BitIndex
  BY ByteBitsAssumption DEF BitIndex, XLEN
<1>2. /\ x[0] = 1 /\ x[1] = 1 /\ \A j \in 2 .. XLEN - 1 : x[j] = 0
      /\ o[0] = 1 /\ o[1] = 1 /\ \A j \in 2 .. XLEN - 1 : o[j] = 0
      /\ a[0] = 0 /\ a[1] = 0 /\ \A j \in 2 .. XLEN - 1 : a[j] = 0
  <2>1. \A j \in 2 .. XLEN - 1 : j \in BitIndex
    BY <1>1, ByteBitsAssumption DEF XLEN
  <2> QED BY <1>1, <2>1, SmallBits
<1>3. BitXor(1, 2) = OfBits(x) /\ BitOr(1, 2) = OfBits(o) /\ BitAnd(1, 2) = OfBits(a)
  BY Zenon DEF BitXor, BitOr, BitAnd
<1> HIDE DEF x, o, a
<1>4. OfBits(x) = x[0] + 2 * x[1] /\ OfBits(o) = o[0] + 2 * o[1] /\ OfBits(a) = a[0] + 2 * a[1]
  BY <1>2, TwoBits
<1> QED BY <1>2, <1>3, <1>4

\* The unit's answer to a block of the test.
Got(test) ==
  Rd(test.ports.func7, test.ports.func3, test.ports.imm_t, test.ports.ra_d, test.ports.rb_d)

\* It is the result of the block's operation.
LEMMA TestResult ==
  ASSUME NEW f \in DOMAIN Funct, NEW ra, NEW rb, NEW expected
  PROVE  /\ Test(f, ra, rb, expected).expected = expected
         /\ Got(Test(f, ra, rb, expected)) = Operate(f, Wrap(ra), Wrap(rb))
<1> DEFINE x == Funct[f][1]
           y == Funct[f][2]
           a == Wrap(ra)
           b == Wrap(rb)
           no == FALSE
<1>1. Selects(x, y, no, f)
  BY DEF Selects, NeedsFunct7
<1>2. Rd(x, y, no, a, b) = Operate(f, a, b)
  <2> HIDE DEF x, y, a, b, no
  <2> QED BY <1>1, SelectedResult
<1> QED BY <1>2 DEF Got, Test, Ports

\* Zero has no sign.
LEMMA NoSign == \A m \in Nat : m <= 0 => -m = m
  BY SMT

\* What is added and taken away again leaves nothing.
LEMMA Regroup == \A m, k \in Int : (k - m) - k = -m
  BY SMT

\* A number is its own multiple.
LEMMA Multiples ==
  ASSUME NEW m \in Nat, m > 0
  PROVE  m % m = 0
<1>1. m = (m * (m \div m)) + (m % m) /\ m % m \in 0 .. m - 1 /\ m \div m \in Int
  OBVIOUS
<1>2. m \div m = 1
  OBVIOUS
<1> QED BY <1>1, <1>2

\* A small number is the word and its own sign.
LEMMA SmallWord ==
  ASSUME NEW n \in Nat, n < WORD \div 2
  PROVE  /\ Wrap(n) = n /\ Signed(Wrap(n)) = n /\ Wrap(n + n) = n + n /\ SizeT(n + n) = n + n
         /\ Signed(Wrap(-n)) = -n
<1>1. WORD \in {256, 65536, 4294967296}
  BY Widths
<1>2. Wrap(n) = n /\ Wrap(n + n) = n + n
  BY <1>1, SMTT(20) DEF Wrap
<1>3. SizeT(n + n) = n + n
  <2>1. SIZE \in Nat /\ n + n < SIZE
    BY <1>1, SIZEAssumption, SMTT(20)
  <2> QED BY <2>1 DEF SizeT
<1>4. Signed(Wrap(n)) = n
  BY <1>2 DEF Signed
<1>5. Signed(Wrap(-n)) = -n
  <2>1. CASE n <= 0
    <3>1. -n = n
      BY <2>1, NoSign, Zenon
    <3> QED BY <1>4, <3>1, Zenon
  <2>2. CASE ~(n <= 0)
    <3>1. Wrap(-n) = WORD - n
      BY <1>1, <2>2, SMTT(20) DEF Wrap
    <3>2. ~(WORD - n < WORD \div 2)
      BY <1>1, SMTT(20)
    <3>3. Signed(WORD - n) = (WORD - n) - WORD
      BY <3>2 DEF Signed
    <3>4. (WORD - n) - WORD = -n
      <4>1. WORD \in Int /\ n \in Int
        BY <1>1
      <4> QED BY <4>1, Regroup, Zenon
    <3> QED BY <3>1, <3>3, <3>4, Zenon
  <2> QED BY <2>1, <2>2
<1> QED BY <1>2, <1>3, <1>4, <1>5

\* The constants of the blocks.
LEMMA Literals ==
  /\ Wrap(1) = 1 /\ Wrap(2) = 2 /\ Signed(Wrap(1)) = 1
  /\ Wrap(23214) = 23214 /\ Signed(Wrap(23214)) = 23214
<1>1. /\ 1 \in Nat /\ 2 \in Nat /\ 23214 \in Nat
      /\ 1 < WORD \div 2 /\ 2 < WORD \div 2 /\ 23214 < WORD \div 2
  BY Widths, MaxIAssumption, SMT
<1> QED BY <1>1, SmallWord

\* A zero, cut to the width of a port or of a size_t.
LEMMA Zeros ==
  /\ Wrap(0) = 0 /\ SizeT(0) = 0
  /\ \A n \in Nat : n < WORD \div 2 => SizeT(n + SizeT(-n)) = 0
<1>1. WORD \in Nat /\ WORD > 0
  BY Widths, SMT
<1>2. SIZE \in Nat /\ SIZE > WORD
  BY SIZEAssumption
<1>3. Wrap(0) = 0 /\ SizeT(0) = 0
  BY <1>1, <1>2 DEF Wrap, SizeT
<1>4. ASSUME NEW n \in Nat, n < WORD \div 2 PROVE SizeT(n + SizeT(-n)) = 0
  <2>1. CASE n <= 0
    <3>1. -n = 0 /\ n + 0 = 0
      BY <2>1
    <3> QED BY <1>3, <3>1
  <2>2. CASE ~(n <= 0)
    <3>1. n < SIZE
      BY <1>1, <1>2, <1>4
    <3>2. SizeT(-n) = SIZE - n
      BY <1>2, <2>2, <3>1 DEF SizeT
    <3>3. n + (SIZE - n) = SIZE
      BY <1>2
    <3>4. SIZE % SIZE = 0
      BY <1>1, <1>2, Multiples
    <3> QED BY <3>2, <3>3, <3>4 DEF SizeT
  <2> QED BY <2>1, <2>2
<1> QED BY <1>3, <1>4

\* Two bits to the right, one is nothing.
LEMMA ShiftsOut == 1 \div (2 ^ (2 % XLEN)) = 0
<1>1. 2 % XLEN = 2
  BY ByteBitsAssumption DEF XLEN
<1>2. 2 ^ 2 = 4 /\ 1 \div 4 = 0
  BY SMT
<1> QED BY <1>1, <1>2

\* What a block's ports give is what the block expects.
Holds(test) == Got(test) = test.expected

\* A block expects the operation's result.
LEMMA HoldsIf ==
  ASSUME NEW f \in DOMAIN Funct, NEW ra, NEW rb, NEW expected,
         Operate(f, Wrap(ra), Wrap(rb)) = expected
  PROVE  Holds(Test(f, ra, rb, expected))
  BY TestResult DEF Holds

\* Each block but the two that misjudge expects what the unit computes.
LEMMA BlockHolds ==
  ASSUME NEW n \in Nat, n < WORD \div 2, NEW b \in 1 .. 12, ~Misjudges(b, n)
  PROVE  Holds(Blocks(n)[b])
<1>1. {"ADD", "SUB", "SLL", "SLT", "SLTU", "XOR", "SRL", "SRA", "OR", "AND"} \subseteq DOMAIN Funct
  BY DEF Funct
<1>2. /\ Wrap(n) = n /\ Signed(Wrap(n)) = n /\ Wrap(n + n) = n + n /\ SizeT(n + n) = n + n
      /\ Signed(Wrap(-n)) = -n
  BY SmallWord
<1>3. -n + n = 0 /\ n - n = 0
  BY SMT
<1>4. CASE b = 1
  <2>1. Operate("ADD", Wrap(n), Wrap(n)) = SizeT(n + n)
    BY <1>2 DEF Operate
  <2>2. Holds(AddTwice(n))
    BY <1>1, <2>1, HoldsIf DEF AddTwice
  <2> QED BY <1>4, <2>2 DEF Blocks
<1>5. CASE b = 2
  <2>1. Operate("ADD", Wrap(-n), Wrap(n)) = SizeT(n + SizeT(-n))
    BY <1>2, <1>3, Zeros DEF Operate
  <2>2. Holds(AddOpposite(n))
    BY <1>1, <2>1, HoldsIf DEF AddOpposite
  <2> QED BY <1>5, <2>2 DEF Blocks
<1>6. CASE b = 3
  <2>1. Operate("SUB", Wrap(n), Wrap(n)) = SizeT(n - n)
    BY <1>2, <1>3, Zeros DEF Operate
  <2>2. Holds(SubEqual(n))
    BY <1>1, <2>1, HoldsIf DEF SubEqual
  <2> QED BY <1>6, <2>2 DEF Blocks
<1>7. CASE b = 4
  <2>1. n = 0 /\ -n = 0 /\ 0 - 0 = 0
    BY <1>7 DEF Misjudges
  <2>2. Operate("SUB", Wrap(-n), Wrap(n)) = SizeT(SizeT(-n) - n)
    <3>1. Signed(Wrap(-n)) = 0 /\ Signed(Wrap(n)) = 0
      BY <1>2, <2>1
    <3>2. SizeT(SizeT(-n) - n) = 0
      BY <2>1, Zeros
    <3> QED BY <2>1, <3>1, <3>2, Zeros DEF Operate
  <2>3. Holds(SubOpposite(n))
    BY <1>1, <2>2, HoldsIf DEF SubOpposite
  <2> QED BY <1>7, <2>3 DEF Blocks
<1>8. CASE b = 6
  <2>1. -n < 23214
    OBVIOUS
  <2>2. Operate("SLT", Wrap(-n), Wrap(23214)) = 1
    BY <1>2, <2>1, Literals DEF Operate
  <2>3. Holds(LessThanPositive(n))
    BY <1>1, <2>2, HoldsIf DEF LessThanPositive
  <2> QED BY <1>8, <2>3 DEF Blocks
<1>9. CASE b = 7
  <2>1. Operate("SLTU", Wrap(1), Wrap(2)) = 1
    BY Literals DEF Operate
  <2>2. Holds(LessUnsigned(n))
    BY <1>1, <2>1, HoldsIf DEF LessUnsigned
  <2> QED BY <1>9, <2>2 DEF Blocks
<1>10. CASE b = 8
  <2>1. Operate("XOR", Wrap(1), Wrap(2)) = 3
    BY Literals, SmallLogic DEF Operate
  <2>2. Holds(XorBits(n))
    BY <1>1, <2>1, HoldsIf DEF XorBits
  <2> QED BY <1>10, <2>2 DEF Blocks
<1>11. CASE b = 9
  <2>1. Operate("SRL", Wrap(1), Wrap(2)) = 0
    BY Literals, ShiftsOut DEF Operate
  <2>2. Holds(ShiftRightOut(n))
    BY <1>1, <2>1, HoldsIf DEF ShiftRightOut
  <2> QED BY <1>11, <2>2 DEF Blocks
<1>12. CASE b = 10
  <2>1. Operate("SRA", Wrap(1), Wrap(2)) = 0
    BY Literals, ShiftsOut, Zeros DEF Operate
  <2>2. Holds(ShiftRightSigned(n))
    BY <1>1, <2>1, HoldsIf DEF ShiftRightSigned
  <2> QED BY <1>12, <2>2 DEF Blocks
<1>13. CASE b = 11
  <2>1. Operate("OR", Wrap(1), Wrap(2)) = 3
    BY Literals, SmallLogic DEF Operate
  <2>2. Holds(OrBits(n))
    BY <1>1, <2>1, HoldsIf DEF OrBits
  <2> QED BY <1>13, <2>2 DEF Blocks
<1>14. CASE b = 12
  <2>1. Operate("AND", Wrap(1), Wrap(2)) = 0
    BY Literals, SmallLogic DEF Operate
  <2>2. Holds(AndBits(n))
    BY <1>1, <2>1, HoldsIf DEF AndBits
  <2> QED BY <1>14, <2>2 DEF Blocks
<1> QED
  BY <1>4, <1>5, <1>6, <1>7, <1>8, <1>9, <1>10, <1>11, <1>12, <1>13, <1>14 DEF Misjudges

\* Ten blocks of the test, whatever i is, print "pass" of this unit; the two
\* others are those that Misjudges names.
THEOREM TestCorrect == Spec => SoundBlocksPass
<1>1. ASSUME IInv, RunBlock PROVE verdict' = "pass" \/ Misjudges(block, i)
  <2> SUFFICES ASSUME ~Misjudges(block, i) PROVE verdict' = "pass"
    OBVIOUS
  <2>1. i \in Nat /\ block \in 1 .. 12 /\ i < WORD \div 2
    <3>1. WORD \div 2 \in Int
      BY Widths, SMT
    <3> QED BY <1>1, <3>1, MaxIAssumption DEF IInv, RunBlock
  <2> DEFINE test == Blocks(i)[block]
  <2>2. Holds(test)
    BY <2>1, BlockHolds, Zenon
  <2>3. ports' = test.ports /\ verdict' = IF rd_d' = test.expected THEN "pass" ELSE "fail"
    BY <1>1, Zenon DEF RunBlock
  <2> HIDE DEF test
  <2>4. rd_d' = test.expected
    BY <2>2, <2>3, Zenon DEF rd_d, Holds, Got
  <2> QED BY <2>3, <2>4
<1>2. IInv /\ [Next]_vars => [RunBlock => (verdict' = "pass" \/ Misjudges(block, i))]_vars
  BY <1>1
<1> QED BY <1>2, Reachable, PTL DEF Spec, SoundBlocksPass
=============================================================================
