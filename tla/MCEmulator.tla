----------------------------- MODULE MCEmulator -----------------------------
(***************************************************************************)
(* A small instance of Emulator: bytes of 2 bits, words of 8, a region of  *)
(* 23 bytes (five words and a piece), three registers, short programs.     *)
(***************************************************************************)
EXTENDS Emulator

I(op, rd, rs1, rs2, imm) ==
  [NoInstr EXCEPT !.op = op, !.rd = rd, !.rs1 = rs1, !.rs2 = rs2, !.imm = imm]
C(op, rd, rs1, csrid, uimm) ==
  [NoInstr EXCEPT !.op = op, !.rd = rd, !.rs1 = rs1, !.csr = csrid, !.uimm = uimm]

\* Base addresses for accesses: every alignment, the last whole word, the
\* piece at the end, outside the region, and around the wrap.
Bases == <<0, 1, 14, 15, 16, 17, 18, 19, 21, 24, 253, 255>>
SetBase == [k \in 1 .. Len(Bases) |-> I("addi", 1, 0, 0, Bases[k])]

Accesses ==
  <<I("lb", 2, 1, 0, 0), I("lbu", 2, 1, 0, 2), I("lh", 2, 1, 0, -1), I("lhu", 1, 1, 0, 0),
    I("lw", 2, 1, 0, 1), I("lw", 0, 1, 0, 0), I("sb", 0, 1, 2, 0), I("sh", 0, 1, 1, 1),
    I("sw", 0, 1, 2, 0), I("sw", 0, 1, 1, -1)>>

\* -4 goes back one instruction, -8 two.
Jumps ==
  <<I("jal", 2, 0, 0, -4), I("jal", 0, 0, 0, -8), I("jalr", 1, 1, 0, 1), I("jalr", 0, 2, 0, 0),
    I("beq", 0, 1, 2, -4), I("bne", 0, 1, 2, 8), I("blt", 0, 1, 2, -4), I("bge", 0, 1, 2, -4),
    I("bltu", 0, 1, 2, -4), I("bgeu", 0, 1, 2, 8)>>

Ops ==
  <<I("add", 2, 1, 2, 0), I("sub", 2, 2, 1, 0), I("sra", 2, 1, 1, 0), I("mul", 2, 1, 1, 0),
    I("div", 2, 1, 2, 0), I("rem", 2, 1, 2, 0), I("slti", 2, 1, 0, -1), I("auipc", 2, 0, 0, 16),
    I("lui", 2, 0, 0, 128), I("addi", 2, 0, 0, -1), I("fence", 0, 0, 0, 0),
    I("addi", 0, 1, 0, 3)>>

Systems ==
  <<C("csrrw", 2, 1, "OTHER", 0), C("csrrw", 2, 0, "OTHER", 0), C("csrrs", 2, 1, "OTHER", 0),
    C("csrrc", 2, 1, "OTHER", 0), C("csrrwi", 0, 0, "OTHER", 3), C("csrrci", 2, 0, "OTHER", 1),
    C("csrrsi", 2, 0, "OTHER", 2), C("csrrs", 2, 0, "RDCYCLE", 0), C("csrrw", 1, 1, "RDTIME", 0),
    I("ecall", 0, 0, 0, 0), I("unknown", 0, 0, 0, 0)>>

\* The smallest number.
Smallest == <<I("lui", 1, 0, 0, 128)>>

Table == SetBase \o Accesses \o Jumps \o Ops \o Systems \o Smallest

\* A word whose low two bits are not 3 is no instruction (decode returns 0).
MCDecode ==
  [w \in WordNum |->
     IF w % 4 # 3 THEN NoInstr
     ELSE IF w \div 4 < Len(Table) THEN Table[w \div 4 + 1]
     ELSE I("unknown", 0, 0, 0, 0)]

CodeOf(i) == 4 * ((CHOOSE k \in 1 .. Len(Table) : Table[k] = i) - 1) + 3
Codes(list) == {CodeOf(list[k]) : k \in 1 .. Len(list)}

\* 228 has the bytes 0, 1, 2, 3.
Image(words) == [words |-> words, file |-> RomFile(words, 0), cycles |-> 8]
Data == 228

\* Set a base, two accesses of it in a loop, then data.
Back == CodeOf(I("jal", 0, 0, 0, -8))
AccessImages ==
  {Image(<<b, x, y, Back, Data>>) : b \in Codes(SetBase), x, y \in Codes(Accesses)}

\* Two instructions of any kind after an operand is set.
Operands == {CodeOf(I("addi", 1, 0, 0, n)) : n \in {1, 16, 253}}
MixedImages ==
  {Image(<<b, x, y, Back, Data>>) :
     b \in Operands, x \in Codes(Ops \o Systems), y \in Codes(Jumps \o Ops \o Systems)}

\* The smallest number divided by -1; 1 divided by falling numbers; a binary that
\* is no multiple of four bytes long; and a text edited by hand, with blank lines,
\* a comment and a word of one digit.
Short == <<CodeOf(I("addi", 1, 0, 0, 16)), CodeOf(I("lw", 2, 1, 0, 1)), 9>>
OddImages ==
  {Image(<<CodeOf(Smallest[1]), CodeOf(I("addi", 2, 0, 0, -1)), CodeOf(d), Back, Data>>) :
     d \in {I("div", 2, 1, 2, 0), I("rem", 2, 1, 2, 0)}} \cup
  {Image(<<CodeOf(I("addi", 1, 0, 0, 1)), CodeOf(I("sub", 2, 2, 1, 0)),
           CodeOf(I("div", 2, 1, 2, 0)), Back, Data>>),
   [words |-> Short, file |-> RomFile(Short, 1), cycles |-> 3],
   [words |-> <<9, 0, 19>>, file |-> <<CR, NL, 9, SPACE, JUNK, NL, SPACE, NL, 1, 3>>, cycles |-> 2]}

MCImages == AccessImages \cup MixedImages \cup OddImages
=============================================================================
