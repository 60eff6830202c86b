------------------------------ MODULE EmuDecode ------------------------------
(***************************************************************************)
(* How the emulator recognises an instruction (riscv.c): the table of      *)
(* patterns, which riscv_initialise compiles to masks and values, decode,  *)
(* which takes the word apart with shifts and masks, and do_op's search    *)
(* for the first row that matches.  Words are 32 bits, as functions.       *)
(***************************************************************************)
EXTENDS Integers, Sequences

CONSTANT Instructions   \* the instructions fetched, as the manual writes them

BitPos == 0 .. 31
Zeros  == [b \in BitPos |-> 0]

\* Any integer as a 32-bit two's complement word.
BitsOf(n) == [b \in BitPos |-> IF b = 31 THEN (IF n < 0 THEN 1 ELSE 0)
                               ELSE (n \div (2 ^ b)) % 2]

-----------------------------------------------------------------------------
(* The table.  A specification has one character per bit, the most         *)
(* significant first; it is given here by the fields it fixes, as triples  *)
(* <<highest bit, lowest bit, value>>, the others being '-'.               *)

Row(func, fixed) == [func |-> func, fixed |-> fixed]
OfOpcode(func, opcode) == Row(func, {<<6, 0, opcode>>})
OfFunct3(func, f3, opcode) == Row(func, {<<14, 12, f3>>, <<6, 0, opcode>>})
OfFunct7(func, f7, f3, opcode) ==
  Row(func, {<<31, 25, f7>>, <<14, 12, f3>>, <<6, 0, opcode>>})

Jumps ==
  <<OfOpcode("auipc", 23), OfOpcode("lui", 55), OfOpcode("jal", 111),
    OfFunct3("jalr", 0, 103),
    OfFunct3("beq", 0, 99), OfFunct3("bne", 1, 99), OfFunct3("blt", 4, 99),
    OfFunct3("bge", 5, 99), OfFunct3("bltu", 6, 99), OfFunct3("bgeu", 7, 99)>>
Accesses ==
  <<OfFunct3("lb", 0, 3), OfFunct3("lh", 1, 3), OfFunct3("lw", 2, 3),
    OfFunct3("lbu", 4, 3), OfFunct3("lhu", 5, 3),
    OfFunct3("sb", 0, 35), OfFunct3("sh", 1, 35), OfFunct3("sw", 2, 35)>>
Immediates ==
  <<OfFunct3("addi", 0, 19), OfFunct3("slti", 2, 19), OfFunct3("sltiu", 3, 19),
    OfFunct3("xori", 4, 19), OfFunct3("ori", 6, 19), OfFunct3("andi", 7, 19),
    OfFunct7("slli", 0, 1, 19), OfFunct7("srli", 0, 5, 19), OfFunct7("srai", 32, 5, 19)>>
Registers ==
  <<OfFunct7("add", 0, 0, 51), OfFunct7("sub", 32, 0, 51), OfFunct7("sll", 0, 1, 51),
    OfFunct7("slt", 0, 2, 51), OfFunct7("sltu", 0, 3, 51), OfFunct7("xor", 0, 4, 51),
    OfFunct7("srl", 0, 5, 51), OfFunct7("sra", 32, 5, 51), OfFunct7("or", 0, 6, 51),
    OfFunct7("and", 0, 7, 51)>>
System ==
  <<Row("fence", {<<31, 28, 0>>, <<19, 0, 15>>}), Row("fence_i", {<<31, 12, 1>>, <<11, 0, 15>>}),
    Row("ecall", {<<31, 0, 115>>}), Row("ebreak", {<<31, 20, 1>>, <<19, 0, 115>>}),
    OfFunct3("csrrw", 1, 115), OfFunct3("csrrs", 2, 115), OfFunct3("csrrc", 3, 115),
    OfFunct3("csrrwi", 5, 115), OfFunct3("csrrsi", 6, 115), OfFunct3("csrrci", 7, 115)>>
Multiplications ==
  <<OfFunct7("mul", 1, 0, 51), OfFunct7("mulh", 1, 1, 51), OfFunct7("mulhsu", 1, 2, 51),
    OfFunct7("mulhu", 1, 3, 51), OfFunct7("div", 1, 4, 51), OfFunct7("divu", 1, 5, 51),
    OfFunct7("rem", 1, 6, 51), OfFunct7("remu", 1, 7, 51)>>

opcodes ==
  Jumps \o Accesses \o Immediates \o Registers \o System \o Multiplications
    \o <<Row("unknown", {})>>

\* spec[j], for j from 0.
Spec32(row, j) ==
  LET b == 31 - j
      fields == {f \in row.fixed : b \in f[2] .. f[1]}
  IN IF fields = {} THEN "-"
     ELSE LET f == CHOOSE x \in fields : TRUE
          IN IF BitsOf(f[3])[b - f[2]] = 1 THEN "1" ELSE "0"

-----------------------------------------------------------------------------
VARIABLES
  at,            \* initialise (riscv_initialise), fetch, execute, done
  i,             \* riscv_initialise's i
  mask, value,   \* of the rows
  instruction,   \* history: the instruction current_instr is the encoding of
  current_instr,
  field,         \* decode's statics
  op             \* the function do_op calls

vars == <<at, i, mask, value, instruction, current_instr, field, op>>

Rows == 1 .. Len(opcodes)

ShiftLeft(w, n)  == [b \in BitPos |-> IF b < n THEN 0 ELSE w[b - n]]
ShiftRight(w, n) == [b \in BitPos |-> IF b + n > 31 THEN 0 ELSE w[b + n]]
ShiftArith(w, n) == [b \in BitPos |-> IF b + n > 31 THEN w[31] ELSE w[b + n]]
OrWord(v, w)     == [b \in BitPos |-> IF v[b] + w[b] > 0 THEN 1 ELSE 0]
Keep(w, hi, lo)  == [b \in BitPos |-> IF b \in lo .. hi THEN w[b] ELSE 0]

\* riscv_initialise's inner loop shifts the row's characters into a word;
\* sets[c] is the bit that character c sets.
Compile(row, sets) ==
  LET f[j \in 0 .. 32] ==
        IF j = 0 THEN Zeros
        ELSE [ShiftLeft(f[j - 1], 1) EXCEPT ![0] = sets[Spec32(row, j - 1)]]
  IN f[32]

Character == {"0", "1", "-"}

\* Mutant: only the ones of a pattern have to match.
MaskBitOnes == [c \in Character |-> IF c = "1" THEN 1 ELSE 0]
MaskBit  == [c \in Character |-> IF c = "-" THEN 0 ELSE 1]
ValueBit == [c \in Character |-> IF c = "1" THEN 1 ELSE 0]

Initialise ==
  /\ at = "initialise"
  /\ mask'  = [mask EXCEPT ![i] = Compile(opcodes[i], MaskBit)]
  /\ value' = [value EXCEPT ![i] = Compile(opcodes[i], ValueBit)]
  /\ IF i = Len(opcodes) THEN at' = "fetch" /\ i' = i ELSE at' = at /\ i' = i + 1
  /\ UNCHANGED <<instruction, current_instr, field, op>>

-----------------------------------------------------------------------------
(* The encoding of the RISC-V manual: what an assembler produces.          *)

\* major -> opcode and format
Majors ==
  [auipc  |-> [opcode |-> 23,  format |-> "U"], lui   |-> [opcode |-> 55, format |-> "U"],
   jal    |-> [opcode |-> 111, format |-> "J"], jalr  |-> [opcode |-> 103, format |-> "I"],
   branch |-> [opcode |-> 99,  format |-> "B"], load  |-> [opcode |-> 3,  format |-> "I"],
   store  |-> [opcode |-> 35,  format |-> "S"], opimm |-> [opcode |-> 19, format |-> "I"],
   arith  |-> [opcode |-> 51,  format |-> "R"], misc  |-> [opcode |-> 15, format |-> "I"],
   system |-> [opcode |-> 115, format |-> "I"]]

\* The immediates of a format: branch and jump offsets are even.
Fits(imm, format) ==
  /\ format \in {"I", "S"} => imm \in -2048 .. 2047
  /\ format = "B" => imm \in -4096 .. 4095 /\ imm % 2 = 0
  /\ format = "U" => imm \in 0 .. 2 ^ 20 - 1
  /\ format = "J" => imm \in -(2 ^ 20) .. 2 ^ 20 - 1 /\ imm % 2 = 0

ASSUME InstructionsAssumption ==
  \A ins \in Instructions :
    /\ ins \in [major : DOMAIN Majors, f3 : 0 .. 7, f7 : 0 .. 127,
               rd : 0 .. 31, rs1 : 0 .. 31, rs2 : 0 .. 31, imm : Int]
    /\ Fits(ins.imm, Majors[ins.major].format)

\* Bit b of the immediate's part of the word.
ImmBit(format, imm, b) ==
  CASE format = "I" -> imm[b - 20]
    [] format = "S" -> IF b > 20 THEN imm[b - 20] ELSE imm[b - 7]
    [] format = "B" -> IF b = 31 THEN imm[12] ELSE IF b = 7 THEN imm[11]
                       ELSE IF b > 20 THEN imm[b - 20] ELSE imm[b - 7]
    [] format = "U" -> imm[b - 12]
    [] format = "J" -> IF b = 31 THEN imm[20] ELSE IF b = 20 THEN imm[11]
                       ELSE IF b > 20 THEN imm[b - 20] ELSE imm[b]

\* The word of an instruction [major, f3, f7, rd, rs1, rs2, imm]; a U
\* immediate is given by its upper twenty bits.
Assemble(ins) ==
  LET format == Majors[ins.major].format
      imm    == BitsOf(ins.imm)
      opcode == BitsOf(Majors[ins.major].opcode)
      rd == BitsOf(ins.rd)
      f3 == BitsOf(ins.f3)
      rs1 == BitsOf(ins.rs1)
      rs2 == BitsOf(ins.rs2)
      f7 == BitsOf(ins.f7)
      upper == format \in {"U", "J"}
  IN [b \in BitPos |->
        CASE b \in 0 .. 6                                  -> opcode[b]
          [] b \in 7 .. 11 /\ format \notin {"S", "B"}      -> rd[b - 7]
          [] b \in 12 .. 14 /\ ~upper                      -> f3[b - 12]
          [] b \in 15 .. 19 /\ ~upper                      -> rs1[b - 15]
          [] b \in 20 .. 24 /\ format \in {"R", "S", "B"}   -> rs2[b - 20]
          [] b \in 25 .. 31 /\ format = "R"                -> f7[b - 25]
          [] OTHER                                         -> ImmBit(format, imm, b)]

\* The manual's name of an instruction, by funct3 and funct7; "unknown" where
\* the encoding is reserved.
R == "unknown"
Named(names, f3) == names[f3 + 1]

Name(ins) ==
  LET only == ins.rd = 0 /\ ins.rs1 = 0   \* what fences and ecalls require
      high == ins.imm \div 32
  IN CASE ins.major \in {"auipc", "lui", "jal"} -> ins.major
       [] ins.major = "jalr"   -> IF ins.f3 = 0 THEN "jalr" ELSE R
       [] ins.major = "branch" -> Named(<<"beq", "bne", R, R, "blt", "bge", "bltu", "bgeu">>, ins.f3)
       [] ins.major = "load"   -> Named(<<"lb", "lh", "lw", R, "lbu", "lhu", R, R>>, ins.f3)
       [] ins.major = "store"  -> Named(<<"sb", "sh", "sw", R, R, R, R, R>>, ins.f3)
       [] ins.major = "opimm"  ->
            Named(<<"addi", IF high = 0 THEN "slli" ELSE R, "slti", "sltiu", "xori",
                    IF high = 0 THEN "srli" ELSE IF high = 32 THEN "srai" ELSE R,
                    "ori", "andi">>, ins.f3)
       [] ins.major = "arith" ->
            CASE ins.f7 = 0  -> Named(<<"add", "sll", "slt", "sltu", "xor", "srl", "or", "and">>, ins.f3)
              [] ins.f7 = 32 -> Named(<<"sub", R, R, R, R, "sra", R, R>>, ins.f3)
              [] ins.f7 = 1  -> Named(<<"mul", "mulh", "mulhsu", "mulhu",
                                        "div", "divu", "rem", "remu">>, ins.f3)
              [] OTHER       -> R
       [] ins.major = "misc" ->
            Named(<<IF only /\ ins.imm \in 0 .. 255 THEN "fence" ELSE R,
                    IF only /\ ins.imm = 0 THEN "fence_i" ELSE R, R, R, R, R, R, R>>, ins.f3)
       [] ins.major = "system" ->
            Named(<<IF only /\ ins.imm = 0 THEN "ecall" ELSE
                    IF only /\ ins.imm = 1 THEN "ebreak" ELSE R,
                    "csrrw", "csrrs", "csrrc", R, "csrrwi", "csrrsi", "csrrci">>, ins.f3)

-----------------------------------------------------------------------------
(* decode and the search of do_op                                          *)

\* A word arrives.
Fetch ==
  /\ at = "fetch"
  /\ \E ins \in Instructions : instruction' = ins /\ current_instr' = Assemble(ins)
  /\ at' = "decode"
  /\ UNCHANGED <<i, mask, value, field, op>>

\* Mutant: the branch offset's bit 11 is left where it is in the word.
BroffsetUnshifted(w) ==
  OrWord(OrWord(ShiftArith(Keep(w, 31, 31), 19), Keep(w, 7, 7)),
         OrWord(ShiftRight(Keep(w, 30, 25), 20), ShiftRight(Keep(w, 11, 8), 7)))

\* (instr & 0x80000000) >> 19 and so on; the cast makes the first shift signed.
Broffset(w) ==
  OrWord(OrWord(ShiftArith(Keep(w, 31, 31), 19), ShiftLeft(Keep(w, 7, 7), 4)),
         OrWord(ShiftRight(Keep(w, 30, 25), 20), ShiftRight(Keep(w, 11, 8), 7)))

Jmpoffset(w) ==
  OrWord(OrWord(ShiftArith(Keep(w, 31, 31), 11), Keep(w, 19, 12)),
         OrWord(ShiftRight(Keep(w, 20, 20), 9), ShiftRight(Keep(w, 30, 21), 20)))

Imm12wr(w) ==
  OrWord(Keep(ShiftArith(w, 20), 31, 5), Keep(ShiftRight(w, 7), 4, 0))

\* The statics that decode assigns.
Fields(w) ==
  [rs1 |-> Keep(ShiftRight(w, 15), 4, 0), rs2 |-> Keep(ShiftRight(w, 20), 4, 0),
   rd |-> Keep(ShiftRight(w, 7), 4, 0), csrid |-> ShiftRight(w, 20),
   uimm |-> Keep(ShiftRight(w, 15), 4, 0),
   imm12 |-> ShiftArith(w, 20), imm12wr |-> Imm12wr(w), upper20 |-> Keep(w, 31, 12),
   broffset |-> Broffset(w), jmpoffset |-> Jmpoffset(w)]

decode ==
  /\ at = "decode"
  /\ field' = Fields(current_instr)
  /\ at' = IF current_instr[0] = 1 /\ current_instr[1] = 1 THEN "execute" ELSE "done"
  /\ UNCHANGED <<i, mask, value, instruction, current_instr, op>>

Matches(w, r) == \A b \in BitPos : w[b] * mask[r][b] = value[r][b]

\* The function of the first row that matches is called.
Execute ==
  /\ at = "execute"
  /\ \E r \in Rows : /\ Matches(current_instr, r)
                     /\ \A earlier \in 1 .. r - 1 : ~Matches(current_instr, earlier)
                     /\ op' = opcodes[r].func
  /\ at' = "done"
  /\ UNCHANGED <<i, mask, value, instruction, current_instr, field>>

Init ==
  /\ at = "initialise" /\ i = 1
  /\ mask = [r \in Rows |-> Zeros] /\ value = [r \in Rows |-> Zeros]
  /\ instruction = "none" /\ current_instr = Zeros
  /\ field = "unset" /\ op = "none"

Next == Initialise \/ Fetch \/ decode \/ Execute

Spec == Init /\ [][Next]_vars

-----------------------------------------------------------------------------
(* Properties                                                              *)

\* The fields that an instruction of each format uses.
FieldsRight ==
  LET ins == instruction
      format == Majors[ins.major].format
      rdRight  == field.rd = BitsOf(ins.rd)
      rs1Right == field.rs1 = BitsOf(ins.rs1) /\ field.uimm = BitsOf(ins.rs1)
      rs2Right == field.rs2 = BitsOf(ins.rs2)
      imm == BitsOf(ins.imm)
  IN CASE format = "R" -> rdRight /\ rs1Right /\ rs2Right
       [] format = "I" -> /\ rdRight /\ rs1Right /\ field.imm12 = imm
                          /\ field.csrid = Keep(imm, 11, 0)
       [] format = "S" -> rs1Right /\ rs2Right /\ field.imm12wr = imm
       [] format = "B" -> rs1Right /\ rs2Right /\ field.broffset = imm
       [] format = "U" -> rdRight /\ field.upper20 = ShiftLeft(imm, 12)
       [] format = "J" -> rdRight /\ field.jmpoffset = imm

\* What the emulator executes is the instruction that was assembled, with the
\* operands it was assembled with; the reserved encodings are unknown to it.
DecodeInvertsAssemble ==
  at = "done" => op = Name(instruction) /\ FieldsRight

Decoder == INSTANCE CoreDecode

\* The core of which the emulator is the golden model takes every word apart as
\* the emulator does: registers, and the immediates of all formats, in 32 bits.
DecodersAgree ==
  at \in {"execute", "done"} =>
    LET core == Decoder!Operands(current_instr)
    IN /\ \A f \in {"imm12", "imm12wr", "broffset", "upper20", "jmpoffset"} :
            core[f] = field[f]
       /\ \A f \in {"rd", "rs1", "rs2"} : core[f] = Decoder!Slice(field[f], 4, 0)

\* Once the table is compiled, no word at all matches two rows but the last, so
\* the order of the rows, which do_op tries one by one, does not matter.
RowsExclusive ==
  at = "fetch" =>
    \A r, s \in Rows \ {Len(opcodes)} :
      r # s => \E b \in BitPos : mask[r][b] * mask[s][b] = 1 /\ value[r][b] # value[s][b]
=============================================================================
