------------------------------- MODULE EmuIsa -------------------------------
(***************************************************************************)
(* What the emulator promises the testbench: a machine that executes one   *)
(* RV32IM instruction per step on a flat byte memory.  No fetch, no stall, *)
(* no queue, no opcode table, no split access.  Instructions are defined   *)
(* by what they compute, bit by bit where the table uses arithmetic.       *)
(*                                                                         *)
(* Where the emulator departs from RISC-V on purpose or by mistake, this   *)
(* machine follows the emulator and says so.                               *)
(***************************************************************************)
EXTENDS EmuPkg

CONSTANTS Decode, Images, Variants, RamSize

VARIABLES
  image, variant,
  running,   \* the image has been loaded
  pc, regs,
  csr,       \* a CSR that is not a counter
  mem

isaVars == <<image, variant, running, pc, regs, csr, mem>>

Loc == 0 .. RamSize - 1

\* The program the words of the image make.
Program(words) ==
  [l \in Loc |-> IF l \div 4 < Len(words) THEN Bytes(words[l \div 4 + 1])[l % 4] ELSE 0]

Init ==
  /\ image \in Images /\ variant \in Variants
  /\ running = FALSE
  /\ pc = 0 /\ regs = [r \in Reg |-> 0] /\ csr = 0
  /\ mem = [l \in Loc |-> 0]

Boot ==
  /\ ~running
  /\ running' = TRUE /\ mem' = Program(image.words)
  /\ UNCHANGED <<pc, regs, csr>>

-----------------------------------------------------------------------------

\* Memory is accessed in words that lie wholly in the region.  A load touches
\* four bytes whatever its size, and is 0 when one of them is missing.
Backed(a)  == (a - (a % 4)) + 4 <= RamSize
At(a, i)   == Wrap(a + i)
WordAt(a)  == IF \A i \in Lane : Backed(At(a, i)) THEN [i \in Lane |-> mem[At(a, i)]]
              ELSE NoBytes

\* A store stops at the first byte that is missing.
Written(a, n, value) ==
  [l \in Loc |->
     LET i == Wrap(l - a)
     IN IF i < n /\ \A k \in 0 .. i : Backed(At(a, k)) THEN Bytes(value)[i] ELSE mem[l]]

In == Decode[Number(WordAt(pc))]
A  == regs[In.rs1]
B(imm) == IF In.op = imm THEN Wrap(In.imm) ELSE regs[In.rs2]

\* Two's complement order, and shifts, bit by bit.
Less(a, b) == Wrap(a + WORD \div 2) < Wrap(b + WORD \div 2)
ShiftedLeft(a, s)  == OfBits([i \in BitIndex |-> IF i < s THEN 0 ELSE Bit(a, i - s)])
ShiftedRight(a, s, fill) ==
  OfBits([i \in BitIndex |-> IF i + s < XLEN THEN Bit(a, i + s) ELSE fill])
OneIf(p) == IF p THEN 1 ELSE 0

\* RISC-V's signed division: truncated, the remainder signed like the dividend.
Quotient(a, b) ==
  CHOOSE q \in -WORD .. WORD :
    LET r == a - q * b IN /\ r * r < b * b
                          /\ r = 0 \/ (r < 0) = (a < 0)

\* Departures: mulh and mulhsu take their operands unsigned; a remainder by
\* zero is all ones instead of the dividend.
Value ==
  LET op == In.op
      signed == Quotient(Signed(A), Signed(B("")))
  IN CASE op \in {"add", "addi"}   -> Wrap(A + B("addi"))
       [] op = "sub"               -> Wrap(A - B(""))
       [] op \in {"xor", "xori"}   -> BitXor(A, B("xori"))
       [] op \in {"or", "ori"}     -> BitOr(A, B("ori"))
       [] op \in {"and", "andi"}   -> BitAnd(A, B("andi"))
       [] op \in {"slt", "slti"}   -> OneIf(Less(A, B("slti")))
       [] op \in {"sltu", "sltiu"} -> OneIf(A < B("sltiu"))
       [] op \in {"sll", "slli"}   -> ShiftedLeft(A, B("slli") % XLEN)
       [] op \in {"srl", "srli"}   -> ShiftedRight(A, B("srli") % XLEN, 0)
       [] op \in {"sra", "srai"}   -> ShiftedRight(A, B("srai") % XLEN, Bit(A, XLEN - 1))
       [] op = "lui"               -> Wrap(In.imm)
       [] op = "auipc"             -> Wrap(pc + In.imm)
       [] op = "mul"               -> Wrap(A * B(""))
       [] op \in {"mulh", "mulhsu", "mulhu"} -> (A * B("")) \div WORD
       [] op = "divu"              -> IF B("") = 0 THEN WORD - 1 ELSE A \div B("")
       [] op = "remu"              -> IF B("") = 0 THEN WORD - 1 ELSE A % B("")
       [] op = "div"               -> IF B("") = 0 THEN WORD - 1 ELSE Wrap(signed)
       [] op = "rem"               -> IF B("") = 0 THEN WORD - 1
                                      ELSE Wrap(Signed(A) - signed * Signed(B("")))

Computes == {"add", "addi", "sub", "xor", "xori", "or", "ori", "and", "andi", "slt", "slti",
             "sltu", "sltiu", "sll", "slli", "srl", "srli", "sra", "srai", "lui", "auipc",
             "mul", "mulh", "mulhsu", "mulhu", "div", "divu", "rem", "remu"}

Set(rd, v) == regs' = [r \in Reg |-> IF r = rd /\ r # 0 THEN v ELSE regs[r]]
Advance == pc' = Wrap(pc + 4)

Compute == In.op \in Computes /\ Set(In.rd, Value) /\ Advance /\ UNCHANGED <<csr, mem>>

Fence == In.op \in {"fence", "fence_i"} /\ Advance /\ UNCHANGED <<regs, csr, mem>>

Taken ==
  CASE In.op = "beq"  -> A = B("")
    [] In.op = "bne"  -> A # B("")
    [] In.op = "blt"  -> Less(A, B(""))
    [] In.op = "bge"  -> ~Less(A, B(""))
    [] In.op = "bltu" -> A < B("")
    [] In.op = "bgeu" -> A >= B("")

Branch ==
  /\ In.op \in {"beq", "bne", "blt", "bge", "bltu", "bgeu"}
  /\ IF Taken THEN pc' = Wrap(pc + In.imm) ELSE Advance
  /\ UNCHANGED <<regs, csr, mem>>

Jump ==
  /\ In.op \in {"jal", "jalr"}
  /\ pc' = IF In.op = "jal" THEN Wrap(pc + In.imm)
           ELSE 2 * (Wrap(A + In.imm) \div 2)
  /\ Set(In.rd, Wrap(pc + 4))
  /\ UNCHANGED <<csr, mem>>

Extended(n, sign, bytes) ==
  Number([i \in Lane |-> IF i < n THEN bytes[i]
                         ELSE IF sign /\ bytes[n - 1] >= BYTE \div 2 THEN BYTE - 1 ELSE 0])

Load ==
  /\ In.op \in {"lb", "lh", "lw", "lbu", "lhu"}
  /\ LET n == CASE In.op \in {"lb", "lbu"} -> 1 [] In.op \in {"lh", "lhu"} -> 2 [] OTHER -> 4
     IN Set(In.rd, Extended(n, In.op \in {"lb", "lh"}, WordAt(Wrap(A + In.imm))))
  /\ Advance
  /\ UNCHANGED <<csr, mem>>

Store ==
  /\ In.op \in {"sb", "sh", "sw"}
  /\ LET n == CASE In.op = "sb" -> 1 [] In.op = "sh" -> 2 [] OTHER -> 4
     IN mem' = Written(Wrap(A + In.imm), n, B(""))
  /\ Advance
  /\ UNCHANGED <<regs, csr>>

\* Departures: csrrw from x0 does not write; counters are writable.  What a
\* counter reads is left open.
Csr ==
  /\ In.op \in {"csrrw", "csrrs", "csrrc", "csrrwi", "csrrsi", "csrrci"}
  /\ \E old \in WordNum :
       /\ In.csr = "OTHER" => old = csr
       /\ Set(In.rd, old)
  /\ csr' = IF In.csr # "OTHER" THEN csr
            ELSE CASE In.op = "csrrw"  -> IF In.rs1 = 0 THEN csr ELSE A
                   [] In.op = "csrrs"  -> BitOr(csr, A)
                   [] In.op = "csrrc"  -> BitAnd(csr, BitNot(A))
                   [] In.op = "csrrwi" -> In.uimm
                   [] In.op = "csrrsi" -> BitOr(csr, In.uimm)
                   [] In.op = "csrrci" -> BitAnd(csr, BitNot(In.uimm))
  /\ Advance
  /\ UNCHANGED mem

\* model_verify's copy makes no progress at an exception, modelsim's goes on.
Skip ==
  /\ variant = "modelsim" /\ In.op \in {"ecall", "ebreak", "unknown"}
  /\ Advance
  /\ UNCHANGED <<regs, csr, mem>>

Next ==
  /\ UNCHANGED <<image, variant>>
  /\ \/ Boot
     \/ /\ running /\ pc % 4 = 0
        /\ UNCHANGED running
        /\ Compute \/ Fence \/ Branch \/ Jump \/ Load \/ Store \/ Csr \/ Skip

Spec == Init /\ [][Next]_isaVars
=============================================================================
