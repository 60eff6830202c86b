------------------------------- MODULE EmuAlu -------------------------------
(***************************************************************************)
(* The results of the instructions: op_unified's switch on alu_mode, and   *)
(* the opcode table that chooses the mode (riscv.c).                       *)
(***************************************************************************)
EXTENDS EmuPkg

\* C's division of signed integers truncates towards zero, and the remainder
\* has the sign of the dividend.
AbsValue(n) == IF n < 0 THEN -n ELSE n
DivTrunc(a, b) ==
  LET q == AbsValue(a) \div AbsValue(b) IN IF (a < 0) = (b < 0) THEN q ELSE -q
RemTrunc(a, b) ==
  LET r == AbsValue(a) % AbsValue(b) IN IF a < 0 THEN -r ELSE r

Flag(b) == IF b THEN 1 ELSE 0
AllOnes == WORD - 1

\* The arithmetic modes, on unsigned operands a and b.  A uint32_t cast to
\* int64_t is not sign extended, so the three MULH modes agree.
Alu(mode, a, b) ==
  LET shift == b % XLEN
  IN CASE mode = "ADD"  -> Wrap(a + b)
       [] mode = "SUB"  -> Wrap(a - b)
       [] mode = "SLL"  -> Wrap(a * 2 ^ shift)
       [] mode = "XOR"  -> BitXor(a, b)
       [] mode = "SRL"  -> a \div (2 ^ shift)
       [] mode = "SRA"  -> Wrap(Signed(a) \div (2 ^ shift))
       [] mode = "OR"   -> BitOr(a, b)
       [] mode = "AND"  -> BitAnd(a, b)
       [] mode = "SEQ"  -> Flag(a = b)
       [] mode = "SLT"  -> Flag(Signed(a) < Signed(b))
       [] mode = "SLTU" -> Flag(a < b)
       [] mode = "MUL"  -> Wrap(a * b)
       [] mode \in {"MULH", "MULHSU", "MULHU"} -> (a * b) \div WORD
       [] mode = "DIV"  -> IF b = 0 THEN AllOnes ELSE Wrap(DivTrunc(Signed(a), Signed(b)))
       [] mode = "DIVU" -> IF b = 0 THEN AllOnes ELSE a \div b
       [] mode = "REM"  -> IF b = 0 THEN AllOnes ELSE Wrap(RemTrunc(Signed(a), Signed(b)))
       [] mode = "REMU" -> IF b = 0 THEN AllOnes ELSE a % b
       [] OTHER         -> 0

\* INT_MIN / -1 overflows int32_t: undefined in C, a fatal trap on x86.
DivideOverflows(mode, a, b) ==
  mode \in {"DIV", "REM"} /\ Signed(a) = -(WORD \div 2) /\ Signed(b) = -1

-----------------------------------------------------------------------------
(* The opcode table: one row per instruction, named as its op_ function.   *)

Plain == [op2_immediate |-> FALSE, alu_mode |-> "NUL", store_result |-> FALSE,
          pc_mode |-> "NEXT_I", csr_mode |-> "NOP",
          memory_mode |-> "NONE", bytes |-> 4, signed |-> FALSE]

Compute(mode) == [Plain EXCEPT !.alu_mode = mode, !.store_result = TRUE]
ComputeImm(mode) == [Compute(mode) EXCEPT !.op2_immediate = TRUE]
Jump(mode) == [Compute("NEXT_I") EXCEPT !.pc_mode = mode]
CondJump(mode, taken) == [Plain EXCEPT !.alu_mode = mode, !.pc_mode = taken]
AccessCsr(mode) == [Compute("CSR") EXCEPT !.csr_mode = mode]

\* memory_mask as the number of bytes it keeps, load_sign_check as a flag.
LoadOf(n, sign) == [Plain EXCEPT !.store_result = TRUE, !.memory_mode = "LOAD",
                                 !.bytes = n, !.signed = sign]
StoreOf(n) == [Plain EXCEPT !.memory_mode = "STORE", !.bytes = n]

Opcodes ==
  [auipc |-> Compute("PC_U20"), lui |-> Compute("U20"),
   jal |-> Jump("REL_JUMP"), jalr |-> Jump("INDIRECT"),
   beq  |-> CondJump("SEQ", "COND_JUMP"),  bne  |-> CondJump("SEQ", "COND_JUMP_INV"),
   blt  |-> CondJump("SLT", "COND_JUMP"),  bge  |-> CondJump("SLT", "COND_JUMP_INV"),
   bltu |-> CondJump("SLTU", "COND_JUMP"), bgeu |-> CondJump("SLTU", "COND_JUMP_INV"),
   lb |-> LoadOf(1, TRUE), lh |-> LoadOf(2, TRUE), lw |-> LoadOf(4, FALSE),
   lbu |-> LoadOf(1, FALSE), lhu |-> LoadOf(2, FALSE),
   sb |-> StoreOf(1), sh |-> StoreOf(2), sw |-> StoreOf(4),
   addi |-> ComputeImm("ADD"), slti |-> ComputeImm("SLT"), sltiu |-> ComputeImm("SLTU"),
   xori |-> ComputeImm("XOR"), ori |-> ComputeImm("OR"), andi |-> ComputeImm("AND"),
   slli |-> ComputeImm("SLL"), srli |-> ComputeImm("SRL"), srai |-> ComputeImm("SRA"),
   add |-> Compute("ADD"), sub |-> Compute("SUB"), sll |-> Compute("SLL"),
   slt |-> Compute("SLT"), sltu |-> Compute("SLTU"), xor |-> Compute("XOR"),
   srl |-> Compute("SRL"), sra |-> Compute("SRA"), or |-> Compute("OR"),
   and |-> Compute("AND"), fence |-> Plain, fence_i |-> Plain,
   ecall |-> Plain, ebreak |-> Plain, unknown |-> Plain,
   csrrw |-> AccessCsr("RW"), csrrs |-> AccessCsr("RS"), csrrc |-> AccessCsr("RC"),
   csrrwi |-> AccessCsr("RWI"), csrrsi |-> AccessCsr("RSI"), csrrci |-> AccessCsr("RCI"),
   mul |-> Compute("MUL"), mulh |-> Compute("MULH"), mulhsu |-> Compute("MULHSU"),
   mulhu |-> Compute("MULHU"), div |-> Compute("DIV"), divu |-> Compute("DIVU"),
   rem |-> Compute("REM"), remu |-> Compute("REMU")]

\* The rows whose function raises an exception instead of calling op_unified.
Exceptions == {"ecall", "ebreak", "unknown"}
=============================================================================
