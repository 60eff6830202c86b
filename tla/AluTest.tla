------------------------------ MODULE AluTest ------------------------------
(***************************************************************************)
(* The Verilator test of the arithmetic unit (verilator/alu_test/          *)
(* alu_test.cpp), and the use the core makes of the same unit: the ports   *)
(* are driven either by the test's blocks, one after the other for each i, *)
(* or by an instruction with any operands.  The unit is compared with the  *)
(* test's expectations and with the emulator's arithmetic (EmuAlu), with   *)
(* which model_verify_tb.sv compares the core.                             *)
(***************************************************************************)
EXTENDS CoreAlu, EmuAlu

CONSTANTS
  MaxI,       \* INT16_MAX
  SIZE,       \* size_t wraps at 2^64: later than a port does
  Operand     \* the operands the core's instructions have

ASSUME MaxIAssumption == MaxI \in Nat /\ MaxI <= WORD \div 2 /\ 23214 < WORD \div 2
ASSUME SIZEAssumption == SIZE \in Nat /\ SIZE % WORD = 0 /\ SIZE > WORD
ASSUME OperandAssumption == Operand \subseteq WordNum

VARIABLES
  driver,     \* "test" or "core"
  i, block,   \* the test's loop and the block it is in
  ports,      \* ra_d, rb_d, func3, func7 and imm_t
  verdict     \* history: "pass" or "fail", as the block printed

vars == <<driver, i, block, ports, verdict>>

Ports(func7, func3, imm_t, a, b) ==
  [func7 |-> func7, func3 |-> func3, imm_t |-> imm_t, ra_d |-> a, rb_d |-> b]

rd_d == Rd(ports.func7, ports.func3, ports.imm_t, ports.ra_d, ports.rb_d)

-----------------------------------------------------------------------------
(* The blocks: the row of test_cases that gives func7 and func3, what is   *)
(* assigned to the ports, and what rd_d is compared with.  An expression   *)
(* with i has its type size_t; the ports cut it to their width.            *)

SizeT(n) == n % SIZE

Test(f, ra, rb, expected) ==
  [ports |-> Ports(Funct[f][1], Funct[f][2], FALSE, Wrap(ra), Wrap(rb)), expected |-> expected]

AddTwice(n)         == Test("ADD", n, n, SizeT(n + n))
AddOpposite(n)      == Test("ADD", -n, n, SizeT(n + SizeT(-n)))
SubEqual(n)         == Test("SUB", n, n, SizeT(n - n))
SubOpposite(n)      == Test("SUB", -n, n, SizeT(SizeT(-n) - n))
ShiftByItself(n)    == Test("SLL", n, n, 4)

\* Mutant: the operands of slt are exchanged.
PositiveLessThan(n) == Test("SLT", 23214, -n, 1)
LessThanPositive(n) == Test("SLT", -n, 23214, 1)
LessUnsigned(n)     == Test("SLTU", 1, 2, 1)
XorBits(n)          == Test("XOR", 1, 2, 3)
ShiftRightOut(n)    == Test("SRL", 1, 2, 0)
ShiftRightSigned(n) == Test("SRA", 1, 2, 0)
OrBits(n)           == Test("OR", 1, 2, 3)
AndBits(n)          == Test("AND", 1, 2, 0)

Blocks(n) ==
  <<AddTwice(n), AddOpposite(n), SubEqual(n), SubOpposite(n), ShiftByItself(n),
    LessThanPositive(n), LessUnsigned(n), XorBits(n), ShiftRightOut(n), ShiftRightSigned(n),
    OrBits(n), AndBits(n)>>

-----------------------------------------------------------------------------

Idle == Ports(0, 0, FALSE, 0, 0)

Init ==
  /\ driver \in {"test", "core"}
  /\ i = 0 /\ block = 1 /\ ports = Idle /\ verdict = "none"

\* One block: drive the ports, eval, compare and print; then the next.
RunBlock ==
  /\ driver = "test" /\ i < MaxI
  /\ LET test == Blocks(i)[block]
     IN /\ ports' = test.ports
        /\ verdict' = IF rd_d' = test.expected THEN "pass" ELSE "fail"
  /\ IF block = 12 THEN block' = 1 /\ i' = i + 1 ELSE block' = block + 1 /\ i' = i
  /\ UNCHANGED driver

\* The core executes a register or an immediate operation.
Instruction ==
  /\ driver = "core"
  /\ \E f \in DOMAIN Funct, imm_t \in BOOLEAN, a, b \in Operand :
       /\ imm_t => f # "SUB"
       /\ ports' = Ports(Funct[f][1], Funct[f][2], imm_t, a, b)
  /\ UNCHANGED <<driver, i, block, verdict>>

Next == RunBlock \/ Instruction

Spec == Init /\ [][Next]_vars

-----------------------------------------------------------------------------
(* Properties                                                              *)

\* Two blocks say "fail" of a unit that is right: SUB of -i and i compares the
\* port with a size_t that is not cut to its width, and SLL expects 1 << 2
\* whatever i is.
Misjudges(b, n) == b = 5 \/ (b = 4 /\ n > 0)

\* The other blocks print "pass" of this unit for every i.
SoundBlocksPass ==
  [][RunBlock => (verdict' = "pass" \/ Misjudges(block, i))]_vars

\* The unit computes what the emulator does, for operands of either sign, shift
\* amounts beyond the width included: a difference in the testbench's comparison
\* is never the arithmetic's.
AgreesWithGolden ==
  \A f \in DOMAIN Funct :
    Selects(ports.func7, ports.func3, ports.imm_t, f) =>
      rd_d = Alu(f, ports.ra_d, ports.rb_d)

\* The emulator's verdict on a branch: what its table's row computes and how
\* op_unified uses the result.
GoldenTaken(name, a, b) ==
  LET row == Opcodes[name]
      res == Alu(row.alu_mode, a, b)
  IN IF row.pc_mode = "COND_JUMP" THEN res # 0 ELSE res = 0

\* The branch unit, which sees the same operands and funct3, takes the branches
\* that the emulator takes.
BranchesAgree ==
  \A name \in DOMAIN BranchFunct :
    ports.func3 = BranchFunct[name] =>
      (Branch(ports.func3, ports.ra_d, ports.rb_d) <=> GoldenTaken(name, ports.ra_d, ports.rb_d))
=============================================================================
