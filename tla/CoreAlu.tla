------------------------------ MODULE CoreAlu ------------------------------
(***************************************************************************)
(* The core's arithmetic unit (alu.sv) and branch unit (branch_unit.sv):   *)
(* combinational, so an operator each, from the input ports to the output. *)
(***************************************************************************)
EXTENDS EmuPkg

\* {func7, func3} of each operation; an immediate operation but srli and srai
\* takes any func7.
Funct ==
  [ADD |-> <<0, 0>>, SUB |-> <<32, 0>>, SLL |-> <<0, 1>>, SLT |-> <<0, 2>>, SLTU |-> <<0, 3>>,
   XOR |-> <<0, 4>>, SRL |-> <<0, 5>>, SRA |-> <<32, 5>>, OR |-> <<0, 6>>, AND |-> <<0, 7>>]

NeedsFunct7(imm_t, f) == ~imm_t \/ f = "SRL" \/ f = "SRA"

Selects(func7, func3, imm_t, f) ==
  /\ imm_t => f # "SUB"
  /\ Funct[f][2] = func3
  /\ NeedsFunct7(imm_t, f) => Funct[f][1] = func7

\* Mutant: slt compares like sltu.
OperateUnsigned(f, a, b) ==
  LET shamt == b % XLEN
  IN CASE f = "ADD"  -> Wrap(Signed(a) + Signed(b))
       [] f = "SUB"  -> Wrap(Signed(a) - Signed(b))
       [] f = "SLL"  -> Wrap(a * 2 ^ shamt)
       [] f = "SLT"  -> IF a < b THEN 1 ELSE 0
       [] f = "SLTU" -> IF a < b THEN 1 ELSE 0
       [] f = "XOR"  -> BitXor(a, b)
       [] f = "SRL"  -> a \div (2 ^ shamt)
       [] f = "SRA"  -> Wrap(Signed(a) \div (2 ^ shamt))
       [] f = "OR"   -> BitOr(a, b)
       [] f = "AND"  -> BitAnd(a, b)

Operate(f, a, b) ==
  LET shamt == b % XLEN
  IN CASE f = "ADD"  -> Wrap(Signed(a) + Signed(b))
       [] f = "SUB"  -> Wrap(Signed(a) - Signed(b))
       [] f = "SLL"  -> Wrap(a * 2 ^ shamt)
       [] f = "SLT"  -> IF Signed(a) < Signed(b) THEN 1 ELSE 0
       [] f = "SLTU" -> IF a < b THEN 1 ELSE 0
       [] f = "XOR"  -> BitXor(a, b)
       [] f = "SRL"  -> a \div (2 ^ shamt)
       [] f = "SRA"  -> Wrap(Signed(a) \div (2 ^ shamt))
       [] f = "OR"   -> BitOr(a, b)
       [] f = "AND"  -> BitAnd(a, b)

\* The default of both cases is zero.
Rd(func7, func3, imm_t, a, b) ==
  LET selected == {f \in DOMAIN Funct : Selects(func7, func3, imm_t, f)}
  IN IF selected = {} THEN 0 ELSE Operate(CHOOSE f \in selected : TRUE, a, b)

-----------------------------------------------------------------------------
(* branch_unit.sv, with enable.                                            *)

BranchFunct == [beq |-> 0, bne |-> 1, blt |-> 4, bge |-> 5, bltu |-> 6, bgeu |-> 7]

\* Mutant: bge is taken as bgt.
BranchStrict(funct3, a, b) ==
  CASE funct3 = 0 -> a = b
    [] funct3 = 1 -> a # b
    [] funct3 = 4 -> Signed(a) < Signed(b)
    [] funct3 = 5 -> Signed(a) > Signed(b)
    [] funct3 = 6 -> a < b
    [] funct3 = 7 -> a >= b
    [] OTHER      -> FALSE

Branch(funct3, a, b) ==
  CASE funct3 = 0 -> a = b
    [] funct3 = 1 -> a # b
    [] funct3 = 4 -> Signed(a) < Signed(b)
    [] funct3 = 5 -> Signed(a) >= Signed(b)
    [] funct3 = 6 -> a < b
    [] funct3 = 7 -> a >= b
    [] OTHER      -> FALSE
=============================================================================
