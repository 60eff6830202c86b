-------------------------------- MODULE Isa --------------------------------
(***************************************************************************)
(* What the core promises its programs: a machine that executes one        *)
(* instruction per step, with a flat byte memory that loads and stores     *)
(* access atomically, and machine-mode traps that happen between           *)
(* instructions.  No clock, no bus, no handshake, no posted stores.        *)
(*                                                                         *)
(* One privilege mode, as README.md lists U and S mode as missing.         *)
(***************************************************************************)
EXTENDS CorePkg

VARIABLES
  program,   \* the code, one instruction per word; never written
  pc,
  mem,       \* byte memory
  x,         \* the register loads write
  csr        \* MIE, MPIE, MSIE, MTIE, MSIP, mtvec, mepc, mcause

isaVars == <<program, pc, mem, x, csr>>

Instruction == program[WordOf(pc)]

Init ==
  /\ program \in [WordIndex -> Instr]
  /\ pc = 0
  /\ mem \in [Addr -> Byte]
  /\ x = ZeroWord
  /\ csr = [MIE |-> FALSE, MPIE |-> FALSE, MSIE |-> FALSE, MTIE |-> FALSE,
            MSIP |-> FALSE, mtvec |-> 0, mepc |-> 0, mcause |-> 0]

Goto(target) == pc' = target
Advance == Goto(Plus(pc, 4))

-----------------------------------------------------------------------------

Compute ==
  /\ Instruction.op = "OP"
  /\ Advance
  /\ UNCHANGED <<mem, x, csr>>

Jump ==
  /\ Instruction.op \in {"JAL", "JARL", "BRANCH"}
  /\ Goto(Instruction.addr)
  /\ UNCHANGED <<mem, x, csr>>

BranchNotTaken ==
  /\ Instruction.op = "BRANCH"
  /\ Advance
  /\ UNCHANGED <<mem, x, csr>>

\* The bytes from the address on, whatever its alignment.
Load ==
  /\ Instruction.op = "LOAD"
  /\ x' = Extend(Instruction.funct3,
                 [i \in 0 .. 3 |-> mem[Plus(Instruction.addr, i)]])
  /\ Advance
  /\ UNCHANGED <<mem, csr>>

Store ==
  /\ Instruction.op = "STORE"
  /\ mem' = [a \in Addr |->
               LET i == (a - Instruction.addr) % AddrSize
               IN IF i < Size(Instruction.funct3) THEN Instruction.data[i] ELSE mem[a]]
  /\ Advance
  /\ UNCHANGED <<x, csr>>

\* A CSR write; the set and clear forms with a nonzero operand are not here.
WriteCsr ==
  /\ Instruction.op = "CSRRW"
  /\ Instruction.csr # "readonly"
  /\ LET v == Instruction.value
     IN csr' = CASE Instruction.csr = "mstatus" -> [csr EXCEPT !.MIE = v.b3, !.MPIE = v.b7]
                 [] Instruction.csr = "mie"     -> [csr EXCEPT !.MSIE = v.b3, !.MTIE = v.b7]
                 [] Instruction.csr = "mip"     -> [csr EXCEPT !.MSIP = v.b3]
                 [] Instruction.csr = "mtvec"   -> [csr EXCEPT !.mtvec = v.adr]
                 [] Instruction.csr = "mepc"    -> [csr EXCEPT !.mepc = v.adr]
                 [] Instruction.csr = "mcause"  -> [csr EXCEPT !.mcause = v.adr]
                 [] OTHER                       -> csr
  /\ Advance
  /\ UNCHANGED <<mem, x>>

Mret ==
  /\ Instruction.op = "MRET"
  /\ Goto(csr.mepc)
  /\ csr' = [csr EXCEPT !.MIE = csr.MPIE, !.MPIE = TRUE]
  /\ UNCHANGED <<mem, x>>

TrapTo(target, cause) ==
  /\ Goto(target)
  /\ csr' = [csr EXCEPT !.MPIE = csr.MIE, !.MIE = FALSE, !.mepc = pc, !.mcause = cause]
  /\ UNCHANGED <<mem, x>>

MtvecBase == csr.mtvec - Offset(csr.mtvec)

\* An exception: the instruction has no other effect.
Exception ==
  /\ Instruction.op \in {"ILLEGAL", "ENV", "PRIV"} \/ Instruction.csr = "readonly"
  /\ \E cause \in {2, 3, 11} : TrapTo(MtvecBase, cause)

\* An enabled interrupt, before the instruction at pc, software before timer.
\* The timer may be pending at any time.
Interrupt ==
  /\ csr.MIE
  /\ \E cause \in {3, 7} :
       /\ IF cause = 3 THEN csr.MSIE /\ csr.MSIP ELSE csr.MTIE /\ ~(csr.MSIE /\ csr.MSIP)
       /\ TrapTo(IF Offset(csr.mtvec) = 1 THEN Plus(MtvecBase, 4 * cause) ELSE MtvecBase,
                 cause)

Next ==
  /\ UNCHANGED program
  /\ \/ Compute
     \/ Jump
     \/ BranchNotTaken
     \/ Load
     \/ Store
     \/ WriteCsr
     \/ Mret
     \/ Exception
     \/ Interrupt

Spec == Init /\ [][Next]_isaVars
=============================================================================
