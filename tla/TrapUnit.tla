------------------------------ MODULE TrapUnit ------------------------------
(***************************************************************************)
(* The trap unit (trap_unit.sv): the privilege mode, the machine trap CSRs *)
(* the core's control flow depends on, the pending-interrupt lines and the *)
(* trap address.  CSRs nothing reads back into control (misa, mscratch,    *)
(* mtval, the delegation registers) are the CSR "other": a write to them   *)
(* changes nothing here.  Clocked by the rising edge.                      *)
(***************************************************************************)
EXTENDS CorePkg

VARIABLES
  CPM,       \* current privilege mode
  mstatus,   \* its fields MIE, MPIE, MPP
  mie,       \* its fields MSIE, MTIE
  MSIP,      \* mip[3], written by software
  mtvec, mepc, mcause

trapVars == <<CPM, mstatus, mie, MSIP, mtvec, mepc, mcause>>

TrapTypeOK ==
  /\ CPM \in Mode
  /\ mstatus \in [MIE : BOOLEAN, MPIE : BOOLEAN, MPP : Mode]
  /\ mie \in [MSIE : BOOLEAN, MTIE : BOOLEAN]
  /\ MSIP \in BOOLEAN
  /\ mtvec \in Addr
  /\ mepc \in Addr
  /\ mcause \in Nat

\* After the first edge of the power-on reset; what rst leaves alone is zero.
TrapInit ==
  /\ CPM = M_MODE
  /\ mstatus = [MIE |-> FALSE, MPIE |-> FALSE, MPP |-> 0]
  /\ mie = [MSIE |-> FALSE, MTIE |-> FALSE]
  /\ MSIP = FALSE
  /\ mtvec = 0
  /\ mepc = 0
  /\ mcause = 0

\* The bits of trap_int.ip that are set.  External interrupts are tied to 0.
PendingInterrupts(timer_irq) ==
  IF mstatus.MIE
  THEN (IF mie.MSIE /\ MSIP THEN {3} ELSE {}) \cup
       (IF mie.MTIE /\ timer_irq THEN {7} ELSE {})
  ELSE {}

VECTORED == 1

\* An interrupt goes to mtvec's base, or into the vector table; an exception
\* goes to mtvec as it stands, its mode bits included.
TrapAddress(interrupt, cause) ==
  LET base == mtvec - Offset(mtvec)
  IN IF ~interrupt THEN mtvec
     ELSE IF Offset(mtvec) = VECTORED THEN Plus(base, 4 * cause) ELSE base

-----------------------------------------------------------------------------

TrapReset ==
  /\ CPM' = M_MODE
  /\ mstatus' = [mstatus EXCEPT !.MIE = FALSE]
  /\ UNCHANGED <<mie, MSIP, mtvec, mepc, mcause>>

\* Mutant: the interrupt enable is not restored.
TrapReturnNoMIE ==
  /\ CPM' = mstatus.MPP
  /\ mstatus' = [mstatus EXCEPT !.MPIE = TRUE]
  /\ UNCHANGED <<mie, MSIP, mtvec, mepc, mcause>>

TrapReturn ==
  /\ CPM' = mstatus.MPP
  /\ mstatus' = [mstatus EXCEPT !.MIE = mstatus.MPIE, !.MPIE = TRUE]
  /\ UNCHANGED <<mie, MSIP, mtvec, mepc, mcause>>

\* CPM is saved but not raised.
TrapEnter(cause, pc) ==
  /\ mstatus' = [MIE |-> FALSE, MPIE |-> mstatus.MIE, MPP |-> CPM]
  /\ mcause' = cause
  /\ mepc' = pc
  /\ UNCHANGED <<CPM, mie, MSIP, mtvec>>

TrapWrite(csr, value) ==
  /\ mstatus' = IF csr = "mstatus"
                THEN [MIE |-> value.b3, MPIE |-> value.b7, MPP |-> value.mpp] ELSE mstatus
  /\ mie' = IF csr = "mie" THEN [MSIE |-> value.b3, MTIE |-> value.b7] ELSE mie
  /\ MSIP' = IF csr = "mip" THEN value.b3 ELSE MSIP
  /\ mtvec' = IF csr = "mtvec" THEN value.adr ELSE mtvec
  /\ mepc' = IF csr = "mepc" THEN value.adr ELSE mepc
  /\ mcause' = IF csr = "mcause" THEN value.adr ELSE mcause
  /\ UNCHANGED CPM

TrapPosedge(rst, trap_return, exeption, cause, pc, wr, csr, value) ==
  \/ rst /\ TrapReset
  \/ ~rst /\ trap_return /\ TrapReturn
  \/ ~rst /\ ~trap_return /\ exeption /\ TrapEnter(cause, pc)
  \/ ~rst /\ ~trap_return /\ ~exeption /\ wr /\ TrapWrite(csr, value)
  \/ ~rst /\ ~trap_return /\ ~exeption /\ ~wr /\ UNCHANGED trapVars
=============================================================================
