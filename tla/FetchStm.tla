------------------------------ MODULE FetchStm ------------------------------
(***************************************************************************)
(* The instruction fetch state machine (fetch_stm.sv): it reads the word   *)
(* at PC over the instruction bus, holds it in IR for as long as the       *)
(* control unit executes it, then jumps or increments.                     *)
(*                                                                         *)
(* All of it is clocked by the rising edge.  The parameters of the actions *)
(* are the module's inputs, sampled at that edge.  CYC and STB are always  *)
(* assigned together: inst_CYC stands for both.  WE and DAT_O are constant *)
(* zeros.                                                                  *)
(***************************************************************************)
EXTENDS CorePkg

VARIABLES
  PC, IR,
  fetch_state,   \* READ, EXEC or INC
  inst_CYC,      \* CYC and STB of the instruction bus
  inst_ADR

fetchVars == <<PC, IR, fetch_state, inst_CYC, inst_ADR>>

FetchState == {"READ", "EXEC", "INC"}

FetchTypeOK ==
  /\ PC \in Addr
  /\ IR \in Instr
  /\ fetch_state \in FetchState
  /\ inst_CYC \in BOOLEAN
  /\ inst_ADR \in Addr

\* After the first edge of the power-on reset; what rst leaves alone is zero.
FetchInit ==
  /\ PC = 0
  /\ IR = ZeroInstr
  /\ fetch_state = "READ"
  /\ inst_CYC = FALSE
  /\ inst_ADR = 0

\* The instruction in IR is in its execute cycle(s).
Execute == fetch_state = "EXEC"

-----------------------------------------------------------------------------

\* rst: the bus signals and IR are not reset.
FetchReset ==
  /\ PC' = 0
  /\ fetch_state' = "READ"
  /\ UNCHANGED <<IR, inst_CYC, inst_ADR>>

\* The control unit still works on the instruction.
FetchHold == UNCHANGED fetchVars

\* The instruction is done: go to the target, or increment in the next cycle.
FetchExec(jump, jump_target) ==
  /\ fetch_state = "EXEC"
  /\ PC' = IF jump THEN jump_target ELSE PC
  /\ fetch_state' = IF jump THEN "READ" ELSE "INC"
  /\ inst_CYC' = FALSE
  /\ inst_ADR' = PC'
  /\ UNCHANGED IR

FetchInc ==
  /\ fetch_state = "INC"
  /\ PC' = Plus(PC, 4)
  /\ fetch_state' = "READ"
  /\ inst_CYC' = FALSE
  /\ inst_ADR' = PC'
  /\ UNCHANGED IR

\* Mutant: the request is never raised.
FetchRequestDropped ==
  /\ fetch_state = "READ"
  /\ inst_CYC' = FALSE
  /\ inst_ADR' = PC
  /\ UNCHANGED <<PC, IR, fetch_state>>

\* Keep requesting the word at PC ...
FetchRequest ==
  /\ fetch_state = "READ"
  /\ inst_CYC' = TRUE
  /\ inst_ADR' = PC
  /\ UNCHANGED <<PC, IR, fetch_state>>

\* ... until it is acknowledged.
FetchTake(dat) ==
  /\ fetch_state = "READ"
  /\ IR' = dat
  /\ fetch_state' = "EXEC"
  /\ inst_CYC' = FALSE
  /\ inst_ADR' = PC
  /\ UNCHANGED PC

FetchPosedge(rst, busy, jump, jump_target, ACK, dat) ==
  \/ rst /\ FetchReset
  \/ ~rst /\ busy /\ FetchHold
  \/ ~rst /\ ~busy /\ FetchExec(jump, jump_target)
  \/ ~rst /\ ~busy /\ FetchInc
  \/ ~rst /\ ~busy /\ ACK /\ FetchTake(dat)
  \/ ~rst /\ ~busy /\ ~ACK /\ FetchRequest
=============================================================================
