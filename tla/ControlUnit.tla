----------------------------- MODULE ControlUnit -----------------------------
(***************************************************************************)
(* The control unit (control_unit.sv): it decodes the instruction the      *)
(* fetch unit holds, sequences loads and stores with the load/store unit,  *)
(* and takes interrupts.  Everything it drives is registered at the        *)
(* falling edge, between the rising edges that clock the other units.      *)
(*                                                                         *)
(* Its outputs are one record, ctl.  An output a case of the code does not *)
(* assign keeps its value.  Multiplexer selects that only choose operands  *)
(* of the ALU or mtval (sr2_src, imm_t, val_src, sel_rs1_d_rs1) and the    *)
(* event lines are left out; write_mode is CSR_WRITE after every falling   *)
(* edge (the SYSTEM cases set it, then line 692 sets it back) and is left  *)
(* out too.                                                                *)
(***************************************************************************)
EXTENDS CorePkg

VARIABLES ctl, load_state

ctlVars == <<ctl, load_state>>

Cause == Nat
Outputs ==
  [busy : BOOLEAN,                 \* the fetch unit must hold the instruction
   cyc : BOOLEAN,                  \* request to the load/store unit
   memory_operation : {"MEM_NONE", "LOAD_DATA", "STORE_DATA"},
   regfile_wr : BOOLEAN,
   regfile_src : {"RESULT", "PC_SRC", "LOAD_SRC", "CSR_SRC"},
   jmp_target_src : {"J_IMM", "B_IMM", "I_IMM", "EPC"},
   enable_branch : BOOLEAN,
   jump : BOOLEAN,
   csr_wr : BOOLEAN,
   exeption : BOOLEAN, interrupt : BOOLEAN, trap_return : BOOLEAN,
   cause : Cause]

CtlTypeOK == ctl \in Outputs /\ load_state \in {"SEND_CMD", "RECIEVE_DATA"}

\* What rst and every cycle that executes nothing drive.
Quiet ==
  [busy |-> FALSE, cyc |-> FALSE, memory_operation |-> "MEM_NONE",
   regfile_wr |-> FALSE, regfile_src |-> "RESULT", jmp_target_src |-> "J_IMM",
   enable_branch |-> FALSE, jump |-> FALSE, csr_wr |-> FALSE,
   exeption |-> FALSE, interrupt |-> FALSE, trap_return |-> FALSE, cause |-> 0]

CtlInit == ctl = Quiet /\ load_state = "SEND_CMD"

ILLEGAL_INS == 2

-----------------------------------------------------------------------------

CtlReset == ctl' = Quiet /\ load_state' = "SEND_CMD"

\* No instruction is in its execute cycle.
CtlIdle == ctl' = Quiet /\ UNCHANGED load_state

\* An interrupt is pending: abandon the instruction and trap.  External,
\* software, timer, in this order.  jump and load_state are left as they are.
TakeInterrupt(ip) ==
  /\ ctl' = [Quiet EXCEPT !.jump = ctl.jump, !.exeption = TRUE, !.interrupt = TRUE,
                          !.cause = IF 11 \in ip THEN 11 ELSE IF 3 \in ip THEN 3 ELSE 7]
  /\ UNCHANGED load_state

\* OP_IMM, OP, LUI, AUIPC
ExecOp(instr) ==
  /\ instr.op = "OP"
  /\ ctl' = [Quiet EXCEPT !.cyc = ctl.cyc, !.regfile_wr = TRUE]
  /\ UNCHANGED load_state

ExecJump(instr) ==
  /\ instr.op \in {"JAL", "JARL"}
  /\ ctl' = [Quiet EXCEPT !.cyc = ctl.cyc, !.regfile_wr = TRUE,
                          !.regfile_src = "PC_SRC", !.jump = TRUE,
                          !.jmp_target_src = IF instr.op = "JAL" THEN "J_IMM" ELSE "I_IMM"]
  /\ UNCHANGED load_state

ExecBranch(instr) ==
  /\ instr.op = "BRANCH"
  /\ ctl' = [Quiet EXCEPT !.cyc = ctl.cyc, !.regfile_src = "PC_SRC",
                          !.jmp_target_src = "B_IMM", !.enable_branch = TRUE]
  /\ UNCHANGED load_state

\* Request until acknowledged; then the store is posted and the core goes on.
ExecStore(instr, ack) ==
  /\ instr.op = "STORE"
  /\ ctl' = [Quiet EXCEPT !.memory_operation = "STORE_DATA", !.cyc = ~ack, !.busy = ~ack]
  /\ UNCHANGED load_state

LoadOutputs ==
  [Quiet EXCEPT !.memory_operation = "LOAD_DATA", !.regfile_src = "LOAD_SRC"]

\* Request until acknowledged ...
ExecLoadSend(instr, ack) ==
  /\ instr.op = "LOAD" /\ load_state = "SEND_CMD"
  /\ ctl' = [LoadOutputs EXCEPT !.busy = TRUE, !.cyc = ~ack, !.regfile_wr = ctl.regfile_wr]
  /\ load_state' = IF ack THEN "RECIEVE_DATA" ELSE "SEND_CMD"

\* Mutant: not ready for the next load.
ExecLoadNotRearmed(instr, data_valid) ==
  /\ instr.op = "LOAD" /\ load_state = "RECIEVE_DATA"
  /\ ctl' = [LoadOutputs EXCEPT !.busy = ~data_valid, !.cyc = ctl.cyc,
                                !.regfile_wr = data_valid]
  /\ UNCHANGED load_state

\* ... then wait for the data, and write the register.
ExecLoadReceive(instr, data_valid) ==
  /\ instr.op = "LOAD" /\ load_state = "RECIEVE_DATA"
  /\ ctl' = [LoadOutputs EXCEPT !.busy = ~data_valid, !.cyc = ctl.cyc,
                                !.regfile_wr = data_valid]
  /\ load_state' = IF data_valid THEN "SEND_CMD" ELSE "RECIEVE_DATA"

\* Every SYSTEM instruction ends with these assignments (lines 692-706), which
\* take back the exception a case above them may have raised.
System(outputs) ==
  /\ ctl' = [outputs EXCEPT !.cause = 0, !.exeption = FALSE, !.interrupt = FALSE,
                            !.enable_branch = FALSE, !.cyc = FALSE,
                            !.memory_operation = "MEM_NONE", !.busy = FALSE]
  /\ UNCHANGED load_state

PrivOutputs(outputs) == [outputs EXCEPT !.csr_wr = FALSE, !.regfile_src = "CSR_SRC"]

ExecMret(instr) ==
  /\ instr.op = "MRET"
  /\ System(PrivOutputs([ctl EXCEPT !.trap_return = TRUE, !.jump = TRUE,
                                    !.jmp_target_src = "EPC"]))

\* ECALL and EBREAK have funct7 = 0 and match the case of URET.
ExecEnv(instr) ==
  /\ instr.op = "ENV"
  /\ System(PrivOutputs([ctl EXCEPT !.trap_return = FALSE, !.jump = FALSE,
                                    !.jmp_target_src = "EPC",
                                    !.cause = ILLEGAL_INS, !.exeption = TRUE]))

ExecPriv(instr) ==
  /\ instr.op = "PRIV"
  /\ System(PrivOutputs([ctl EXCEPT !.cause = ILLEGAL_INS, !.exeption = TRUE]))

\* Access decoder: read-only CSRs are never written, nor is any CSR by an
\* instruction whose rs1 field is zero.
csr_write(instr) == instr.csr # "readonly" /\ instr.rs1 # 0

\* The CSRs modelled here need machine mode (address bits 9:8 are 3).
CsrIllegal(instr, cpm) ==
  \/ cpm < M_MODE
  \/ instr.op = "CSRRW" /\ instr.csr = "readonly"

ExecCsr(instr, cpm) ==
  /\ instr.op \in {"CSRRW", "CSRRS"}
  /\ System(IF CsrIllegal(instr, cpm)
            THEN [ctl EXCEPT !.exeption = TRUE, !.cause = ILLEGAL_INS,
                             !.regfile_src = "CSR_SRC", !.trap_return = FALSE]
            ELSE [ctl EXCEPT !.csr_wr = @ \/ csr_write(instr), !.regfile_wr = TRUE,
                             !.regfile_src = "CSR_SRC", !.trap_return = FALSE])

ExecIllegal(instr) ==
  /\ instr.op = "ILLEGAL"
  /\ ctl' = [Quiet EXCEPT !.csr_wr = TRUE, !.exeption = TRUE, !.cause = ILLEGAL_INS]
  /\ UNCHANGED load_state

CtlExec(instr, ack, data_valid, cpm) ==
  \/ ExecOp(instr)
  \/ ExecJump(instr)
  \/ ExecBranch(instr)
  \/ ExecStore(instr, ack)
  \/ ExecLoadSend(instr, ack)
  \/ ExecLoadReceive(instr, data_valid)
  \/ ExecMret(instr)
  \/ ExecEnv(instr)
  \/ ExecPriv(instr)
  \/ ExecCsr(instr, cpm)
  \/ ExecIllegal(instr)

\* ip: the interrupts that are pending and enabled.
CtlNegedge(rst, execute, ip, instr, ack, data_valid, cpm) ==
  \/ rst /\ CtlReset
  \/ ~rst /\ ~execute /\ CtlIdle
  \/ ~rst /\ execute /\ ip # {} /\ TakeInterrupt(ip)
  \/ ~rst /\ execute /\ ip = {} /\ CtlExec(instr, ack, data_valid, cpm)
=============================================================================
