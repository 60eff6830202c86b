-------------------------------- MODULE Core --------------------------------
(***************************************************************************)
(* The core (core.sv) and its memory (ZeltaSoC.sv): the fetch unit, the    *)
(* control unit, the load/store unit, the trap unit, the arbiter and the   *)
(* RAM, composed over one clock.                                           *)
(*                                                                         *)
(* The two edges alternate.  At the rising edge every unit but the control *)
(* unit samples the values its inputs had before the edge, as the flip     *)
(* flops the design is synthesised to do; at the falling edge the control  *)
(* unit and the RAM array do.                                              *)
(*                                                                         *)
(* Code and data lie in different words of the RAM: program is the view of *)
(* the code words, ram of the data words, and both are read at addr_reg.   *)
(***************************************************************************)
EXTENDS FetchStm, ControlUnit, MemoryAccess, TrapUnit, WishboneRam

CONSTANTS
  Programs,      \* the programs considered
  InitialRam,    \* the data the RAM is loaded with
  ResetInputs,   \* the values the rst input may take after power-on
  TimerInputs    \* the values the timer_irq input may take

ASSUME ProgramsAssumption ==
  /\ Programs \subseteq [WordIndex -> Instr]
  /\ \A p \in Programs : \A w \in WordIndex :
       p[w].op = "STORE" => p[w].funct3 \in {"B", "H", "W"}
ASSUME InitialRamAssumption == InitialRam \in [WordIndex -> Word]
ASSUME InputsAssumption == ResetInputs \subseteq BOOLEAN /\ TimerInputs \subseteq BOOLEAN

VARIABLES
  clk,         \* the level after the last edge
  rst, timer_irq,
  program,
  regfile      \* the register loads write

inputVars == <<rst, timer_irq>>
vars == <<clk, inputVars, program, regfile,
          fetchVars, ctlVars, memVars, trapVars, ramVars>>

TypeOK ==
  /\ clk \in {"high", "low"}
  /\ rst \in BOOLEAN
  /\ timer_irq \in BOOLEAN
  /\ program \in Programs
  /\ regfile \in Word
  /\ FetchTypeOK
  /\ CtlTypeOK
  /\ MemTypeOK
  /\ TrapTypeOK
  /\ RamTypeOK

\* After the first rising edge of the power-on reset.
Init ==
  /\ clk = "high"
  /\ rst = TRUE
  /\ timer_irq = FALSE
  /\ program \in Programs
  /\ regfile = ZeroWord
  /\ FetchInit
  /\ CtlInit
  /\ MemInit
  /\ TrapInit
  /\ RamInit(InitialRam)

-----------------------------------------------------------------------------
(* The wires of core.sv.                                                   *)

\* branch is the verdict of branch_unit.sv on the instruction's operands.
Jump(branch) == (ctl.enable_branch /\ branch) \/ ctl.jump \/ ctl.exeption

JumpTarget ==
  IF ctl.exeption THEN TrapAddress(ctl.interrupt, ctl.cause)
  ELSE IF ctl.jmp_target_src = "EPC" THEN mepc ELSE IR.addr

\* address_ld: rs1 plus the immediate of the instruction's format.
AddressLd == IF ctl.memory_operation = "MEM_NONE" THEN 0 ELSE IR.addr

FetchData == program[addr_reg]

\* The register file's write port; loads have a register of their own here.
RegfilePosedge ==
  regfile' = IF rst THEN ZeroWord
             ELSE IF ctl.regfile_wr /\ ctl.regfile_src = "LOAD_SRC" THEN LoadData
             ELSE regfile

Posedge ==
  /\ clk = "low" /\ clk' = "high"
  /\ \E branch \in BOOLEAN :
       FetchPosedge(rst, ctl.busy, Jump(branch), JumpTarget,
                    InstACK(data_CYC, inst_CYC), FetchData)
  /\ MemPosedge(rst, ctl.cyc, ctl.memory_operation, IR.funct3, AddressLd, IR.data,
                DataACK(data_CYC), ReadData)
  /\ TrapPosedge(rst, ctl.trap_return, ctl.exeption, ctl.cause, PC,
                 ctl.csr_wr, IR.csr, IR.value)
  /\ RamPosedge(rst, ArbCYC(data_CYC, inst_CYC))
  /\ RegfilePosedge
  /\ rst' \in ResetInputs
  /\ timer_irq' \in TimerInputs
  /\ UNCHANGED <<program, ctlVars>>

Negedge ==
  /\ clk = "high" /\ clk' = "low"
  /\ CtlNegedge(rst, Execute, PendingInterrupts(timer_irq), IR, mem_ack, data_valid, CPM)
  /\ RamNegedge(ArbADR(data_CYC, data_ADR, inst_ADR), ArbWE(data_CYC, data_WE), data_DAT_O)
  /\ UNCHANGED <<inputVars, program, regfile, fetchVars, memVars, trapVars>>

Next == Posedge \/ Negedge

Spec == Init /\ [][Next]_vars

\* The clock runs.
FairSpec == Spec /\ WF_vars(Next)

-----------------------------------------------------------------------------
(* Invariants.                                                             *)

\* The instruction being executed is the one at PC, whichever master the bus
\* acknowledged last, and also for the first fetch after a reset that hit a
\* fetch in progress (fetch_stm.sv resets PC and leaves CYC and ADR).
FetchedFromPC == Execute => IR = program[WordOf(PC)]

\* The registered acknowledge of ram_wb.sv can be set by one master's request
\* and reach the other through the arbiter.  When a unit samples it, the array
\* has nevertheless registered that unit's address, and a write has been done.
AckedRequestServed ==
  clk = "low" =>
    /\ InstACK(data_CYC, inst_CYC) => addr_reg = WordOf(inst_ADR)
    /\ DataACK(data_CYC) =>
         /\ addr_reg = WordOf(data_ADR)
         /\ data_WE => ram[addr_reg] = data_DAT_O

\* What the load/store unit has acknowledged is the request of the instruction
\* being executed, even when the unit was busy with a posted store before.
AcceptedIsCurrent ==
  mem_ack /\ Execute =>
    /\ IR.op \in {"LOAD", "STORE"}
    /\ address_reg = IR.addr
    /\ funct3_ff = IR.funct3
    /\ (data_bus_state \in StoreStates) = (IR.op = "STORE")

\* Between instructions the control unit is ready to send the next load
\* ("For next instructions", control_unit.sv:457).
LoadReady == ~Execute => load_state = "SEND_CMD"

\* A load writes its register with the data of its own access.
LoadTakesOwnData ==
  clk = "low" /\ ctl.regfile_wr /\ ctl.regfile_src = "LOAD_SRC" =>
    address_reg = IR.addr /\ funct3_ff = IR.funct3

-----------------------------------------------------------------------------
(* Steps.                                                                  *)

\* A word of RAM only changes while the load/store unit is in a write state, and
\* then it is a word of the accepted store: a WE left up by a reset, or by the
\* end of a write, never writes anything new, and no fetch address is written.
NoStrayWrites ==
  [][\A w \in WordIndex : ram'[w] # ram[w] =>
       /\ data_bus_state \in WriteStates
       /\ w \in {WordOf(address_reg), WordOf(Plus(address_reg, 4))}]_vars

-----------------------------------------------------------------------------
(* Liveness.                                                               *)

\* Every instruction leaves its execute cycles, and another one enters.
InstructionsComplete == []<>Execute /\ []<>~Execute

-----------------------------------------------------------------------------
(* The architecture.  An instruction counts as executed at the rising edge *)
(* that takes the fetch unit out of EXEC; PC is incremented one cycle      *)
(* later.  A posted store counts as done then, though the RAM still holds  *)
(* the old bytes.                                                          *)

ArchPC == IF fetch_state = "INC" THEN Plus(PC, 4) ELSE PC

StorePosted == data_bus_state \in StoreStates /\ ~mem_ack

ArchMem ==
  [a \in Addr |->
     LET i == (a - address_reg) % AddrSize
     IN IF StorePosted /\ i < Size(funct3_ff) THEN store_data_reg[i]
        ELSE ram[WordOf(a)][Offset(a)]]

ArchCsr ==
  [MIE |-> mstatus.MIE, MPIE |-> mstatus.MPIE, MSIE |-> mie.MSIE, MTIE |-> mie.MTIE,
   MSIP |-> MSIP, mtvec |-> mtvec, mepc |-> mepc, mcause |-> mcause]

Arch == INSTANCE Isa WITH pc <- ArchPC, mem <- ArchMem, x <- regfile, csr <- ArchCsr

\* The pipeline of handshakes executes the program one instruction at a time,
\* each exactly once, with loads that see every earlier store.
ImplementsIsa == Arch!Spec
=============================================================================
