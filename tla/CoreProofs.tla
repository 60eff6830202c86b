----------------------------- MODULE CoreProofs -----------------------------
(***************************************************************************)
(* Proofs about Core, for any RAM size, any programs, and any sequence of  *)
(* resets and timer interrupts.                                            *)
(***************************************************************************)
EXTENDS Core, TLAPS


-----------------------------------------------------------------------------
(* The data: what the operators of CorePkg and the datapath return.        *)

\* Addresses are natural numbers.
LEMMA AddrIsNat == Addr \subseteq Nat
  BY NWordsAssumption DEF Addr, AddrSize

\* Sums of addresses wrap into the address space.
LEMMA PlusType == \A a \in Addr, k \in Int : Plus(a, k) \in Addr
<1>1. AddrSize \in Nat \ {0}
  BY NWordsAssumption DEF AddrSize
<1>2. \A n \in Int, m \in Nat \ {0} : n % m \in 0 .. m - 1
  OBVIOUS
<1>3. QED
  BY <1>1, <1>2, AddrIsNat DEF Plus, Addr

\* An address is a word of the RAM and an offset in it.
LEMMA AddrParts == \A a \in Addr : WordOf(a) \in WordIndex /\ Offset(a) \in 0 .. 3
  BY NWordsAssumption DEF Addr, AddrSize, WordOf, WordIndex, Offset

\* An access is one, two or four bytes long.
LEMMA SizeType == \A f \in Funct3 : Size(f) \in {1, 2, 4}
  BY DEF Funct3, Size

\* The values after the power-on reset are well typed.
LEMMA ZeroTypes == ZeroWord \in Word /\ ZeroInstr \in Instr /\ 0 \in Addr
<1>1. ZeroWord \in Word
  BY ByteAssumption DEF ZeroWord, Word
<1>2. 0 \in Addr
  BY NWordsAssumption DEF Addr, AddrSize
<1>3. ZeroCsr \in CsrWord
  BY <1>2 DEF ZeroCsr, CsrWord, Mode
<1>4. ZeroInstr \in Instr
  BY <1>1, <1>2, <1>3 DEF ZeroInstr, Instr, Op, Funct3, Csr
<1>5. QED
  BY <1>1, <1>2, <1>4

\* Sign and zero extension of loaded bytes make a word.
LEMMA ExtendType ==
  ASSUME NEW f \in Funct3, NEW bytes \in Word
  PROVE  Extend(f, bytes) \in Word
<1>1. Size(f) \in {1, 2, 4}
  BY SizeType
<1>2. \A i \in 0 .. 3 : bytes[i] \in Byte
  BY DEF Word
<1>3. {0, 255} \subseteq Byte
  BY ByteAssumption
<1>4. QED
  BY <1>1, <1>2, <1>3 DEF Extend, Word

\* The words a store writes back are words.
LEMMA WindowType ==
  ASSUME MemTypeOK
  PROVE  \A i \in 0 .. 7 : Window[i] \in Byte /\ ModifiedWindow[i] \in Byte
<1>1. \A i \in 0 .. 7 : Window[i] \in Byte
  BY DEF MemTypeOK, Window, Word
<1>2. Offset(address_reg) \in 0 .. 3 /\ Size(funct3_ff) \in {1, 2, 4}
  BY AddrParts, SizeType DEF MemTypeOK
<1>3. \A i \in 0 .. 3 : store_data_reg[i] \in Byte
  BY DEF MemTypeOK, Word
<1>4. ASSUME NEW i \in 0 .. 7
      PROVE  ModifiedWindow[i] \in Byte
  <2>1. CASE i \in Offset(address_reg) .. Offset(address_reg) + Size(funct3_ff) - 1
    <3>1. i - Offset(address_reg) \in 0 .. 3
      BY <1>2, <2>1
    <3>2. QED
      BY <1>3, <2>1, <3>1 DEF ModifiedWindow
  <2>2. CASE i \notin Offset(address_reg) .. Offset(address_reg) + Size(funct3_ff) - 1
    BY <1>1, <2>2 DEF ModifiedWindow
  <2>3. QED
    BY <2>1, <2>2
<1>5. QED
  BY <1>1, <1>4

\* What the datapath computes for an instruction is well typed.
LEMMA DatapathType ==
  ASSUME MemTypeOK
  PROVE  new_data_1 \in Word /\ new_data_2 \in Word /\ LoadData \in Word
<1>1. new_data_1 \in Word /\ new_data_2 \in Word
  BY WindowType DEF new_data_1, new_data_2, Word
<1>2. Offset(address_reg) \in 0 .. 3 /\ funct3_ff \in Funct3
  BY AddrParts DEF MemTypeOK
<1>3. [i \in 0 .. 3 |-> Window[Offset(address_reg) + i]] \in Word
  BY <1>2, WindowType DEF Word
<1>4. LoadData \in Word
  BY <1>2, <1>3, ExtendType DEF LoadData
<1>5. QED
  BY <1>1, <1>4

-----------------------------------------------------------------------------
(* Type correctness: one lemma per unit, then the composition.             *)

\* The fetch unit keeps its types.
LEMMA FetchTyped ==
  ASSUME FetchTypeOK,
         NEW r \in BOOLEAN, NEW busy \in BOOLEAN, NEW jump \in BOOLEAN,
         NEW target \in Addr, NEW ACK \in BOOLEAN, NEW dat \in Instr,
         FetchPosedge(r, busy, jump, target, ACK, dat)
  PROVE  FetchTypeOK'
<1>1. Plus(PC, 4) \in Addr /\ 0 \in Addr
  BY PlusType, ZeroTypes DEF FetchTypeOK
<1>2. CASE r /\ FetchReset
  BY <1>1, <1>2 DEF FetchTypeOK, FetchReset, FetchState
<1>3. CASE FetchHold
  BY <1>3 DEF FetchTypeOK, FetchHold, fetchVars
<1>4. CASE FetchExec(jump, target)
  BY <1>4 DEF FetchTypeOK, FetchExec, FetchState
<1>5. CASE FetchInc
  BY <1>1, <1>5 DEF FetchTypeOK, FetchInc, FetchState
<1>6. CASE FetchTake(dat)
  BY <1>6 DEF FetchTypeOK, FetchTake, FetchState
<1>7. CASE FetchRequest
  BY <1>7 DEF FetchTypeOK, FetchRequest, FetchState
<1>8. QED
  BY <1>2, <1>3, <1>4, <1>5, <1>6, <1>7 DEF FetchPosedge

\* The trap unit keeps its types.
LEMMA TrapTyped ==
  ASSUME TrapTypeOK,
         NEW r \in BOOLEAN, NEW ret \in BOOLEAN, NEW exc \in BOOLEAN, NEW cause \in Nat,
         NEW pc \in Addr, NEW wr \in BOOLEAN, NEW csr \in Csr, NEW value \in CsrWord,
         TrapPosedge(r, ret, exc, cause, pc, wr, csr, value)
  PROVE  TrapTypeOK'
<1> USE DEF TrapTypeOK
<1>1. CASE TrapReset
  <2>1. M_MODE \in Mode
    BY DEF Mode, M_MODE
  <2>2. QED
    BY <1>1, <2>1 DEF TrapReset
<1>2. CASE TrapReturn
  BY <1>2 DEF TrapReturn
<1>3. CASE TrapEnter(cause, pc)
  BY <1>3 DEF TrapEnter
<1>4. CASE TrapWrite(csr, value)
  <2>1. /\ value.b3 \in BOOLEAN /\ value.b7 \in BOOLEAN
        /\ value.mpp \in Mode /\ value.adr \in Addr
    BY DEF CsrWord
  <2>2. value.adr \in Nat
    BY <2>1, AddrIsNat
  <2>3. QED
    BY <1>4, <2>1, <2>2 DEF TrapWrite
<1>5. CASE UNCHANGED trapVars
  BY <1>5 DEF trapVars
<1>6. QED
  BY <1>1, <1>2, <1>3, <1>4, <1>5 DEF TrapPosedge

\* The RAM keeps its types.
LEMMA RamTyped ==
  ASSUME RamTypeOK,
         NEW r \in BOOLEAN, NEW CYC \in BOOLEAN,
         NEW a \in Addr, NEW we \in BOOLEAN, NEW dat \in Word,
         RamPosedge(r, CYC) \/ RamNegedge(a, we, dat)
  PROVE  RamTypeOK'
<1>1. WordOf(a) \in WordIndex
  BY AddrParts
<1>2. CASE RamPosedge(r, CYC)
  BY <1>2 DEF RamTypeOK, RamPosedge
<1>3. CASE RamNegedge(a, we, dat)
  BY <1>1, <1>3 DEF RamTypeOK, RamNegedge
<1>4. QED
  BY <1>2, <1>3

\* The load/store unit keeps its types.
LEMMA MemTyped ==
  ASSUME MemTypeOK,
         NEW r \in BOOLEAN, NEW cyc \in BOOLEAN, NEW operation, NEW f \in Funct3,
         NEW a \in Addr, NEW st \in Word, NEW ACK \in BOOLEAN, NEW dat \in Word,
         MemPosedge(r, cyc, operation, f, a, st, ACK, dat)
  PROVE  MemTypeOK'
<1> USE DEF MemTypeOK, DataBusState, ReadStates, WriteStates
<1>1. AccessADR \in Addr /\ 0 \in Addr /\ ZeroWord \in Word
  BY PlusType, ZeroTypes DEF AccessADR
<1>2. new_data_1 \in Word /\ new_data_2 \in Word
  BY DatapathType
<1>3. CASE MemReset
  BY <1>1, <1>3 DEF MemReset
<1>4. CASE MemIdle
  BY <1>1, <1>4 DEF MemIdle, BusIdle, requestVars
<1>5. CASE MemAccept(operation, f, a, st)
  BY <1>1, <1>5 DEF MemAccept, LatchRequest, BusIdle, Unaligned
<1>6. CASE MemReadRequest
  BY <1>1, <1>6 DEF MemReadRequest, MemStep, BusDrive, requestVars
<1>7. CASE MemWriteRequest
  BY <1>1, <1>2, <1>7 DEF MemWriteRequest, MemStep, BusDrive, requestVars
<1>8. CASE MemReadFirst(dat)
  BY <1>1, <1>8 DEF MemReadFirst, MemStep, BusIdle, requestVars
<1>9. CASE MemReadSecond(dat)
  BY <1>1, <1>9 DEF MemReadSecond, MemStep, BusIdle, requestVars
<1>10. CASE MemWriteDone
  BY <1>1, <1>2, <1>10 DEF MemWriteDone, MemStep, BusIdle, requestVars
<1>11. QED
  BY <1>3, <1>4, <1>5, <1>6, <1>7, <1>8, <1>9, <1>10 DEF MemPosedge

\* Zenon rewrites the record updates; the numbers it cannot evaluate are here.
LEMMA CauseTyped == {0, 2, 3, 7, 11} \subseteq Cause /\ ILLEGAL_INS \in Cause
  BY DEF Cause, ILLEGAL_INS

\* The control unit's outputs when it asks for nothing.
LEMMA QuietTyped == Quiet \in Outputs
  BY CauseTyped DEF Quiet, Outputs

\* The control unit's outputs for a SYSTEM instruction.
LEMMA SystemTyped ==
  ASSUME CtlTypeOK, NEW o \in Outputs, System(o)
  PROVE  CtlTypeOK'
<1>1. 0 \in Cause
  BY CauseTyped
<1>2. QED
  BY <1>1, ZenonT(90) DEF CtlTypeOK, System, Outputs

\* The control unit's outputs after the assignments that end a SYSTEM instruction.
LEMMA PrivTyped == \A o \in Outputs : PrivOutputs(o) \in Outputs
  BY ZenonT(90) DEF PrivOutputs, Outputs

\* The control unit keeps its types.
LEMMA CtlTyped ==
  ASSUME CtlTypeOK,
         NEW r \in BOOLEAN, NEW execute \in BOOLEAN, NEW ip, NEW instr,
         NEW ack \in BOOLEAN, NEW valid \in BOOLEAN, NEW cpm,
         CtlNegedge(r, execute, ip, instr, ack, valid, cpm)
  PROVE  CtlTypeOK'
<1> USE DEF CtlTypeOK
<1> USE QuietTyped, CauseTyped
<1>1. CASE CtlReset
  BY <1>1 DEF CtlReset
<1>2. CASE CtlIdle
  BY <1>2 DEF CtlIdle
<1>3. CASE TakeInterrupt(ip)
  <2>1. (IF 11 \in ip THEN 11 ELSE IF 3 \in ip THEN 3 ELSE 7) \in Cause
    BY DEF Cause
  <2>2. QED
    BY <1>3, <2>1, ZenonT(90) DEF TakeInterrupt, Outputs
<1>4. CASE ExecOp(instr)
  BY <1>4, ZenonT(90) DEF ExecOp, Outputs
<1>5. CASE ExecJump(instr)
  BY <1>5, ZenonT(90) DEF ExecJump, Outputs
<1>6. CASE ExecBranch(instr)
  BY <1>6, ZenonT(90) DEF ExecBranch, Outputs
<1>7. CASE ExecStore(instr, ack)
  BY <1>7, ZenonT(90) DEF ExecStore, Outputs
<1>8. LoadOutputs \in Outputs
  BY ZenonT(90) DEF LoadOutputs, Outputs
<1>9. CASE ExecLoadSend(instr, ack)
  <2>1. ctl.regfile_wr \in BOOLEAN
    BY ZenonT(90) DEF Outputs
  <2>2. [LoadOutputs EXCEPT !.busy = TRUE, !.cyc = ~ack, !.regfile_wr = ctl.regfile_wr]
          \in Outputs
    BY <1>8, <2>1, ZenonT(90) DEF Outputs
  <2>3. QED
    BY <1>9, <2>2 DEF ExecLoadSend
<1>10. CASE ExecLoadReceive(instr, valid)
  <2>1. ctl.cyc \in BOOLEAN
    BY ZenonT(90) DEF Outputs
  <2>2. [LoadOutputs EXCEPT !.busy = ~valid, !.cyc = ctl.cyc, !.regfile_wr = valid]
          \in Outputs
    BY <1>8, <2>1, ZenonT(90) DEF Outputs
  <2>3. QED
    BY <1>10, <2>2 DEF ExecLoadReceive
<1>11. CASE ExecMret(instr)
  <2>1. [ctl EXCEPT !.trap_return = TRUE, !.jump = TRUE, !.jmp_target_src = "EPC"] \in Outputs
    BY ZenonT(90) DEF Outputs
  <2>2. QED
    BY <1>11, <2>1, PrivTyped, SystemTyped DEF ExecMret
<1>12. CASE ExecEnv(instr)
  <2>1. [ctl EXCEPT !.trap_return = FALSE, !.jump = FALSE, !.jmp_target_src = "EPC",
                    !.cause = ILLEGAL_INS, !.exeption = TRUE] \in Outputs
    BY ZenonT(90) DEF Outputs
  <2>2. QED
    BY <1>12, <2>1, PrivTyped, SystemTyped DEF ExecEnv
<1>13. CASE ExecPriv(instr)
  <2>1. [ctl EXCEPT !.cause = ILLEGAL_INS, !.exeption = TRUE] \in Outputs
    BY ZenonT(90) DEF Outputs
  <2>2. QED
    BY <1>13, <2>1, PrivTyped, SystemTyped DEF ExecPriv
<1>14. CASE ExecCsr(instr, cpm)
  <2>1. [ctl EXCEPT !.exeption = TRUE, !.cause = ILLEGAL_INS,
                    !.regfile_src = "CSR_SRC", !.trap_return = FALSE] \in Outputs
    BY ZenonT(90) DEF Outputs
  <2>2. [ctl EXCEPT !.csr_wr = @ \/ csr_write(instr), !.regfile_wr = TRUE,
                    !.regfile_src = "CSR_SRC", !.trap_return = FALSE] \in Outputs
    BY ZenonT(90) DEF Outputs, csr_write
  <2>3. QED
    BY <1>14, <2>1, <2>2, SystemTyped DEF ExecCsr
<1>15. CASE ExecIllegal(instr)
  BY <1>15, ZenonT(90) DEF ExecIllegal, Outputs
<1>16. QED
  BY <1>1, <1>2, <1>3, <1>4, <1>5, <1>6, <1>7, <1>9, <1>10, <1>11, <1>12, <1>13,
     <1>14, <1>15
  DEF CtlNegedge, CtlExec

\* The wires of core.sv carry values of the types the units expect.
LEMMA WiresTyped ==
  ASSUME TypeOK
  PROVE  /\ ctl.busy \in BOOLEAN /\ ctl.cyc \in BOOLEAN /\ ctl.jump \in BOOLEAN
         /\ ctl.enable_branch \in BOOLEAN /\ ctl.csr_wr \in BOOLEAN
         /\ ctl.exeption \in BOOLEAN /\ ctl.interrupt \in BOOLEAN
         /\ ctl.trap_return \in BOOLEAN /\ ctl.cause \in Nat
         /\ IR.addr \in Addr /\ IR.funct3 \in Funct3 /\ IR.data \in Word
         /\ IR.csr \in Csr /\ IR.value \in CsrWord
         /\ JumpTarget \in Addr /\ AddressLd \in Addr
         /\ FetchData \in Instr /\ ReadData \in Word
<1>1. /\ ctl.busy \in BOOLEAN /\ ctl.cyc \in BOOLEAN /\ ctl.jump \in BOOLEAN
      /\ ctl.enable_branch \in BOOLEAN /\ ctl.csr_wr \in BOOLEAN
      /\ ctl.exeption \in BOOLEAN /\ ctl.interrupt \in BOOLEAN
      /\ ctl.trap_return \in BOOLEAN /\ ctl.cause \in Nat
  BY DEF TypeOK, CtlTypeOK, Outputs, Cause
<1>2. /\ IR.addr \in Addr /\ IR.funct3 \in Funct3 /\ IR.data \in Word
      /\ IR.csr \in Csr /\ IR.value \in CsrWord
  BY DEF TypeOK, FetchTypeOK, Instr
<1>3. FetchData \in Instr /\ ReadData \in Word
  BY ProgramsAssumption DEF TypeOK, RamTypeOK, FetchData, ReadData
<1>4. AddressLd \in Addr
  BY <1>2, ZeroTypes DEF AddressLd
<1>5. mtvec - Offset(mtvec) \in Addr /\ mtvec \in Addr /\ mepc \in Addr
  BY NWordsAssumption DEF TypeOK, TrapTypeOK, Offset, Addr, AddrSize
<1>6. Plus(mtvec - Offset(mtvec), 4 * ctl.cause) \in Addr
  BY <1>1, <1>5, PlusType
<1>7. TrapAddress(ctl.interrupt, ctl.cause) \in Addr
  BY <1>5, <1>6 DEF TrapAddress
<1>8. JumpTarget \in Addr
  BY <1>2, <1>5, <1>7 DEF JumpTarget
<1>9. QED
  BY <1>1, <1>2, <1>3, <1>4, <1>8

\* Every state is well typed: addresses stay in range and wrap, the CSRs and the
\* handshake registers keep their types, over resets and interrupts.
THEOREM TypeCorrect == Spec => []TypeOK
<1>1. Init => TypeOK
  <2> SUFFICES ASSUME Init
               PROVE  TypeOK
    OBVIOUS
  <2>1. FetchTypeOK
    BY ZeroTypes DEF Init, FetchInit, FetchTypeOK, FetchState
  <2>2. CtlTypeOK
    BY QuietTyped DEF Init, CtlInit, CtlTypeOK
  <2>3. MemTypeOK
    BY ZeroTypes DEF Init, MemInit, MemTypeOK, DataBusState, Funct3
  <2>4. TrapTypeOK
    <3>1. 0 \in Mode /\ M_MODE \in Mode
      BY DEF Mode, M_MODE
    <3>2. QED
      BY <3>1, ZeroTypes DEF Init, TrapInit, TrapTypeOK
  <2>5. RamTypeOK
    <3>1. 0 \in WordIndex
      BY NWordsAssumption DEF WordIndex
    <3>2. QED
      BY <3>1, InitialRamAssumption DEF Init, RamInit, RamTypeOK
  <2>6. QED
    BY <2>1, <2>2, <2>3, <2>4, <2>5, ZeroTypes DEF Init, TypeOK
<1>2. TypeOK /\ [Next]_vars => TypeOK'
  <2> SUFFICES ASSUME TypeOK, [Next]_vars
               PROVE  TypeOK'
    OBVIOUS
  <2>1. CASE Posedge
    <3>1. PICK branch \in BOOLEAN :
            FetchPosedge(rst, ctl.busy, Jump(branch), JumpTarget,
                         InstACK(data_CYC, inst_CYC), FetchData)
      BY <2>1 DEF Posedge
    <3>2. Jump(branch) \in BOOLEAN /\ InstACK(data_CYC, inst_CYC) \in BOOLEAN
      BY DEF Jump, InstACK
    <3>3. FetchTypeOK'
      BY <3>1, <3>2, FetchTyped, WiresTyped DEF TypeOK
    <3>4. MemTypeOK'
      <4>1. DataACK(data_CYC) \in BOOLEAN
        BY DEF DataACK
      <4>2. MemPosedge(rst, ctl.cyc, ctl.memory_operation, IR.funct3, AddressLd, IR.data,
                       DataACK(data_CYC), ReadData)
        BY <2>1 DEF Posedge
      <4>3. QED
        BY <4>1, <4>2, MemTyped, WiresTyped DEF TypeOK
    <3>5. TrapTypeOK'
      <4>1. TrapPosedge(rst, ctl.trap_return, ctl.exeption, ctl.cause, PC,
                        ctl.csr_wr, IR.csr, IR.value)
        BY <2>1 DEF Posedge
      <4>2. TrapTypeOK /\ rst \in BOOLEAN /\ PC \in Addr
        BY DEF TypeOK, FetchTypeOK
      <4>3. /\ ctl.trap_return \in BOOLEAN /\ ctl.exeption \in BOOLEAN
            /\ ctl.cause \in Nat /\ ctl.csr_wr \in BOOLEAN
            /\ IR.csr \in Csr /\ IR.value \in CsrWord
        BY WiresTyped
      <4>4. QED
        BY <4>1, <4>2, <4>3, TrapTyped
    <3>6. RamTypeOK'
      BY <2>1 DEF Posedge, RamPosedge, TypeOK, RamTypeOK
    <3>7. regfile' \in Word
      BY <2>1, DatapathType, ZeroTypes DEF Posedge, RegfilePosedge, TypeOK
    <3>8. CtlTypeOK'
      BY <2>1 DEF Posedge, ctlVars, TypeOK, CtlTypeOK
    <3>9. /\ clk' \in {"high", "low"} /\ rst' \in BOOLEAN /\ timer_irq' \in BOOLEAN
          /\ program' \in Programs
      BY <2>1, InputsAssumption DEF Posedge, TypeOK
    <3>10. QED
      BY <3>3, <3>4, <3>5, <3>6, <3>7, <3>8, <3>9 DEF TypeOK
  <2>2. CASE Negedge
    <3>1. CtlTypeOK'
      <4>1. CtlNegedge(rst, Execute, PendingInterrupts(timer_irq), IR, mem_ack,
                       data_valid, CPM)
        BY <2>2 DEF Negedge
      <4>2. Execute \in BOOLEAN
        BY DEF Execute
      <4>3. QED
        BY <4>1, <4>2, CtlTyped DEF TypeOK, MemTypeOK
    <3>2. RamTypeOK'
      <4>1. RamNegedge(ArbADR(data_CYC, data_ADR, inst_ADR), ArbWE(data_CYC, data_WE),
                       data_DAT_O)
        BY <2>2 DEF Negedge
      <4>2. /\ ArbADR(data_CYC, data_ADR, inst_ADR) \in Addr
            /\ ArbWE(data_CYC, data_WE) \in BOOLEAN /\ data_DAT_O \in Word
        BY DEF TypeOK, MemTypeOK, FetchTypeOK, ArbADR, ArbWE
      <4>3. QED
        BY <4>1, <4>2, RamTyped DEF TypeOK
    <3>3. QED
      BY <2>2, <3>1, <3>2
      DEF Negedge, TypeOK, inputVars, fetchVars, FetchTypeOK, memVars, requestVars,
          MemTypeOK, trapVars, TrapTypeOK
  <2>3. CASE UNCHANGED vars
    BY <2>3
    DEF vars, TypeOK, inputVars, fetchVars, FetchTypeOK, memVars, requestVars, MemTypeOK,
        trapVars, TrapTypeOK, ctlVars, CtlTypeOK, ramVars, RamTypeOK
  <2>4. QED
    BY <2>1, <2>2, <2>3 DEF Next
<1>3. QED
  BY <1>1, <1>2, PTL DEF Spec

-----------------------------------------------------------------------------
(* The instruction fetch over the shared bus.                              *)

\* The inductive invariant.  Between the edges the array has registered the
\* address of the granted master and done its write; an acknowledge that can
\* reach the fetch unit in READ belongs to the word at PC, because a reset that
\* changes PC clears it; and only an executing instruction holds the fetch unit.
BusInv ==
  /\ clk = "low" =>
       /\ addr_reg = WordOf(ArbADR(data_CYC, data_ADR, inst_ADR))
       /\ ArbWE(data_CYC, data_WE) => ram[addr_reg] = data_DAT_O
       /\ ctl.busy => Execute
  /\ fetch_state = "READ" /\ inst_CYC /\ ack_s => inst_ADR = PC
  /\ FetchedFromPC

\* The bus invariant holds after the power-on reset.
LEMMA BusInvInit == Init => BusInv
  BY DEF Init, BusInv, FetchInit, RamInit, FetchedFromPC, Execute

\* A rising edge moves the masters and the grant, and keeps it.
LEMMA BusInvPosedge ==
  ASSUME BusInv, Posedge
  PROVE  BusInv'
<1>1. clk = "low" /\ clk' = "high" /\ program' = program /\ ack_s' = (~rst /\ ArbCYC(data_CYC, inst_CYC))
  BY DEF Posedge, RamPosedge
<1>2. PICK branch \in BOOLEAN :
        FetchPosedge(rst, ctl.busy, Jump(branch), JumpTarget,
                     InstACK(data_CYC, inst_CYC), FetchData)
  BY DEF Posedge
<1> DEFINE Goal == /\ fetch_state' = "READ" /\ inst_CYC' /\ ack_s' => inst_ADR' = PC'
                   /\ FetchedFromPC'
<1>3. CASE rst /\ FetchReset
  BY <1>1, <1>3 DEF FetchReset, BusInv, FetchedFromPC, Execute
<1>4. CASE ctl.busy /\ FetchHold
  BY <1>1, <1>4 DEF FetchHold, fetchVars, BusInv, FetchedFromPC, Execute
<1>5. CASE FetchExec(Jump(branch), JumpTarget)
  BY <1>1, <1>5 DEF FetchExec, BusInv, FetchedFromPC, Execute
<1>6. CASE FetchInc
  BY <1>1, <1>6 DEF FetchInc, BusInv, FetchedFromPC, Execute
<1>7. CASE InstACK(data_CYC, inst_CYC) /\ FetchTake(FetchData)
  <2>1. addr_reg = WordOf(inst_ADR) /\ inst_ADR = PC
    BY <1>1, <1>7 DEF BusInv, InstACK, ArbADR, FetchTake
  <2>2. QED
    BY <1>1, <1>7, <2>1 DEF FetchTake, FetchData, BusInv, FetchedFromPC, Execute
<1>8. CASE FetchRequest
  BY <1>1, <1>8 DEF FetchRequest, BusInv, FetchedFromPC, Execute
<1>9. QED
  BY <1>2, <1>3, <1>4, <1>5, <1>6, <1>7, <1>8 DEF FetchPosedge

\* Nothing but an executing instruction makes the control unit busy.
LEMMA BusyExecutes ==
  ASSUME NEW r, NEW execute \in BOOLEAN, NEW ip, NEW instr, NEW ack, NEW valid, NEW cpm,
         CtlNegedge(r, execute, ip, instr, ack, valid, cpm), ctl'.busy
  PROVE  execute
<1>1. ~Quiet.busy
  BY DEF Quiet
<1>2. QED
  BY <1>1 DEF CtlNegedge, CtlReset, CtlIdle

\* A falling edge serves the granted request, and keeps it.
LEMMA BusInvNegedge ==
  ASSUME TypeOK, BusInv, Negedge
  PROVE  BusInv'
<1> DEFINE ADR == ArbADR(data_CYC, data_ADR, inst_ADR)
<1>1. /\ RamNegedge(ADR, ArbWE(data_CYC, data_WE), data_DAT_O)
      /\ UNCHANGED <<program, PC, IR, fetch_state, inst_CYC, inst_ADR,
                     data_CYC, data_WE, data_ADR, data_DAT_O>>
  BY DEF Negedge, fetchVars, memVars
<1>2. ADR \in Addr /\ ram \in [WordIndex -> Word]
  BY DEF TypeOK, FetchTypeOK, MemTypeOK, RamTypeOK, ArbADR
<1>3. WordOf(ADR) \in WordIndex
  BY <1>2, AddrParts
<1>4. addr_reg' = WordOf(ADR) /\ ADR' = ADR
  BY <1>1 DEF RamNegedge, ArbADR
<1>5. ArbWE(data_CYC, data_WE)' => ram'[addr_reg'] = data_DAT_O'
  BY <1>1, <1>2, <1>3, <1>4 DEF RamNegedge, ArbWE
<1>6. ctl'.busy => Execute'
  <2>1. Execute' = Execute /\ Execute \in BOOLEAN
    BY <1>1 DEF Execute
  <2>2. QED
    BY <2>1, BusyExecutes DEF Negedge
<1>7. ack_s' = ack_s
  BY <1>1 DEF RamNegedge
<1>8. FetchedFromPC'
  BY <1>1 DEF BusInv, FetchedFromPC, Execute
<1>9. QED
  BY <1>1, <1>4, <1>5, <1>6, <1>7, <1>8 DEF BusInv

\* At every edge the arbiter, the array and the two masters agree on who is served.
THEOREM BusCorrect == Spec => []BusInv
<1>1. Init => BusInv
  BY BusInvInit
<1>2. TypeOK /\ BusInv /\ [Next]_vars => BusInv'
  <2>1. CASE UNCHANGED vars
    BY <2>1
    DEF vars, BusInv, fetchVars, memVars, ramVars, ctlVars, FetchedFromPC, Execute,
        ArbADR, ArbWE
  <2>2. QED
    BY <2>1, BusInvPosedge, BusInvNegedge DEF Next
<1>3. QED
  BY <1>1, <1>2, TypeCorrect, PTL DEF Spec

\* The instruction executed is the one at PC, however fetches, loads, stores and
\* resets interleave on the bus.
THEOREM FetchCorrect == Spec => []FetchedFromPC
<1>1. BusInv => FetchedFromPC
  BY DEF BusInv
<1>2. QED
  BY <1>1, BusCorrect, PTL

\* An acknowledge is never seen by a master the array has not served.
THEOREM AckCorrect == Spec => []AckedRequestServed
<1>1. BusInv => AckedRequestServed
  BY DEF BusInv, AckedRequestServed, InstACK, DataACK, ArbADR, ArbWE
<1>2. QED
  BY <1>1, BusCorrect, PTL

-----------------------------------------------------------------------------
(* The handshakes of loads and stores: between the control unit and the    *)
(* load/store unit, and between the load/store unit and the RAM.           *)

\* What the control unit requests.  While cyc is up the fetch unit is held on the
\* load or store it was raised for, and a load that has been acknowledged has
\* taken it down: so the instructions that leave cyc as it is find it down.
RequestInv ==
  /\ ctl.cyc => ctl.busy
  /\ ctl.cyc /\ Execute =>
       /\ IR.op \in {"LOAD", "STORE"}
       /\ ctl.memory_operation = IF IR.op = "STORE" THEN "STORE_DATA" ELSE "LOAD_DATA"
       /\ IR.op = "LOAD" => load_state = "SEND_CMD"

\* A write the bus still carries at the rising edge is one of the store's, or has
\* already been done.
WriteInv ==
  clk = "high" /\ data_CYC /\ data_WE =>
    \/ /\ data_bus_state \in WriteStates
       /\ data_ADR \in {address_reg, Plus(address_reg, 4)}
    \/ ram[WordOf(data_ADR)] = data_DAT_O

-----------------------------------------------------------------------------
(* What the cases of the control unit do to the signals of the handshake.  *)

\* The fields of the outputs that ask for nothing.
LEMMA QuietFields ==
  /\ ~Quiet.cyc /\ ~Quiet.busy /\ ~Quiet.regfile_wr
  /\ Quiet.regfile_src = "RESULT"
  BY DEF Quiet

\* Nothing is requested, though a cyc that is up may stay so.
Unrequested(r, execute, ip, instr) ==
  /\ ~ctl'.busy
  /\ ctl'.cyc => ctl.cyc /\ execute /\ instr.op \notin {"LOAD", "STORE"}
  /\ ctl'.regfile_src # "LOAD_SRC"
  /\ load_state' = IF r THEN "SEND_CMD" ELSE load_state
  /\ r \/ ~execute => ctl' = Quiet
  /\ ~r /\ execute /\ instr.op = "LOAD" => ip # {}

StoreRequested(ack) ==
  /\ ctl'.cyc = ~ack
  /\ ctl'.busy = ~ack
  /\ ctl'.memory_operation = "STORE_DATA"
  /\ ctl'.regfile_src # "LOAD_SRC"
  /\ load_state' = load_state

LoadRequested(ack) ==
  /\ load_state = "SEND_CMD"
  /\ load_state' = IF ack THEN "RECIEVE_DATA" ELSE "SEND_CMD"
  /\ ctl'.cyc = ~ack
  /\ ctl'.busy
  /\ ctl'.memory_operation = "LOAD_DATA"
  /\ ctl'.regfile_wr = ctl.regfile_wr

LoadAwaited(valid) ==
  /\ load_state = "RECIEVE_DATA"
  /\ load_state' = IF valid THEN "SEND_CMD" ELSE "RECIEVE_DATA"
  /\ ctl'.cyc = ctl.cyc
  /\ ctl'.busy = ~valid
  /\ ctl'.regfile_wr = valid

\* At a falling edge the control unit asks for nothing or is in one of three states of an access.
LEMMA HandshakeOutputs ==
  ASSUME NEW r \in BOOLEAN, NEW execute \in BOOLEAN, NEW ip, NEW instr,
         NEW ack \in BOOLEAN, NEW valid \in BOOLEAN, NEW cpm,
         CtlTypeOK, CtlNegedge(r, execute, ip, instr, ack, valid, cpm)
  PROVE  \/ Unrequested(r, execute, ip, instr)
         \/ ~r /\ execute /\ instr.op = "STORE" /\ StoreRequested(ack)
         \/ ~r /\ execute /\ instr.op = "LOAD" /\ LoadRequested(ack)
         \/ ~r /\ execute /\ instr.op = "LOAD" /\ LoadAwaited(valid)
<1>1. CASE r /\ CtlReset
  BY <1>1, QuietFields DEF CtlReset, Unrequested
<1>2. CASE ~r /\ ~execute /\ CtlIdle
  BY <1>2, QuietFields DEF CtlIdle, Unrequested
<1>3. CASE ~r /\ execute /\ ip # {} /\ TakeInterrupt(ip)
  BY <1>3, ZenonT(90) DEF TakeInterrupt, Unrequested, Quiet
<1>4. CASE ~r /\ execute /\ ExecStore(instr, ack)
  BY <1>4, ZenonT(90) DEF ExecStore, StoreRequested, Quiet
<1>5. CASE ~r /\ execute /\ ExecLoadSend(instr, ack)
  BY <1>5, ZenonT(90) DEF ExecLoadSend, LoadRequested, LoadOutputs, Quiet
<1>6. CASE ~r /\ execute /\ ExecLoadReceive(instr, valid)
  BY <1>6, ZenonT(90) DEF ExecLoadReceive, LoadAwaited, LoadOutputs, Quiet
<1>7. CASE ~r /\ execute /\ ExecOp(instr)
  BY <1>7, ZenonT(90) DEF ExecOp, Unrequested, Quiet
<1>8. CASE ~r /\ execute /\ ExecJump(instr)
  BY <1>8, ZenonT(90) DEF ExecJump, Unrequested, Quiet
<1>9. CASE ~r /\ execute /\ ExecBranch(instr)
  BY <1>9, ZenonT(90) DEF ExecBranch, Unrequested, Quiet
<1>10. CASE ~r /\ execute /\ ExecMret(instr)
  BY <1>10, ZenonT(90) DEF ExecMret, Unrequested, System, PrivOutputs, CtlTypeOK, Outputs
<1>11. CASE ~r /\ execute /\ ExecEnv(instr)
  BY <1>11, ZenonT(90) DEF ExecEnv, Unrequested, System, PrivOutputs, CtlTypeOK, Outputs
<1>12. CASE ~r /\ execute /\ ExecPriv(instr)
  BY <1>12, ZenonT(90) DEF ExecPriv, Unrequested, System, PrivOutputs, CtlTypeOK, Outputs
<1>13. CASE ~r /\ execute /\ ExecCsr(instr, cpm)
  BY <1>13, ZenonT(90) DEF ExecCsr, Unrequested, System, CtlTypeOK, Outputs
<1>14. CASE ~r /\ execute /\ ExecIllegal(instr)
  BY <1>14, ZenonT(90) DEF ExecIllegal, Unrequested, Quiet
<1>15. QED
  BY <1>1, <1>2, <1>3, <1>4, <1>5, <1>6, <1>7, <1>8, <1>9, <1>10, <1>11, <1>12, <1>13,
     <1>14
  DEF CtlNegedge, CtlExec

-----------------------------------------------------------------------------
(* Requests are those of the instruction being executed.                   *)

\* At a falling edge the control unit raises a request for the instruction being executed.
LEMMA RequestNegedge ==
  ASSUME TypeOK, RequestInv, AcceptedIsCurrent, Negedge
  PROVE  RequestInv' /\ AcceptedIsCurrent'
<1> DEFINE ip == PendingInterrupts(timer_irq)
<1>1. /\ Execute' = Execute /\ IR' = IR /\ mem_ack' = mem_ack
      /\ UNCHANGED <<address_reg, funct3_ff, data_bus_state>>
  BY DEF Negedge, fetchVars, memVars, requestVars, Execute
<1>2. Execute \in BOOLEAN /\ rst \in BOOLEAN /\ mem_ack \in BOOLEAN /\ data_valid \in BOOLEAN
  BY DEF Execute, TypeOK, MemTypeOK
<1>3. CtlTypeOK /\ CtlNegedge(rst, Execute, ip, IR, mem_ack, data_valid, CPM)
  BY DEF Negedge, TypeOK
<1>4. \/ Unrequested(rst, Execute, ip, IR)
      \/ ~rst /\ Execute /\ IR.op = "STORE" /\ StoreRequested(mem_ack)
      \/ ~rst /\ Execute /\ IR.op = "LOAD" /\ LoadRequested(mem_ack)
      \/ ~rst /\ Execute /\ IR.op = "LOAD" /\ LoadAwaited(data_valid)
  BY <1>2, <1>3, HandshakeOutputs
<1>5. RequestInv'
  <2>1. CASE Unrequested(rst, Execute, ip, IR)
    BY <1>1, <2>1 DEF Unrequested, RequestInv
  <2>2. CASE Execute /\ IR.op = "STORE" /\ StoreRequested(mem_ack)
    BY <1>1, <2>2 DEF StoreRequested, RequestInv
  <2>3. CASE Execute /\ IR.op = "LOAD" /\ LoadRequested(mem_ack)
    BY <1>1, <1>2, <2>3 DEF LoadRequested, RequestInv
  <2>4. CASE Execute /\ IR.op = "LOAD" /\ LoadAwaited(data_valid)
    BY <1>1, <2>4 DEF LoadAwaited, RequestInv
  <2>5. QED
    BY <1>4, <2>1, <2>2, <2>3, <2>4
<1>6. QED
  BY <1>1, <1>5 DEF AcceptedIsCurrent

\* While the control unit is busy the fetch unit holds the instruction, unless it is reset.
LEMMA HeldWhileBusy ==
  ASSUME BusInv, Posedge, ctl.busy
  PROVE  /\ Execute
         /\ rst => ~Execute'
         /\ ~rst => UNCHANGED <<IR, fetch_state>>
<1>1. Execute
  BY DEF Posedge, BusInv
<1>2. QED
  BY <1>1
  DEF Posedge, FetchPosedge, FetchReset, FetchHold, fetchVars, Execute

\* The load/store unit acknowledges only a request.
LEMMA AckedIsAccepted ==
  ASSUME Posedge, ~rst, mem_ack'
  PROVE  ctl.cyc /\ MemAccept(ctl.memory_operation, IR.funct3, AddressLd, IR.data)
  BY DEF Posedge, MemPosedge, MemIdle, MemReadRequest, MemWriteRequest, MemReadFirst,
         MemReadSecond, MemWriteDone, MemStep

\* At a rising edge the load/store unit accepts the request as it stands, or leaves it.
LEMMA RequestPosedge ==
  ASSUME TypeOK, BusInv, RequestInv, Posedge
  PROVE  RequestInv' /\ AcceptedIsCurrent'
<1>1. ctl' = ctl /\ load_state' = load_state
  BY DEF Posedge, ctlVars
<1>2. RequestInv'
  BY <1>1, HeldWhileBusy DEF RequestInv, Execute
<1>3. CASE rst
  BY <1>2, <1>3 DEF Posedge, FetchPosedge, FetchReset, AcceptedIsCurrent, Execute
<1>4. CASE ~rst /\ mem_ack'
  <2>1. ctl.cyc /\ MemAccept(ctl.memory_operation, IR.funct3, AddressLd, IR.data)
    BY <1>4, AckedIsAccepted
  <2>2. Execute /\ IR' = IR
    BY <1>4, <2>1, HeldWhileBusy DEF RequestInv
  <2>3. /\ IR.op \in {"LOAD", "STORE"}
        /\ ctl.memory_operation = IF IR.op = "STORE" THEN "STORE_DATA" ELSE "LOAD_DATA"
    BY <2>1, <2>2 DEF RequestInv
  <2>4. AddressLd = IR.addr
    BY <2>3 DEF AddressLd
  <2>5. QED
    BY <1>2, <2>1, <2>2, <2>3, <2>4
    DEF MemAccept, LatchRequest, AcceptedIsCurrent, StoreStates
<1>5. QED
  BY <1>2, <1>3, <1>4 DEF AcceptedIsCurrent

\* What the load/store unit acknowledges is the access of the instruction being
\* executed, whatever the unit was doing when it was requested.
THEOREM AcceptCorrect == Spec => [](RequestInv /\ AcceptedIsCurrent)
<1>1. Init => RequestInv /\ AcceptedIsCurrent
  BY QuietFields DEF Init, CtlInit, MemInit, FetchInit, RequestInv, AcceptedIsCurrent
<1>2. TypeOK /\ BusInv /\ RequestInv /\ AcceptedIsCurrent /\ [Next]_vars
        => RequestInv' /\ AcceptedIsCurrent'
  <2>1. CASE UNCHANGED vars
    BY <2>1
    DEF vars, RequestInv, AcceptedIsCurrent, Execute, fetchVars, ctlVars, memVars,
        requestVars
  <2>2. QED
    BY <2>1, RequestNegedge, RequestPosedge DEF Next
<1>3. QED
  BY <1>1, <1>2, TypeCorrect, BusCorrect, PTL DEF Spec

-----------------------------------------------------------------------------
(* The RAM is written by stores only.                                      *)

\* A falling edge changes only the words of the accepted store, in the write states.
LEMMA WriteNegedge ==
  ASSUME TypeOK, WriteInv, Negedge
  PROVE  /\ WriteInv'
         /\ \A w \in WordIndex : ram'[w] # ram[w] =>
              /\ data_bus_state \in WriteStates
              /\ w \in {WordOf(address_reg), WordOf(Plus(address_reg, 4))}
<1>1. clk = "high" /\ clk' = "low" /\ ram \in [WordIndex -> Word]
  BY DEF Negedge, TypeOK, RamTypeOK
<1>2. WriteInv'
  BY <1>1 DEF WriteInv
<1>3. ram' = IF ArbWE(data_CYC, data_WE)
             THEN [ram EXCEPT ![WordOf(ArbADR(data_CYC, data_ADR, inst_ADR))] = data_DAT_O]
             ELSE ram
  BY DEF Negedge, RamNegedge
<1>4. SUFFICES ASSUME NEW w \in WordIndex, ram'[w] # ram[w]
               PROVE  /\ data_bus_state \in WriteStates
                      /\ w \in {WordOf(address_reg), WordOf(Plus(address_reg, 4))}
  BY <1>2
<1>5. /\ data_CYC /\ data_WE
      /\ w = WordOf(data_ADR) /\ ram[w] # data_DAT_O
  BY <1>1, <1>3, <1>4 DEF ArbWE, ArbADR
<1>6. QED
  BY <1>1, <1>5 DEF WriteInv

\* A rising edge does not change the array, and asks for no other writes than those.
LEMMA WritePosedge ==
  ASSUME BusInv, Posedge
  PROVE  WriteInv' /\ ram' = ram
<1>1. ram' = ram /\ clk = "low"
  BY DEF Posedge, RamPosedge
<1>2. CASE rst
  <2>1. UNCHANGED <<data_CYC, data_WE, data_ADR, data_DAT_O>>
    BY <1>2 DEF Posedge, MemPosedge, MemReset
  <2>2. data_CYC /\ data_WE => ram[WordOf(data_ADR)] = data_DAT_O
    BY <1>1 DEF BusInv, ArbADR, ArbWE
  <2>3. QED
    BY <1>1, <2>1, <2>2 DEF WriteInv
<1>3. CASE ~rst /\ MemWriteRequest
  BY <1>1, <1>3
  DEF WriteInv, MemWriteRequest, MemStep, AccessADR, requestVars
<1>4. CASE ~rst /\ ~MemWriteRequest
  <2>1. ~data_WE'
    BY <1>4
    DEF Posedge, MemPosedge, MemIdle, MemAccept, MemReadRequest, MemReadFirst,
        MemReadSecond, MemWriteDone, BusIdle, BusDrive
  <2>2. QED
    BY <1>1, <2>1 DEF WriteInv
<1>5. QED
  BY <1>2, <1>3, <1>4

\* A write left on the bus, by a reset or at the end of a store, changes nothing.
THEOREM WritesCorrect == Spec => NoStrayWrites
<1>1. Init => WriteInv
  BY DEF Init, MemInit, WriteInv
<1>2. TypeOK /\ BusInv /\ WriteInv /\ [Next]_vars =>
        /\ WriteInv'
        /\ \A w \in WordIndex : ram'[w] # ram[w] =>
             /\ data_bus_state \in WriteStates
             /\ w \in {WordOf(address_reg), WordOf(Plus(address_reg, 4))}
  <2>1. CASE UNCHANGED vars
    BY <2>1 DEF vars, WriteInv, memVars, requestVars, ramVars
  <2>2. QED
    BY <2>1, WriteNegedge, WritePosedge DEF Next
<1>3. QED
  BY <1>1, <1>2, TypeCorrect, BusCorrect, PTL DEF Spec, NoStrayWrites

-----------------------------------------------------------------------------
(* Loads that no interrupt abandons once they are accepted.                *)

\* No interrupt is taken at a falling edge at which the control unit waits for the
\* data of a load that the load/store unit has accepted.
LoadUninterrupted ==
  clk = "high" /\ load_state = "RECIEVE_DATA" => PendingInterrupts(timer_irq) = {}

\* The control unit waits for data only while the load that sent the request
\* executes and the load/store unit holds that request.  A load enters its
\* execute cycles with the write enable down, and keeps it down until its data
\* is there.
LoadInv ==
  /\ load_state = "RECIEVE_DATA" =>
       /\ Execute /\ IR.op = "LOAD" /\ ctl.busy
       /\ address_reg = IR.addr /\ funct3_ff = IR.funct3
  /\ clk = "low" /\ rst => load_state # "RECIEVE_DATA"
  /\ clk = "low" /\ ~Execute => ctl = Quiet
  /\ /\ Execute /\ IR.op = "LOAD" /\ load_state = "SEND_CMD"
     /\ clk = "high" \/ ctl.busy
     => ~ctl.regfile_wr
  /\ LoadTakesOwnData

\* A falling edge takes a load from request to answer without skipping a state.
LEMMA LoadNegedge ==
  ASSUME TypeOK, AcceptedIsCurrent, LoadUninterrupted, LoadInv, Negedge
  PROVE  LoadInv'
<1> DEFINE ip == PendingInterrupts(timer_irq)
<1>1. /\ clk = "high" /\ clk' = "low"
      /\ UNCHANGED <<rst, IR, mem_ack, address_reg, funct3_ff>>
      /\ Execute' = Execute
  BY DEF Negedge, inputVars, fetchVars, memVars, requestVars, Execute
<1>2. /\ Execute \in BOOLEAN /\ rst \in BOOLEAN /\ mem_ack \in BOOLEAN
      /\ data_valid \in BOOLEAN /\ load_state \in {"SEND_CMD", "RECIEVE_DATA"}
  BY DEF Execute, TypeOK, MemTypeOK, CtlTypeOK
<1>3. CtlTypeOK /\ CtlNegedge(rst, Execute, ip, IR, mem_ack, data_valid, CPM)
  BY DEF Negedge, TypeOK
<1>4. \/ Unrequested(rst, Execute, ip, IR)
      \/ ~rst /\ Execute /\ IR.op = "STORE" /\ StoreRequested(mem_ack)
      \/ ~rst /\ Execute /\ IR.op = "LOAD" /\ LoadRequested(mem_ack)
      \/ ~rst /\ Execute /\ IR.op = "LOAD" /\ LoadAwaited(data_valid)
  BY <1>2, <1>3, HandshakeOutputs
<1>5. CASE Unrequested(rst, Execute, ip, IR)
  <2>1. load_state = "RECIEVE_DATA" => ip = {}
    BY <1>1 DEF LoadUninterrupted
  <2>2. load_state' # "RECIEVE_DATA"
    BY <1>5, <2>1 DEF Unrequested, LoadInv
  <2>3. QED
    BY <1>1, <1>2, <1>5, <2>2 DEF Unrequested, LoadInv, LoadTakesOwnData
<1>6. CASE ~rst /\ Execute /\ IR.op = "STORE" /\ StoreRequested(mem_ack)
  BY <1>1, <1>6 DEF StoreRequested, LoadInv, LoadTakesOwnData
<1>7. CASE ~rst /\ Execute /\ IR.op = "LOAD" /\ LoadRequested(mem_ack)
  <2>1. mem_ack => address_reg = IR.addr /\ funct3_ff = IR.funct3
    BY <1>7 DEF AcceptedIsCurrent
  <2>2. ~ctl'.regfile_wr
    BY <1>1, <1>7 DEF LoadRequested, LoadInv
  <2>3. QED
    BY <1>1, <1>7, <2>1, <2>2 DEF LoadRequested, LoadInv, LoadTakesOwnData
<1>8. CASE ~rst /\ Execute /\ IR.op = "LOAD" /\ LoadAwaited(data_valid)
  BY <1>1, <1>2, <1>8 DEF LoadAwaited, LoadInv, LoadTakesOwnData
<1>9. QED
  BY <1>4, <1>5, <1>6, <1>7, <1>8

\* A rising edge answers the load that is waited for.
LEMMA LoadPosedge ==
  ASSUME TypeOK, BusInv, RequestInv, LoadInv, Posedge
  PROVE  LoadInv'
<1>1. clk = "low" /\ clk' = "high" /\ ctl' = ctl /\ load_state' = load_state
  BY DEF Posedge, ctlVars
<1>2. CASE load_state = "RECIEVE_DATA"
  <2>1. ~rst /\ Execute /\ IR.op = "LOAD" /\ ctl.busy /\ ~ctl.cyc
    BY <1>1, <1>2 DEF LoadInv, RequestInv
  <2>2. Execute' /\ IR' = IR
    BY <2>1, HeldWhileBusy DEF Execute
  <2>3. UNCHANGED <<address_reg, funct3_ff>>
    BY <2>1
    DEF Posedge, MemPosedge, MemIdle, MemReadRequest, MemWriteRequest, MemReadFirst,
        MemReadSecond, MemWriteDone, MemStep, requestVars
  <2>4. QED
    BY <1>1, <1>2, <2>1, <2>2, <2>3 DEF LoadInv, LoadTakesOwnData
<1>3. CASE load_state # "RECIEVE_DATA"
  <2>1. Execute' /\ IR'.op = "LOAD" /\ load_state = "SEND_CMD" => ~ctl.regfile_wr
    <3>1. CASE ctl.busy
      BY <1>1, <3>1, HeldWhileBusy DEF LoadInv, Execute
    <3>2. CASE ~ctl.busy
      <4>1. Execute' => ~Execute
        BY <3>2
        DEF Posedge, FetchPosedge, FetchReset, FetchExec, FetchInc, FetchTake,
            FetchRequest, Execute
      <4>2. QED
        BY <1>1, <4>1, QuietFields DEF LoadInv
    <3>3. QED
      BY <3>1, <3>2
  <2>2. QED
    BY <1>1, <1>3, <2>1 DEF LoadInv, LoadTakesOwnData
<1>4. QED
  BY <1>2, <1>3

\* LoadInv holds for as long as no interrupt abandons an accepted load.
LEMMA LoadInvariant == Spec /\ []LoadUninterrupted => []LoadInv
<1>1. Init => LoadInv
  BY QuietFields DEF Init, CtlInit, FetchInit, LoadInv, LoadTakesOwnData, Execute
<1>2. /\ TypeOK /\ BusInv /\ RequestInv /\ AcceptedIsCurrent /\ LoadUninterrupted
      /\ LoadInv /\ [Next]_vars
      => LoadInv'
  <2>1. CASE UNCHANGED vars
    BY <2>1
    DEF vars, LoadInv, LoadTakesOwnData, Execute, inputVars, fetchVars, ctlVars, memVars,
        requestVars
  <2>2. QED
    BY <2>1, LoadNegedge, LoadPosedge DEF Next
<1>3. QED
  BY <1>1, <1>2, TypeCorrect, BusCorrect, AcceptCorrect, PTL DEF Spec

\* Unless an interrupt abandons a load that has been accepted, the control unit is
\* ready for the next load after each instruction, and each load writes its register
\* with the data of its own access: whatever resets, posted stores and other
\* interrupts do, those that arrive before the load is accepted included.
THEOREM LoadsCorrect == Spec /\ []LoadUninterrupted => [](LoadReady /\ LoadTakesOwnData)
<1>1. TypeOK /\ LoadInv => LoadReady /\ LoadTakesOwnData
  BY DEF TypeOK, CtlTypeOK, LoadInv, LoadReady
<1>2. QED
  BY <1>1, TypeCorrect, LoadInvariant, PTL

-----------------------------------------------------------------------------
(* Where the bytes of an access lie.                                       *)

\* The alignments at which memory_access.sv reads and writes the bytes asked for.
Aligned(funct3, address) == funct3 = "W" => Offset(address) \notin {1, 2}

\* The words of the access in progress, and the bytes of the window it is about.
FirstWord  == WordOf(address_reg)
SecondWord == WordOf(Plus(address_reg, 4))
Touched(o) == o \in Offset(address_reg) .. Offset(address_reg) + Size(funct3_ff) - 1

\* Modulo, for numbers at most one period away.
LEMMA ModNear ==
  ASSUME NEW m \in Nat \ {0}, NEW n \in Int, -m <= n, n < 2 * m
  PROVE  n % m = IF n < 0 THEN n + m ELSE IF n < m THEN n ELSE n - m
<1>1. CASE n < 0
  BY <1>1
<1>2. CASE 0 <= n /\ n < m
  BY <1>2
<1>3. CASE m <= n
  BY <1>3
<1> QED BY <1>1, <1>2, <1>3

\* Modulo, for numbers exactly one period up.
LEMMA ModPast ==
  ASSUME NEW m \in Nat \ {0}, NEW n \in Int, m <= n, n - m < m
  PROVE  n % m = n - m
  OBVIOUS

\* The address space is a number of whole words.
LEMMA AddrSizeType == AddrSize \in Nat \ {0} /\ AddrSize >= 4 /\ Addr = 0 .. AddrSize - 1
  BY NWordsAssumption DEF AddrSize, Addr

\* A sum of addresses wraps at most once.
LEMMA PlusNear ==
  ASSUME NEW a \in Addr, NEW k \in 0 .. 4
  PROVE  Plus(a, k) = IF a + k < AddrSize THEN a + k ELSE a + k - AddrSize
<1> DEFINE n == a + k
<1>1. n \in Int /\ 0 <= n /\ -AddrSize <= n /\ n < 2 * AddrSize
  BY AddrSizeType
<1>2. Plus(a, k) = n % AddrSize
  BY DEF Plus
<1> HIDE DEF n
<1>3. CASE n < AddrSize
  <2>1. n % AddrSize = n
    BY <1>1, <1>3, AddrSizeType, ModNear
  <2> QED BY <1>2, <1>3, <2>1 DEF n
<1>4. CASE n >= AddrSize
  <2>1. AddrSize <= n /\ n - AddrSize < AddrSize /\ ~(n < AddrSize)
    BY <1>1, <1>4, AddrSizeType
  <2>2. n % AddrSize = n - AddrSize
    BY <1>1, <2>1, AddrSizeType, ModPast
  <2>3. Plus(a, k) = n - AddrSize
    BY <1>2, <2>2
  <2> QED BY <2>1, <2>3, AddrSizeType DEF n
<1> QED BY <1>1, <1>3, <1>4, AddrSizeType

\* How far an address is behind another.
LEMMA DistanceNear ==
  ASSUME NEW a \in Addr, NEW b \in Addr
  PROVE  (a - b) % AddrSize = IF a < b THEN a - b + AddrSize ELSE a - b
<1> DEFINE n == a - b
<1>1. n \in Int /\ -AddrSize <= n /\ n < AddrSize /\ n < 2 * AddrSize /\ (n < 0 <=> a < b)
  BY AddrSizeType
<1> HIDE DEF n
<1>2. n % AddrSize = IF n < 0 THEN n + AddrSize ELSE n
  BY <1>1, AddrSizeType, ModNear
<1> QED BY <1>1, <1>2 DEF n

\* An access covers bytes of the word of its address and, if it is unaligned, of the
\* next word, which is another one.
LEMMA Located ==
  ASSUME NWords > 1, NEW f \in Funct3, NEW b \in Addr, Aligned(f, b), NEW a \in Addr
  PROVE  /\ WordOf(b) # WordOf(Plus(b, 4))
         /\ (a - b) % AddrSize < Size(f) <=>
              \/ /\ WordOf(a) = WordOf(b)
                 /\ Offset(a) \in Offset(b) .. Offset(b) + Size(f) - 1
              \/ /\ Unaligned(f, b)
                 /\ WordOf(a) = WordOf(Plus(b, 4))
                 /\ Offset(a) + 4 \in Offset(b) .. Offset(b) + Size(f) - 1
         /\ WordOf(a) = WordOf(b) /\ Offset(a) >= Offset(b)
              => (a - b) % AddrSize = Offset(a) - Offset(b)
         /\ WordOf(a) = WordOf(Plus(b, 4)) /\ Offset(a) < Offset(b)
              => (a - b) % AddrSize = Offset(a) + 4 - Offset(b)
<1>1. AddrSize = 4 * NWords /\ NWords \in Nat /\ NWords >= 2 /\ a \in 0 .. AddrSize - 1 /\ b \in 0 .. AddrSize - 1
  BY NWordsAssumption DEF AddrSize, Addr
<1>2. PICK p \in 0 .. NWords - 1, q \in 0 .. 3 : a = 4 * p + q /\ WordOf(a) = p /\ Offset(a) = q
  <2>1. a \div 4 \in 0 .. NWords - 1 /\ a % 4 \in 0 .. 3 /\ a = 4 * (a \div 4) + (a % 4)
    BY <1>1
  <2> QED BY <2>1 DEF WordOf, Offset
<1>3. PICK r \in 0 .. NWords - 1, s \in 0 .. 3 : b = 4 * r + s /\ WordOf(b) = r /\ Offset(b) = s
  <2>1. b \div 4 \in 0 .. NWords - 1 /\ b % 4 \in 0 .. 3 /\ b = 4 * (b \div 4) + (b % 4)
    BY <1>1
  <2> QED BY <2>1 DEF WordOf, Offset
<1>4. WordOf(Plus(b, 4)) = IF r = NWords - 1 THEN 0 ELSE r + 1
  <2>1. Plus(b, 4) = IF b + 4 < AddrSize THEN b + 4 ELSE b + 4 - AddrSize
    BY PlusNear
  <2>2. Plus(b, 4) = 4 * (IF r = NWords - 1 THEN 0 ELSE r + 1) + s
    BY <1>1, <1>3, <2>1
  <2> QED BY <1>1, <1>3, <2>2 DEF WordOf
<1>5. (a - b) % AddrSize = IF a < b THEN a - b + AddrSize ELSE a - b
  BY DistanceNear
<1>6. /\ Size(f) \in {1, 2, 4}
      /\ Size(f) = 4 => s \notin {1, 2}
      /\ Unaligned(f, b) <=> s = 3 /\ Size(f) # 1
  BY <1>3 DEF Size, Funct3, Aligned, Unaligned
<1>7. WordOf(b) # WordOf(Plus(b, 4))
  BY <1>1, <1>3, <1>4
<1>8. WordOf(a) = WordOf(b) /\ Offset(a) >= Offset(b)
        => (a - b) % AddrSize = Offset(a) - Offset(b)
  BY <1>1, <1>2, <1>3, <1>5
<1>9. WordOf(a) = WordOf(Plus(b, 4)) /\ Offset(a) < Offset(b)
        => (a - b) % AddrSize = Offset(a) + 4 - Offset(b)
  BY <1>1, <1>2, <1>3, <1>4, <1>5
<1> DEFINE near == IF r = NWords - 1 THEN 0 ELSE r + 1
<1>10. ASSUME (a - b) % AddrSize < Size(f)
       PROVE  \/ p = r /\ q \in s .. s + Size(f) - 1
              \/ s = 3 /\ Size(f) # 1 /\ p = near /\ q + 4 \in s .. s + Size(f) - 1
  <2>1. CASE p = r
    BY <1>1, <1>2, <1>3, <1>5, <1>6, <1>10, <2>1
  <2>2. CASE p = near
    <3>1. (a - b) % AddrSize = 4 + q - s
      BY <1>1, <1>2, <1>3, <1>5, <2>2
    <3>2. 4 + q - s < Size(f)
      BY <1>10, <3>1
    <3>3. s = 3 /\ Size(f) # 1
      BY <1>6, <3>2
    <3>4. q + 4 \in s .. s + Size(f) - 1
      BY <1>6, <3>2, <3>3
    <3> QED BY <2>2, <3>3, <3>4
  <2>3. CASE p # r /\ p # near
    <3>1. (a - b) % AddrSize >= 5
      <4>1. CASE p > r
        BY <1>1, <1>2, <1>3, <1>5, <2>3, <4>1
      <4>2. CASE p < r
        BY <1>1, <1>2, <1>3, <1>5, <2>3, <4>2
      <4> QED BY <2>3, <4>1, <4>2
    <3> QED BY <1>1, <1>5, <1>6, <1>10, <3>1
  <2> HIDE DEF near
  <2> QED BY <2>1, <2>2, <2>3
<1>11. \/ p = r /\ q \in s .. s + Size(f) - 1
       \/ s = 3 /\ Size(f) # 1 /\ p = near /\ q + 4 \in s .. s + Size(f) - 1
       => (a - b) % AddrSize < Size(f)
  BY <1>1, <1>2, <1>3, <1>5, <1>6
<1> QED BY <1>2, <1>3, <1>4, <1>6, <1>7, <1>8, <1>9, <1>10, <1>11

\* The byte at a distance lies in the word of the address or in the next one.
LEMMA ByteAt ==
  ASSUME NEW b \in Addr, NEW i \in 0 .. 3
  PROVE  /\ Offset(b) + i < 4 => /\ WordOf(Plus(b, i)) = WordOf(b)
                                 /\ Offset(Plus(b, i)) = Offset(b) + i
         /\ Offset(b) + i >= 4 => /\ WordOf(Plus(b, i)) = WordOf(Plus(b, 4))
                                  /\ Offset(Plus(b, i)) = (Offset(b) + i) - 4
<1>1. AddrSize = 4 * NWords /\ NWords \in Nat \ {0} /\ b \in 0 .. AddrSize - 1
  BY NWordsAssumption DEF AddrSize, Addr
<1>2. PICK r \in 0 .. NWords - 1, s \in 0 .. 3 : b = 4 * r + s /\ WordOf(b) = r /\ Offset(b) = s
  <2>1. b \div 4 \in 0 .. NWords - 1 /\ b % 4 \in 0 .. 3 /\ b = 4 * (b \div 4) + (b % 4)
    BY <1>1
  <2> QED BY <2>1 DEF WordOf, Offset
<1> DEFINE next == IF r = NWords - 1 THEN 0 ELSE r + 1
<1>3. Plus(b, 4) = 4 * next + s
  BY <1>1, <1>2, PlusNear
<1>4. CASE s + i < 4
  <2>1. Plus(b, i) = 4 * r + (s + i)
    BY <1>1, <1>2, <1>4, PlusNear
  <2> QED BY <1>1, <1>2, <1>4, <2>1 DEF WordOf, Offset
<1>5. CASE s + i >= 4
  <2>1. Plus(b, i) = 4 * next + ((s + i) - 4)
    BY <1>1, <1>2, <1>5, PlusNear
  <2> QED BY <1>1, <1>2, <1>3, <1>5, <2>1 DEF WordOf, Offset
<1> QED BY <1>2, <1>4, <1>5

-----------------------------------------------------------------------------
(* The scope of the refinement.                                            *)

\* What Isa has: an exception raised by a SYSTEM instruction is taken back, the set
\* and clear forms of a CSR instruction are not in Isa, and a word at byte 1 or 2 of
\* a word is not split.
Supported(i) ==
  /\ i.op \notin {"ENV", "PRIV", "CSRRS"}
  /\ i.op = "CSRRW" => i.csr # "readonly" /\ i.rs1 # 0
  /\ i.op \in {"LOAD", "STORE"} => Aligned(i.funct3, i.addr)

\* No interrupt is taken in the half cycle after a store has been accepted.
StoreUninterrupted ==
  clk = "high" /\ Execute /\ IR.op = "STORE" /\ mem_ack => PendingInterrupts(timer_irq) = {}

\* The instructions executed are those of Isa; CSRs are written in machine mode; an
\* exception finds mtvec without mode bits; and an interrupt comes before an access
\* is accepted or after it is done.
InScope ==
  /\ Execute => Supported(IR)
  /\ Execute /\ IR.op = "CSRRW" => CPM = M_MODE
  /\ Execute /\ IR.op = "ILLEGAL" => Offset(mtvec) = 0
  /\ LoadUninterrupted
  /\ StoreUninterrupted

-----------------------------------------------------------------------------
(* What the control unit has decided when the rising edge comes.           *)

\* With only the power-on reset, a state in reset is an initial one.
PowerOnInv ==
  rst => /\ PC = 0 /\ fetch_state = "READ"
         /\ data_bus_state = "NO_CMD" /\ ~mem_ack /\ ~data_CYC /\ ~unaligned_ff
         /\ ~mstatus.MIE /\ regfile = ZeroWord /\ load_state = "SEND_CMD"

\* The outputs c for an instruction.
Decision(c, op, ack) ==
  /\ c.exeption <=> op = "ILLEGAL"
  /\ c.exeption => ~c.interrupt /\ c.cause = ILLEGAL_INS
  /\ c.trap_return <=> op = "MRET"
  /\ c.jump <=> op \in {"JAL", "JARL", "MRET"}
  /\ c.enable_branch <=> op = "BRANCH"
  /\ op \in {"JAL", "JARL", "BRANCH"} => c.jmp_target_src # "EPC"
  /\ op = "MRET" => c.jmp_target_src = "EPC"
  /\ op # "ILLEGAL" => (c.csr_wr <=> op = "CSRRW")
  /\ op # "LOAD" => ~(c.regfile_wr /\ c.regfile_src = "LOAD_SRC")
  /\ op = "LOAD" => c.regfile_src = "LOAD_SRC" /\ (c.regfile_wr <=> ~c.busy)
  /\ op = "STORE" => (c.busy <=> ~ack)
  /\ op \notin {"LOAD", "STORE"} => ~c.busy

Decoded == Decision(ctl, IR.op, mem_ack)

Interrupted ==
  /\ ctl.exeption /\ ctl.interrupt /\ ~ctl.trap_return
  /\ ~ctl.regfile_wr /\ ~ctl.busy /\ ~ctl.cyc
  /\ mstatus.MIE
  /\ \/ ctl.cause = 3 /\ mie.MSIE /\ MSIP
     \/ ctl.cause = 7 /\ mie.MTIE /\ ~(mie.MSIE /\ MSIP)
  /\ ~(IR.op = "STORE" /\ mem_ack)

\* An instruction that takes one cycle starts from quiet outputs, so those it does
\* not assign are quiet too.
DecideInv ==
  /\ clk = "high" /\ Execute /\ IR.op \notin {"LOAD", "STORE"} => ctl = Quiet
  /\ clk = "low" /\ ~Execute => ctl = Quiet
  /\ clk = "low" /\ Execute => Interrupted \/ Decoded

\* What a case of the control unit decides.
LEMMA ExecDecides ==
  ASSUME CtlTypeOK, NEW instr, NEW ack \in BOOLEAN, NEW valid \in BOOLEAN, NEW cpm,
         CtlExec(instr, ack, valid, cpm),
         Supported(instr),
         instr.op = "CSRRW" => cpm = M_MODE,
         instr.op \notin {"LOAD", "STORE"} => ctl = Quiet,
         instr.op = "LOAD" /\ load_state = "SEND_CMD" => ~ctl.regfile_wr
  PROVE  Decision(ctl', instr.op, ack)
<1>1. CASE ExecOp(instr)
  BY <1>1, ZenonT(90) DEF ExecOp, Decision, Quiet
<1>2. CASE ExecJump(instr)
  BY <1>2, ZenonT(90) DEF ExecJump, Decision, Quiet
<1>3. CASE ExecBranch(instr)
  BY <1>3, ZenonT(90) DEF ExecBranch, Decision, Quiet
<1>4. CASE ExecStore(instr, ack)
  BY <1>4, ZenonT(90) DEF ExecStore, Decision, Quiet
<1>5. CASE ExecLoadSend(instr, ack)
  BY <1>5, ZenonT(90) DEF ExecLoadSend, Decision, LoadOutputs, Quiet
<1>6. CASE ExecLoadReceive(instr, valid)
  BY <1>6, ZenonT(90) DEF ExecLoadReceive, Decision, LoadOutputs, Quiet
<1>7. CASE ExecMret(instr)
  BY <1>7, ZenonT(90) DEF ExecMret, Decision, System, PrivOutputs, Quiet
<1>8. CASE ExecEnv(instr) \/ ExecPriv(instr)
  BY <1>8 DEF ExecEnv, ExecPriv, Supported
<1>9. CASE ExecCsr(instr, cpm)
  <2>1. instr.op = "CSRRW" /\ instr.csr # "readonly" /\ instr.rs1 # 0 /\ ctl = Quiet
    BY <1>9 DEF ExecCsr, Supported
  <2>2. ~CsrIllegal(instr, cpm) /\ csr_write(instr)
    BY <2>1 DEF CsrIllegal, csr_write, M_MODE
  <2>3. System([Quiet EXCEPT !.csr_wr = @ \/ csr_write(instr), !.regfile_wr = TRUE,
                             !.regfile_src = "CSR_SRC", !.trap_return = FALSE])
    BY <1>9, <2>1, <2>2 DEF ExecCsr
  <2> QED BY <2>1, <2>2, <2>3, ZenonT(90) DEF Decision, System, Quiet
<1>10. CASE ExecIllegal(instr)
  BY <1>10, ZenonT(90) DEF ExecIllegal, Decision, Quiet
<1> QED BY <1>1, <1>2, <1>3, <1>4, <1>5, <1>6, <1>7, <1>8, <1>9, <1>10 DEF CtlExec

\* An interrupt that is taken is enabled and pending, software before timer.
LEMMA InterruptDecides ==
  ASSUME TypeOK, PendingInterrupts(timer_irq) # {},
         TakeInterrupt(PendingInterrupts(timer_irq))
  PROVE  /\ ctl'.exeption /\ ctl'.interrupt /\ ~ctl'.trap_return
         /\ ~ctl'.regfile_wr /\ ~ctl'.busy /\ ~ctl'.cyc
         /\ mstatus.MIE
         /\ \/ ctl'.cause = 3 /\ mie.MSIE /\ MSIP
            \/ ctl'.cause = 7 /\ mie.MTIE /\ ~(mie.MSIE /\ MSIP)
<1> DEFINE ip == PendingInterrupts(timer_irq)
<1> DEFINE number == IF 11 \in ip THEN 11 ELSE IF 3 \in ip THEN 3 ELSE 7
<1>1. ctl' = [Quiet EXCEPT !.jump = ctl.jump, !.exeption = TRUE, !.interrupt = TRUE,
                           !.cause = number]
  BY DEF TakeInterrupt
<1>2. /\ mstatus.MIE
      /\ \/ number = 3 /\ mie.MSIE /\ MSIP
         \/ number = 7 /\ mie.MTIE /\ ~(mie.MSIE /\ MSIP)
  BY DEF PendingInterrupts
<1> HIDE DEF number
<1>3. /\ ctl'.exeption /\ ctl'.interrupt /\ ~ctl'.trap_return
      /\ ~ctl'.regfile_wr /\ ~ctl'.busy /\ ~ctl'.cyc /\ ctl'.cause = number
  BY <1>1, ZenonT(90) DEF Quiet
<1> QED BY <1>2, <1>3

\* The control unit decides at the falling edge ...
LEMMA DecideNegedge ==
  ASSUME TypeOK, PowerOnInv, LoadInv, DecideInv, InScope, Negedge
  PROVE  DecideInv'
<1> DEFINE ip == PendingInterrupts(timer_irq)
<1>1. /\ clk = "high" /\ clk' = "low" /\ Execute' = Execute
      /\ UNCHANGED <<IR, mem_ack, mstatus, mie, MSIP>>
  BY DEF Negedge, fetchVars, memVars, trapVars, Execute
<1>2. CtlTypeOK /\ CtlNegedge(rst, Execute, ip, IR, mem_ack, data_valid, CPM)
  BY DEF Negedge, TypeOK
<1>3. mem_ack \in BOOLEAN /\ data_valid \in BOOLEAN
  BY DEF TypeOK, MemTypeOK
<1>4. CASE ~Execute
  BY <1>1, <1>2, <1>4 DEF CtlNegedge, CtlReset, CtlIdle, DecideInv
<1>5. CASE Execute /\ TakeInterrupt(ip) /\ ip # {}
  <2>1. ~(IR.op = "STORE" /\ mem_ack)
    BY <1>1, <1>5 DEF InScope, StoreUninterrupted
  <2>2. Interrupted'
    BY <1>1, <1>5, <2>1, InterruptDecides DEF Interrupted
  <2> QED BY <1>1, <1>5, <2>2 DEF DecideInv
<1>6. CASE Execute /\ CtlExec(IR, mem_ack, data_valid, CPM)
  <2>1. Decision(ctl', IR.op, mem_ack)
    BY <1>1, <1>2, <1>3, <1>6, ExecDecides DEF InScope, DecideInv, LoadInv
  <2> QED BY <1>1, <1>6, <2>1 DEF DecideInv, Decoded
<1>7. ~(rst /\ Execute)
  BY DEF PowerOnInv, Execute
<1> QED BY <1>2, <1>4, <1>5, <1>6, <1>7 DEF CtlNegedge

\* ... and an instruction leaves or keeps its execute cycles at the rising one.
LEMMA DecidePosedge ==
  ASSUME BusInv, DecideInv, Posedge
  PROVE  DecideInv'
<1>1. clk = "low" /\ clk' = "high" /\ ctl' = ctl
  BY DEF Posedge, ctlVars
<1>2. CASE ctl.busy
  <2>1. Execute /\ IR.op \in {"LOAD", "STORE"}
    BY <1>1, <1>2, HeldWhileBusy DEF DecideInv, Interrupted, Decoded, Decision
  <2>2. Execute' => IR' = IR
    BY <1>2, HeldWhileBusy
  <2> QED BY <1>1, <2>1, <2>2 DEF DecideInv
<1>3. CASE ~ctl.busy
  <2>1. Execute' => ~Execute
    BY <1>3
    DEF Posedge, FetchPosedge, FetchReset, FetchExec, FetchInc, FetchTake, FetchRequest,
        Execute
  <2> QED BY <1>1, <2>1 DEF DecideInv
<1> QED BY <1>2, <1>3

\* Only the initial states are in reset.
LEMMA PowerOnStep ==
  ASSUME ResetInputs = {FALSE}, PowerOnInv, Next
  PROVE  PowerOnInv'
<1>1. CASE Posedge
  BY <1>1 DEF Posedge, PowerOnInv
<1>2. CASE Negedge
  BY <1>2
  DEF Negedge, PowerOnInv, inputVars, fetchVars, memVars, requestVars, trapVars,
      CtlNegedge, CtlReset
<1> QED BY <1>1, <1>2 DEF Next
-----------------------------------------------------------------------------
(* The access in progress and the RAM.                                     *)

\* What the load/store unit asks of the bus is the step its state is at; the access
\* is one its datapath gets right; and an acknowledged request has not begun.
AccessInv ==
  /\ data_CYC =>
       /\ data_bus_state # "NO_CMD"
       /\ data_ADR = AccessADR
       /\ data_WE <=> data_bus_state \in WriteStates
       /\ data_WE => data_DAT_O = IF data_bus_state = "UWRITE1" THEN new_data_1 ELSE new_data_2
  /\ unaligned_ff = Unaligned(funct3_ff, address_reg)
  /\ data_bus_state # "NO_CMD" => Aligned(funct3_ff, address_reg)
  /\ mem_ack =>
       /\ Execute /\ ~data_CYC /\ ~data_valid
       /\ data_bus_state \in {"READ1", "READ_W1", "UWRITE1"}
       /\ store_data_reg = IR.data

\* The words read so far are those of the RAM; the bytes a store does not touch stay
\* so until the end, and its first word has been written when it is at its second.
WindowInv ==
  /\ data_bus_state \in {"READ2", "READ_W2"} => unaligned_ff /\ data_1 = ram[FirstWord]
  /\ data_bus_state = "UWRITE2" => unaligned_ff /\ ram[FirstWord] = new_data_1
  /\ data_bus_state \in WriteStates =>
       \A o \in 0 .. 3 :
         /\ ~Touched(o) => data_1[o] = ram[FirstWord][o]
         /\ unaligned_ff /\ ~Touched(o + 4) => data_2[o] = ram[SecondWord][o]

\* The bytes of a finished load are in the window.
Loaded ==
  /\ data_bus_state = "NO_CMD"
  /\ Aligned(funct3_ff, address_reg)
  /\ data_1 = ram[FirstWord]
  /\ unaligned_ff => data_2 = ram[SecondWord]

\* The control unit waits for data that is on its way or valid; when it writes the
\* register, the data is there.
ReceiveInv ==
  /\ load_state = "RECIEVE_DATA" =>
       IF data_valid THEN clk = "high" /\ Loaded ELSE data_bus_state \in {"READ1", "READ2"}
  /\ clk = "low" /\ ctl.regfile_wr /\ ctl.regfile_src = "LOAD_SRC" => Loaded

\* What the load/store unit accepts is the access of a supported load or store.
LEMMA AcceptsInstruction ==
  ASSUME TypeOK, BusInv, RequestInv, InScope, Posedge, ~rst, ctl.cyc
  PROVE  /\ Execute /\ Execute' /\ IR' = IR
         /\ IR.op \in {"LOAD", "STORE"}
         /\ ctl.memory_operation = IF IR.op = "STORE" THEN "STORE_DATA" ELSE "LOAD_DATA"
         /\ AddressLd = IR.addr
         /\ Aligned(IR.funct3, IR.addr)
<1>1. ctl.busy /\ Execute /\ Execute' /\ IR' = IR
  BY HeldWhileBusy DEF RequestInv, Execute
<1>2. /\ IR.op \in {"LOAD", "STORE"}
      /\ ctl.memory_operation = IF IR.op = "STORE" THEN "STORE_DATA" ELSE "LOAD_DATA"
  BY <1>1 DEF RequestInv
<1> QED BY <1>1, <1>2 DEF AddressLd, InScope, Supported

\* A rising edge takes an access through its states with the request it was accepted with.
LEMMA AccessPosedge ==
  ASSUME TypeOK, BusInv, RequestInv, InScope, PowerOnInv, AccessInv, Posedge
  PROVE  AccessInv'
<1> USE DEF WriteStates, ReadStates
<1>1. MemPosedge(rst, ctl.cyc, ctl.memory_operation, IR.funct3, AddressLd, IR.data,
                 DataACK(data_CYC), ReadData)
  BY DEF Posedge
<1>2. CASE rst
  <2>1. MemReset /\ data_bus_state = "NO_CMD" /\ ~mem_ack /\ ~data_CYC /\ ~unaligned_ff
    BY <1>1, <1>2 DEF PowerOnInv, MemPosedge
  <2>2. /\ data_bus_state' = "NO_CMD" /\ ~mem_ack' /\ ~data_CYC'
        /\ unaligned_ff' = FALSE /\ address_reg' = 0
    BY <2>1 DEF MemReset, TypeOK, MemTypeOK
  <2>3. Unaligned(funct3_ff, address_reg)' = FALSE
    BY <2>2 DEF Unaligned, Offset
  <2> QED BY <2>2, <2>3 DEF AccessInv
<1>3. CASE ~rst /\ ~ctl.cyc /\ MemIdle
  BY <1>3 DEF MemIdle, BusIdle, requestVars, AccessInv
<1>4. CASE ~rst /\ ctl.cyc
           /\ MemAccept(ctl.memory_operation, IR.funct3, AddressLd, IR.data)
  <2>1. /\ Execute' /\ IR' = IR /\ AddressLd = IR.addr
        /\ IR.op \in {"LOAD", "STORE"} /\ Aligned(IR.funct3, IR.addr)
        /\ ctl.memory_operation = IF IR.op = "STORE" THEN "STORE_DATA" ELSE "LOAD_DATA"
    BY <1>4, AcceptsInstruction
  <2> QED BY <1>4, <2>1 DEF MemAccept, LatchRequest, BusIdle, AccessInv
<1>5. CASE ~rst /\ MemReadRequest
  BY <1>5 DEF MemReadRequest, MemStep, BusDrive, requestVars, AccessADR, AccessInv
<1>6. CASE ~rst /\ MemWriteRequest
  <2>1. UNCHANGED <<new_data_1, new_data_2, AccessADR>>
    BY <1>6
    DEF MemWriteRequest, MemStep, requestVars, new_data_1, new_data_2, ModifiedWindow,
        Window, AccessADR
  <2> QED BY <1>6, <2>1 DEF MemWriteRequest, MemStep, BusDrive, requestVars, AccessInv
<1>7. CASE ~rst /\ (MemReadFirst(ReadData) \/ MemReadSecond(ReadData) \/ MemWriteDone)
  BY <1>7
  DEF MemReadFirst, MemReadSecond, MemWriteDone, MemStep, BusIdle, requestVars, AccessInv
<1> QED BY <1>1, <1>2, <1>3, <1>4, <1>5, <1>6, <1>7 DEF MemPosedge

\* The load/store unit does not move at a falling edge.
LEMMA AccessNegedge ==
  ASSUME AccessInv, Negedge
  PROVE  AccessInv'
<1>1. Execute' = Execute /\ UNCHANGED <<IR, memVars>>
  BY DEF Negedge, fetchVars, Execute
<1> QED
  BY <1>1
  DEF AccessInv, memVars, requestVars, AccessADR, new_data_1, new_data_2, ModifiedWindow,
      Window
\* The words written are the words read with the bytes of the store in them.
LEMMA Merged ==
  ASSUME MemTypeOK, NEW o \in 0 .. 3
  PROVE  /\ new_data_1[o] = IF Touched(o) THEN store_data_reg[o - Offset(address_reg)]
                            ELSE data_1[o]
         /\ new_data_2[o] = IF Touched(o + 4) THEN store_data_reg[o + 4 - Offset(address_reg)]
                            ELSE data_2[o]
<1>1. /\ o \in 0 .. 7 /\ o + 4 \in 0 .. 7 /\ o < 4 /\ ~(o + 4 < 4) /\ (o + 4) - 4 = o
      /\ (o + 4) - Offset(address_reg) = o + 4 - Offset(address_reg)
  BY AddrParts DEF MemTypeOK
<1>2. Window[o] = data_1[o] /\ Window[o + 4] = data_2[o]
  BY <1>1 DEF Window
<1>3. new_data_1[o] = ModifiedWindow[o] /\ new_data_2[o] = ModifiedWindow[o + 4]
  BY DEF new_data_1, new_data_2
<1>4. \A i \in 0 .. 7 : ModifiedWindow[i] =
        IF Touched(i) THEN store_data_reg[i - Offset(address_reg)] ELSE Window[i]
  BY DEF ModifiedWindow, Touched
<1>5. ModifiedWindow[o] = IF Touched(o) THEN store_data_reg[o - Offset(address_reg)]
                          ELSE Window[o]
  BY <1>1, <1>4
<1>6. ModifiedWindow[o + 4] =
        IF Touched(o + 4) THEN store_data_reg[(o + 4) - Offset(address_reg)]
        ELSE Window[o + 4]
  BY <1>1, <1>4
<1> QED BY <1>1, <1>2, <1>3, <1>5, <1>6

\* The word an acknowledge answers for.
LEMMA Answered ==
  ASSUME BusInv, AccessInv, clk = "low", DataACK(data_CYC)
  PROVE  /\ data_bus_state \in {"READ1", "READ_W1", "UWRITE1"} => addr_reg = FirstWord
         /\ data_bus_state \in {"READ2", "READ_W2", "UWRITE2"} => addr_reg = SecondWord
         /\ data_bus_state = "UWRITE1" => ram[FirstWord] = new_data_1
         /\ data_bus_state = "UWRITE2" => ram[SecondWord] = new_data_2
<1>1. data_CYC /\ addr_reg = WordOf(AccessADR)
  BY DEF DataACK, ArbADR, BusInv, AccessInv
<1>2. data_bus_state \in WriteStates =>
        ram[addr_reg] = IF data_bus_state = "UWRITE1" THEN new_data_1 ELSE new_data_2
  BY <1>1 DEF BusInv, ArbWE, AccessInv
<1> QED BY <1>1, <1>2 DEF AccessADR, FirstWord, SecondWord, WriteStates

\* What a rising edge reads of the two words an access covers is what the array holds.
LEMMA WindowPosedge ==
  ASSUME TypeOK, BusInv, RequestInv, InScope, PowerOnInv, AccessInv, WindowInv, Posedge
  PROVE  WindowInv'
<1> USE DEF WriteStates, ReadStates
<1>1. MemPosedge(rst, ctl.cyc, ctl.memory_operation, IR.funct3, AddressLd, IR.data,
                 DataACK(data_CYC), ReadData)
      /\ ram' = ram /\ clk = "low"
  BY DEF Posedge, RamPosedge
<1>2. CASE rst \/ MemIdle
  <2>1. data_bus_state' = "NO_CMD"
    BY <1>1, <1>2 DEF MemReset, MemIdle, MemPosedge
  <2> QED BY <2>1 DEF WindowInv
<1>3. CASE ~rst /\ ctl.cyc
           /\ MemAccept(ctl.memory_operation, IR.funct3, AddressLd, IR.data)
  <2>1. Aligned(IR.funct3, IR.addr) /\ AddressLd = IR.addr
    BY <1>3, AcceptsInstruction
  <2>2. /\ data_bus_state' \in {"NO_CMD", "READ1", "READ_W1", "UWRITE1"}
        /\ address_reg' = IR.addr /\ funct3_ff' = IR.funct3
        /\ data_bus_state' = "UWRITE1" =>
             Size(IR.funct3) = 4 /\ ~Unaligned(IR.funct3, IR.addr) /\ ~unaligned_ff'
    BY <1>3, <2>1 DEF MemAccept, LatchRequest
  <2>3. IR.funct3 \in Funct3 /\ Offset(IR.addr) \in 0 .. 3
    BY WiresTyped, AddrParts
  <2>4. Size(IR.funct3) = 4 /\ ~Unaligned(IR.funct3, IR.addr) => Offset(IR.addr) = 0
    BY <2>1, <2>3 DEF Aligned, Unaligned, Size, Funct3
  <2>5. data_bus_state' = "UWRITE1" => ~unaligned_ff' /\ \A o \in 0 .. 3 : Touched(o)'
    BY <2>2, <2>4 DEF Touched
  <2> QED BY <2>2, <2>5 DEF WindowInv
<1>4. CASE ~rst /\ (MemReadRequest \/ MemWriteRequest)
  <2>1. UNCHANGED <<data_bus_state, requestVars, data_1, data_2, ram>>
    BY <1>1, <1>4 DEF MemReadRequest, MemWriteRequest, MemStep
  <2> QED
    BY <2>1
    DEF WindowInv, requestVars, FirstWord, SecondWord, Touched, new_data_1,
        ModifiedWindow, Window
<1>5. CASE ~rst /\ DataACK(data_CYC) /\ MemReadFirst(ReadData)
  <2>1. /\ data_bus_state \in {"READ1", "READ_W1"}
        /\ UNCHANGED <<requestVars, ram>> /\ data_1' = ram[FirstWord]
        /\ data_bus_state' \in {"READ2", "READ_W2"} => unaligned_ff
        /\ data_bus_state' \in {"NO_CMD", "READ2", "READ_W2", "UWRITE1"}
        /\ data_bus_state' = "UWRITE1" => ~unaligned_ff
    BY <1>1, <1>5, Answered DEF MemReadFirst, MemStep, ReadData
  <2>2. UNCHANGED <<unaligned_ff, FirstWord>>
    BY <2>1 DEF requestVars, FirstWord
  <2> QED BY <2>1, <2>2 DEF WindowInv
<1>6. CASE ~rst /\ DataACK(data_CYC) /\ MemReadSecond(ReadData)
  <2>1. /\ data_bus_state \in {"READ2", "READ_W2"}
        /\ UNCHANGED <<requestVars, ram, data_1>> /\ data_2' = ram[SecondWord]
        /\ data_bus_state' \in {"NO_CMD", "UWRITE1"}
    BY <1>1, <1>6, Answered DEF MemReadSecond, MemStep, ReadData
  <2>2. UNCHANGED <<unaligned_ff, FirstWord, SecondWord>> /\ data_1 = ram[FirstWord]
    BY <2>1 DEF requestVars, FirstWord, SecondWord, WindowInv
  <2> QED BY <2>1, <2>2 DEF WindowInv
<1>7. CASE ~rst /\ DataACK(data_CYC) /\ MemWriteDone
  <2>1. /\ data_bus_state \in WriteStates
        /\ UNCHANGED <<requestVars, ram, data_1, data_2>>
        /\ data_bus_state' \in {"NO_CMD", "UWRITE2"}
        /\ data_bus_state' = "UWRITE2" => data_bus_state = "UWRITE1" /\ unaligned_ff
    BY <1>1, <1>7 DEF MemWriteDone, MemStep
  <2>2. UNCHANGED <<unaligned_ff, FirstWord, SecondWord, new_data_1>>
        /\ \A o : Touched(o)' = Touched(o)
    BY <2>1
    DEF requestVars, FirstWord, SecondWord, Touched, new_data_1, ModifiedWindow, Window
  <2>3. data_bus_state' = "UWRITE2" => ram[FirstWord] = new_data_1
    BY <1>1, <1>7, <2>1, Answered
  <2> QED BY <2>1, <2>2, <2>3 DEF WindowInv
<1>8. \/ rst
      \/ ~rst /\ ~ctl.cyc /\ MemIdle
      \/ ~rst /\ ctl.cyc /\ MemAccept(ctl.memory_operation, IR.funct3, AddressLd, IR.data)
      \/ ~rst /\ (MemReadRequest \/ MemWriteRequest)
      \/ ~rst /\ DataACK(data_CYC)
              /\ (MemReadFirst(ReadData) \/ MemReadSecond(ReadData) \/ MemWriteDone)
  BY <1>1 DEF MemPosedge
<1> QED BY <1>2, <1>3, <1>4, <1>5, <1>6, <1>7, <1>8
\* What the RAM does at a falling edge: nothing but the write of the step the access
\* is at.
LEMMA RamWrites ==
  ASSUME TypeOK, AccessInv, Negedge
  PROVE  \/ ram' = ram
         \/ /\ data_bus_state = "UWRITE1" /\ ~mem_ack
            /\ ram' = [ram EXCEPT ![FirstWord] = new_data_1]
         \/ /\ data_bus_state = "UWRITE2" /\ ~mem_ack
            /\ ram' = [ram EXCEPT ![SecondWord] = new_data_2]
<1>1. ram' = IF data_CYC /\ data_WE THEN [ram EXCEPT ![WordOf(data_ADR)] = data_DAT_O] ELSE ram
  BY DEF Negedge, RamNegedge, ArbWE, ArbADR
<1> QED BY <1>1 DEF AccessInv, WriteStates, AccessADR, FirstWord, SecondWord

\* The words of an access are two different words of the RAM.
LEMMA TwoWords ==
  ASSUME NWords > 1, TypeOK, AccessInv, data_bus_state # "NO_CMD"
  PROVE  FirstWord \in WordIndex /\ SecondWord \in WordIndex /\ FirstWord # SecondWord
<1>1. address_reg \in Addr /\ funct3_ff \in Funct3 /\ Aligned(funct3_ff, address_reg)
  BY DEF TypeOK, MemTypeOK, AccessInv
<1>2. Plus(address_reg, 4) \in Addr
  BY <1>1, PlusType
<1>3. FirstWord # SecondWord
  BY <1>1, Located DEF FirstWord, SecondWord
<1> QED BY <1>1, <1>2, <1>3, AddrParts DEF FirstWord, SecondWord

\* A falling edge writes the array only with the words the window was made for.
LEMMA WindowNegedge ==
  ASSUME NWords > 1, TypeOK, AccessInv, WindowInv, Negedge
  PROVE  WindowInv'
<1>1. UNCHANGED memVars /\ ram \in [WordIndex -> Word]
  BY DEF Negedge, TypeOK, RamTypeOK
<1>2. UNCHANGED <<data_bus_state, unaligned_ff, data_1, data_2, FirstWord, SecondWord,
                  new_data_1, new_data_2>>
      /\ \A o : Touched(o)' = Touched(o)
  BY <1>1
  DEF memVars, requestVars, FirstWord, SecondWord, Touched, new_data_1, new_data_2,
      ModifiedWindow, Window
<1>3. CASE ram' = ram
  BY <1>2, <1>3 DEF WindowInv
<1>4. CASE data_bus_state = "UWRITE1" /\ ram' = [ram EXCEPT ![FirstWord] = new_data_1]
  <2>1. ram'[FirstWord] = new_data_1 /\ ram'[SecondWord] = ram[SecondWord]
    BY <1>1, <1>4, TwoWords
  <2>2. \A o \in 0 .. 3 : ~Touched(o) => data_1[o] = new_data_1[o]
    BY Merged DEF TypeOK
  <2> QED BY <1>2, <1>4, <2>1, <2>2 DEF WindowInv, WriteStates
<1>5. CASE data_bus_state = "UWRITE2" /\ ram' = [ram EXCEPT ![SecondWord] = new_data_2]
  <2>1. ram'[SecondWord] = new_data_2 /\ ram'[FirstWord] = ram[FirstWord]
    BY <1>1, <1>5, TwoWords
  <2>2. \A o \in 0 .. 3 : ~Touched(o + 4) => data_2[o] = new_data_2[o]
    BY Merged DEF TypeOK
  <2> QED BY <1>2, <1>5, <2>1, <2>2 DEF WindowInv, WriteStates
<1> QED BY <1>3, <1>4, <1>5, RamWrites

\* Data the load/store unit declares valid are those of the words it has read.
LEMMA ReceivePosedge ==
  ASSUME TypeOK, BusInv, RequestInv, LoadInv, AccessInv, WindowInv, ReceiveInv, Posedge
  PROVE  ReceiveInv'
<1>1. clk = "low" /\ clk' = "high" /\ load_state' = load_state /\ ram' = ram
  BY DEF Posedge, ctlVars, RamPosedge
<1>2. SUFFICES ASSUME load_state = "RECIEVE_DATA"
               PROVE  IF data_valid' THEN Loaded'
                      ELSE data_bus_state' \in {"READ1", "READ2"}
  BY <1>1 DEF ReceiveInv
<1>3. ~rst /\ ~ctl.cyc /\ data_bus_state \in {"READ1", "READ2"}
  BY <1>1, <1>2 DEF LoadInv, RequestInv, ReceiveInv
<1>4. \/ MemReadRequest
      \/ DataACK(data_CYC) /\ MemReadFirst(ReadData)
      \/ DataACK(data_CYC) /\ MemReadSecond(ReadData)
  BY <1>3 DEF Posedge, MemPosedge, MemIdle, MemWriteRequest, MemWriteDone, WriteStates
<1>5. CASE MemReadRequest
  BY <1>3, <1>5 DEF MemReadRequest
<1>6. Aligned(funct3_ff, address_reg)
  BY <1>3 DEF AccessInv
<1>7. CASE DataACK(data_CYC) /\ MemReadFirst(ReadData)
  <2>1. /\ UNCHANGED requestVars /\ data_1' = ram[FirstWord] /\ data_bus_state = "READ1"
        /\ data_valid' <=> ~unaligned_ff
        /\ data_bus_state' = IF unaligned_ff THEN "READ2" ELSE "NO_CMD"
    BY <1>1, <1>3, <1>7, Answered DEF MemReadFirst, MemStep, ReadData
  <2>2. UNCHANGED <<FirstWord, unaligned_ff, Aligned(funct3_ff, address_reg)>>
    BY <2>1 DEF requestVars, FirstWord
  <2> QED BY <1>1, <1>6, <2>1, <2>2 DEF Loaded
<1>8. CASE DataACK(data_CYC) /\ MemReadSecond(ReadData)
  <2>1. /\ UNCHANGED <<requestVars, data_1>> /\ data_2' = ram[SecondWord]
        /\ data_bus_state = "READ2" /\ data_bus_state' = "NO_CMD" /\ data_valid'
    BY <1>1, <1>3, <1>8, Answered DEF MemReadSecond, MemStep, ReadData
  <2>2. UNCHANGED <<FirstWord, SecondWord, Aligned(funct3_ff, address_reg)>>
        /\ data_1 = ram[FirstWord]
    BY <2>1 DEF requestVars, FirstWord, SecondWord, WindowInv
  <2> QED BY <1>1, <1>6, <2>1, <2>2 DEF Loaded
<1> QED BY <1>4, <1>5, <1>7, <1>8

\* The control unit takes the data of a load at the falling edge at which they are valid.
LEMMA ReceiveNegedge ==
  ASSUME TypeOK, AcceptedIsCurrent, InScope, LoadInv, AccessInv, ReceiveInv, Negedge
  PROVE  ReceiveInv'
<1> DEFINE ip == PendingInterrupts(timer_irq)
<1>1. /\ clk = "high" /\ clk' = "low"
      /\ UNCHANGED memVars
      /\ UNCHANGED <<data_bus_state, data_valid>>
  BY DEF Negedge, memVars
<1>2. CtlTypeOK /\ CtlNegedge(rst, Execute, ip, IR, mem_ack, data_valid, CPM)
  BY DEF Negedge, TypeOK
<1>3. /\ Execute \in BOOLEAN /\ rst \in BOOLEAN /\ mem_ack \in BOOLEAN
      /\ data_valid \in BOOLEAN
  BY DEF Execute, TypeOK, MemTypeOK
<1>4. \/ Unrequested(rst, Execute, ip, IR)
      \/ ~rst /\ Execute /\ IR.op = "STORE" /\ StoreRequested(mem_ack)
      \/ ~rst /\ Execute /\ IR.op = "LOAD" /\ LoadRequested(mem_ack)
      \/ ~rst /\ Execute /\ IR.op = "LOAD" /\ LoadAwaited(data_valid)
  BY <1>2, <1>3, HandshakeOutputs
<1>5. Loaded => Loaded'
  <2>1. SUFFICES ASSUME Loaded PROVE Loaded'
    OBVIOUS
  <2>2. ram' = ram
    BY <2>1, RamWrites DEF Loaded
  <2> QED
    BY <1>1, <2>1, <2>2 DEF memVars, requestVars, Loaded, FirstWord, SecondWord
<1>6. CASE Unrequested(rst, Execute, ip, IR)
  <2>1. load_state' # "RECIEVE_DATA"
    BY <1>1, <1>6 DEF Unrequested, LoadInv, InScope, LoadUninterrupted
  <2> QED BY <1>6, <2>1 DEF Unrequested, ReceiveInv
<1>7. CASE ~rst /\ Execute /\ IR.op = "STORE" /\ StoreRequested(mem_ack)
  BY <1>1, <1>7 DEF StoreRequested, LoadInv, ReceiveInv
<1>8. CASE ~rst /\ Execute /\ IR.op = "LOAD" /\ LoadRequested(mem_ack)
  <2>1. ~ctl'.regfile_wr
    BY <1>1, <1>8 DEF LoadRequested, LoadInv
  <2>2. mem_ack => data_bus_state = "READ1" /\ ~data_valid
    BY <1>8 DEF AcceptedIsCurrent, AccessInv, StoreStates
  <2> QED BY <1>1, <1>8, <2>1, <2>2 DEF LoadRequested, ReceiveInv
<1>9. CASE ~rst /\ Execute /\ IR.op = "LOAD" /\ LoadAwaited(data_valid)
  BY <1>1, <1>3, <1>5, <1>9 DEF LoadAwaited, ReceiveInv
<1> QED BY <1>4, <1>6, <1>7, <1>8, <1>9
\* The inductive invariant, next to those of CoreProofs.
ScopeInv == PowerOnInv /\ DecideInv /\ AccessInv /\ WindowInv /\ ReceiveInv

\* The invariant holds after the power-on reset.
LEMMA ScopeInit == Init => ScopeInv
<1>1. Init => PowerOnInv /\ DecideInv
  BY DEF Init, FetchInit, CtlInit, MemInit, TrapInit, PowerOnInv, DecideInv, Execute
<1>2. Init => AccessInv
  <2>1. Unaligned("B", 0) = FALSE
    BY DEF Unaligned, Size
  <2> QED BY <2>1 DEF Init, MemInit, AccessInv
<1>3. Init => WindowInv
  BY DEF Init, MemInit, WindowInv, WriteStates
<1>4. Init => ReceiveInv
  BY DEF Init, CtlInit, ReceiveInv
<1> QED BY <1>1, <1>2, <1>3, <1>4 DEF ScopeInv

\* Every step within the scope keeps the invariant.
LEMMA ScopeStep ==
  ASSUME ResetInputs = {FALSE}, NWords > 1, TypeOK, BusInv, RequestInv, AcceptedIsCurrent,
         LoadInv, InScope, ScopeInv, [Next]_vars
  PROVE  ScopeInv'
<1>1. CASE UNCHANGED vars
  <2> USE <1>1 DEF vars, inputVars, fetchVars, ctlVars, memVars, requestVars, trapVars,
                   ramVars
  <2>1. UNCHANGED <<Execute, FirstWord, SecondWord, new_data_1, new_data_2, AccessADR>>
        /\ \A o : Touched(o)' = Touched(o)
    BY DEF Execute, FirstWord, SecondWord, new_data_1, new_data_2, ModifiedWindow, Window,
           AccessADR, Touched
  <2>2. PowerOnInv' /\ DecideInv'
    BY <2>1 DEF ScopeInv, PowerOnInv, DecideInv, Interrupted, Decoded
  <2>3. AccessInv' /\ WindowInv' /\ ReceiveInv'
    BY <2>1 DEF ScopeInv, AccessInv, WindowInv, ReceiveInv, Loaded
  <2> QED BY <2>2, <2>3 DEF ScopeInv
<1>2. CASE Posedge
  BY <1>2, PowerOnStep, DecidePosedge, AccessPosedge, WindowPosedge, ReceivePosedge
  DEF ScopeInv, Next
<1>3. CASE Negedge
  BY <1>3, PowerOnStep, DecideNegedge, AccessNegedge, WindowNegedge, ReceiveNegedge
  DEF ScopeInv, Next
<1> QED BY <1>1, <1>2, <1>3 DEF Next

\* The invariant holds as long as the execution stays within the scope.
LEMMA ScopeInvariant ==
  ASSUME ResetInputs = {FALSE}, NWords > 1
  PROVE  Spec /\ []InScope => []ScopeInv
<1>1. InScope => LoadUninterrupted
  BY DEF InScope
<1>2. /\ TypeOK /\ BusInv /\ RequestInv /\ AcceptedIsCurrent /\ LoadInv /\ InScope
      /\ ScopeInv /\ [Next]_vars
      => ScopeInv'
  BY ScopeStep
<1> QED
  BY <1>1, <1>2, ScopeInit, TypeCorrect, BusCorrect, AcceptCorrect, LoadInvariant, PTL
  DEF Spec
-----------------------------------------------------------------------------
(* The memory of the architecture.                                         *)

\* A byte of the architecture's memory: the posted store's if it covers it, else the array's.
LEMMA ArchByte ==
  ASSUME NEW a \in Addr
  PROVE  ArchMem[a] =
           IF StorePosted /\ (a - address_reg) % AddrSize < Size(funct3_ff)
           THEN store_data_reg[(a - address_reg) % AddrSize]
           ELSE ram[WordOf(a)][Offset(a)]
  BY DEF ArchMem

\* The bytes of the access in progress are those of its words it touches, and the
\* words to write have the store's bytes there.
LEMMA StoreBytes ==
  ASSUME NWords > 1, TypeOK, AccessInv, data_bus_state # "NO_CMD", NEW a \in Addr
  PROVE  LET i == (a - address_reg) % AddrSize
             o == Offset(a)
         IN /\ o \in 0 .. 3
            /\ i < Size(funct3_ff) <=>
                 \/ WordOf(a) = FirstWord /\ Touched(o)
                 \/ unaligned_ff /\ WordOf(a) = SecondWord /\ Touched(o + 4)
            /\ WordOf(a) = FirstWord /\ Touched(o) => new_data_1[o] = store_data_reg[i]
            /\ unaligned_ff /\ WordOf(a) = SecondWord /\ Touched(o + 4)
                 => new_data_2[o] = store_data_reg[i]
<1> DEFINE i == (a - address_reg) % AddrSize
<1> DEFINE o == Offset(a)
<1>1. /\ address_reg \in Addr /\ funct3_ff \in Funct3 /\ Aligned(funct3_ff, address_reg)
      /\ unaligned_ff = Unaligned(funct3_ff, address_reg)
  BY DEF TypeOK, MemTypeOK, AccessInv
<1>2. o \in 0 .. 3 /\ Offset(address_reg) \in 0 .. 3 /\ Size(funct3_ff) \in {1, 2, 4}
  BY <1>1, AddrParts, SizeType
<1>3. i < Size(funct3_ff) <=>
        \/ WordOf(a) = FirstWord /\ Touched(o)
        \/ unaligned_ff /\ WordOf(a) = SecondWord /\ Touched(o + 4)
  BY <1>1, Located DEF FirstWord, SecondWord, Touched
<1>4. WordOf(a) = FirstWord /\ Touched(o) => i = o - Offset(address_reg)
  <2>1. Touched(o) => o >= Offset(address_reg)
    BY <1>2 DEF Touched
  <2> QED BY <1>1, <2>1, Located DEF FirstWord
<1>5. unaligned_ff /\ WordOf(a) = SecondWord /\ Touched(o + 4)
        => i = o + 4 - Offset(address_reg)
  <2>1. unaligned_ff => Offset(address_reg) >= 3
    BY <1>1 DEF Unaligned
  <2>2. unaligned_ff /\ Touched(o + 4) => o < Offset(address_reg)
    BY <1>2, <2>1 DEF Touched
  <2> QED BY <1>1, <2>2, Located DEF SecondWord
<1>6. /\ Touched(o) => new_data_1[o] = store_data_reg[o - Offset(address_reg)]
      /\ Touched(o + 4) => new_data_2[o] = store_data_reg[o + 4 - Offset(address_reg)]
  BY <1>2, Merged DEF TypeOK
<1> HIDE DEF i, o
<1>7. /\ WordOf(a) = FirstWord /\ Touched(o) => new_data_1[o] = store_data_reg[i]
      /\ unaligned_ff /\ WordOf(a) = SecondWord /\ Touched(o + 4)
           => new_data_2[o] = store_data_reg[i]
  BY <1>4, <1>5, <1>6
<1> QED BY <1>2, <1>3, <1>7 DEF i, o

\* Writing the RAM does not change the memory the program sees.
LEMMA MemoryNegedge ==
  ASSUME NWords > 1, TypeOK, AccessInv, WindowInv, Negedge
  PROVE  ArchMem' = ArchMem
<1>1. UNCHANGED <<data_bus_state, mem_ack, store_data_reg, address_reg, funct3_ff>>
      /\ ram \in [WordIndex -> Word]
  BY DEF Negedge, memVars, requestVars, TypeOK, RamTypeOK
<1>2. StorePosted' = StorePosted
  BY <1>1 DEF StorePosted
<1>3. SUFFICES ASSUME NEW a \in Addr PROVE ArchMem'[a] = ArchMem[a]
  BY DEF ArchMem
<1> DEFINE i == (a - address_reg) % AddrSize
<1> DEFINE o == Offset(a)
<1>4. SUFFICES ~(StorePosted /\ i < Size(funct3_ff))
               => ram'[WordOf(a)][o] = ram[WordOf(a)][o]
  BY <1>1, <1>2 DEF ArchMem
<1>5. CASE ram' = ram
  BY <1>5
<1>6. CASE data_bus_state = "UWRITE1" /\ ~mem_ack
           /\ ram' = [ram EXCEPT ![FirstWord] = new_data_1]
  <2>1. StorePosted /\ o \in 0 .. 3 /\ WordOf(a) \in WordIndex /\ FirstWord \in WordIndex
    BY <1>6, AddrParts, TwoWords DEF StorePosted, StoreStates
  <2>2. WordOf(a) # FirstWord => ram'[WordOf(a)] = ram[WordOf(a)]
    BY <1>1, <1>6, <2>1
  <2>3. WordOf(a) = FirstWord => ram'[WordOf(a)] = new_data_1
    BY <1>1, <1>6, <2>1
  <2>4. WordOf(a) = FirstWord /\ ~(i < Size(funct3_ff)) => ~Touched(o)
    BY <1>6, StoreBytes
  <2>5. ~Touched(o) => new_data_1[o] = ram[FirstWord][o]
    BY <1>6, <2>1, Merged DEF TypeOK, WindowInv, WriteStates
  <2> QED BY <2>1, <2>2, <2>3, <2>4, <2>5
<1>7. CASE data_bus_state = "UWRITE2" /\ ~mem_ack
           /\ ram' = [ram EXCEPT ![SecondWord] = new_data_2]
  <2>1. StorePosted /\ o \in 0 .. 3 /\ WordOf(a) \in WordIndex /\ SecondWord \in WordIndex
    BY <1>7, AddrParts, TwoWords DEF StorePosted, StoreStates
  <2>2. WordOf(a) # SecondWord => ram'[WordOf(a)] = ram[WordOf(a)]
    BY <1>1, <1>7, <2>1
  <2>3. WordOf(a) = SecondWord => ram'[WordOf(a)] = new_data_2
    BY <1>1, <1>7, <2>1
  <2>4. unaligned_ff
    BY <1>7 DEF WindowInv
  <2>5. WordOf(a) = SecondWord /\ ~(i < Size(funct3_ff)) => ~Touched(o + 4)
    BY <1>7, <2>4, StoreBytes
  <2>6. ~Touched(o + 4) => new_data_2[o] = ram[SecondWord][o]
    BY <1>7, <2>1, <2>4, Merged DEF TypeOK, WindowInv, WriteStates
  <2> QED BY <2>1, <2>2, <2>3, <2>5, <2>6
<1> QED BY <1>5, <1>6, <1>7, RamWrites
\* A store that is done has put its bytes into the RAM.
LEMMA StoreDone ==
  ASSUME NWords > 1, TypeOK, BusInv, AccessInv, WindowInv, clk = "low",
         DataACK(data_CYC), data_bus_state \in WriteStates,
         data_bus_state = "UWRITE1" => ~unaligned_ff,
         NEW a \in Addr, (a - address_reg) % AddrSize < Size(funct3_ff)
  PROVE  ram[WordOf(a)][Offset(a)] = store_data_reg[(a - address_reg) % AddrSize]
<1>1. /\ ram[FirstWord] = new_data_1
      /\ unaligned_ff => ram[SecondWord] = new_data_2
  BY Answered DEF WindowInv, WriteStates
<1>2. data_bus_state # "NO_CMD"
  BY DEF WriteStates
<1> QED BY <1>1, <1>2, StoreBytes

\* A rising edge changes the memory the program sees only by posting a store.
LEMMA MemoryPosedge ==
  ASSUME NWords > 1, TypeOK, BusInv, PowerOnInv, AccessInv, WindowInv, Posedge,
         ~(mem_ack /\ data_bus_state \in StoreStates)
  PROVE  ArchMem' = ArchMem
<1>1. clk = "low" /\ ram' = ram
  BY DEF Posedge, RamPosedge
<1>2. CASE ~StorePosted /\ ~StorePosted'
  BY <1>1, <1>2 DEF ArchMem
<1>3. CASE StorePosted' = StorePosted /\ UNCHANGED requestVars
  BY <1>1, <1>3 DEF ArchMem, requestVars
<1>4. CASE MemWriteDone /\ DataACK(data_CYC) /\ data_bus_state' = "NO_CMD"
  <2>1. /\ data_bus_state \in WriteStates /\ UNCHANGED requestVars
        /\ data_bus_state = "UWRITE1" => ~unaligned_ff
    BY <1>4 DEF MemWriteDone, MemStep, WriteStates
  <2>2. ~StorePosted'
    BY <1>4 DEF StorePosted, StoreStates
  <2>3. ASSUME NEW a \in Addr PROVE ArchMem'[a] = ArchMem[a]
    <3>1. ArchMem'[a] = ram[WordOf(a)][Offset(a)]
      BY <1>1, <2>2 DEF ArchMem
    <3> QED BY <1>1, <1>4, <2>1, <3>1, StoreDone, ArchByte
  <2> QED BY <2>3 DEF ArchMem
<1>5. CASE rst \/ MemIdle
           \/ MemAccept(ctl.memory_operation, IR.funct3, AddressLd, IR.data)
  <2>1. data_bus_state = "NO_CMD" /\ (data_bus_state' = "NO_CMD" \/ mem_ack')
    BY <1>5 DEF Posedge, MemPosedge, MemReset, MemIdle, MemAccept, PowerOnInv,
                MemReadRequest, MemWriteRequest, MemReadFirst, MemReadSecond, MemWriteDone
  <2> QED BY <1>2, <2>1 DEF StorePosted, StoreStates
<1>6. CASE MemReadRequest \/ MemWriteRequest
  <2>1. data_bus_state' = data_bus_state /\ ~mem_ack' /\ UNCHANGED requestVars
    BY <1>6 DEF MemReadRequest, MemWriteRequest, MemStep
  <2>2. StorePosted' = StorePosted
    BY <2>1 DEF StorePosted
  <2> QED BY <1>3, <2>1, <2>2
<1>7. CASE DataACK(data_CYC)
           /\ (MemReadFirst(ReadData) \/ MemReadSecond(ReadData) \/ MemWriteDone)
  <2>1. ~mem_ack /\ ~mem_ack' /\ UNCHANGED requestVars
    BY <1>7 DEF DataACK, AccessInv, MemReadFirst, MemReadSecond, MemWriteDone, MemStep
  <2>2. \/ data_bus_state \in StoreStates /\ data_bus_state' \in StoreStates
        \/ data_bus_state \notin StoreStates /\ data_bus_state' \notin StoreStates
        \/ MemWriteDone /\ data_bus_state' = "NO_CMD"
    BY <1>7
    DEF MemReadFirst, MemReadSecond, MemWriteDone, StoreStates, WriteStates
  <2> QED BY <1>2, <1>3, <1>4, <1>7, <2>1, <2>2 DEF StorePosted
<1> QED BY <1>5, <1>6, <1>7 DEF Posedge, MemPosedge

\* A store is posted with the address and the data of its instruction.
LEMMA MemoryStore ==
  ASSUME TypeOK, BusInv, AcceptedIsCurrent, PowerOnInv, AccessInv, Posedge,
         mem_ack, data_bus_state \in StoreStates
  PROVE  ArchMem' = [a \in Addr |->
                       IF (a - IR.addr) % AddrSize < Size(IR.funct3)
                       THEN IR.data[(a - IR.addr) % AddrSize] ELSE ArchMem[a]]
<1>1. /\ Execute /\ ~data_CYC /\ data_bus_state \in {"READ_W1", "UWRITE1"}
      /\ store_data_reg = IR.data /\ ~rst
      /\ address_reg = IR.addr /\ funct3_ff = IR.funct3
  BY DEF AccessInv, AcceptedIsCurrent, StoreStates, PowerOnInv
<1>2. MemReadRequest \/ MemWriteRequest
  BY <1>1
  DEF Posedge, MemPosedge, MemIdle, MemAccept, DataACK
<1>3. /\ data_bus_state' = data_bus_state /\ ~mem_ack' /\ UNCHANGED requestVars
      /\ ram' = ram
  BY <1>2 DEF MemReadRequest, MemWriteRequest, MemStep, Posedge, RamPosedge
<1>4. StorePosted' /\ ~StorePosted
  BY <1>3 DEF StorePosted
<1>5. ASSUME NEW a \in Addr
      PROVE  ArchMem'[a] = IF (a - IR.addr) % AddrSize < Size(IR.funct3)
                           THEN IR.data[(a - IR.addr) % AddrSize] ELSE ArchMem[a]
  BY <1>1, <1>3, <1>4 DEF ArchMem, requestVars
<1> QED BY <1>5 DEF ArchMem

\* The bytes a load returns are those of the memory from its address on.
LEMMA MemoryLoad ==
  ASSUME NWords > 1, TypeOK, AccessInv, Loaded
  PROVE  LoadData = Extend(funct3_ff, [i \in 0 .. 3 |-> ArchMem[Plus(address_reg, i)]])
<1> DEFINE n == Size(funct3_ff)
<1> DEFINE s == Offset(address_reg)
<1>1. /\ address_reg \in Addr /\ funct3_ff \in Funct3 /\ Aligned(funct3_ff, address_reg)
      /\ unaligned_ff = Unaligned(funct3_ff, address_reg)
      /\ ~StorePosted
  BY DEF TypeOK, MemTypeOK, AccessInv, Loaded, StorePosted, StoreStates
<1>2. /\ s \in 0 .. 3 /\ n \in {1, 2, 4}
      /\ n = 4 => s \notin {1, 2}
      /\ s >= 3 /\ n # 1 => unaligned_ff
  <2>1. s \in 0 .. 3 /\ n \in {1, 2, 4}
    BY <1>1, AddrParts, SizeType
  <2>2. n = 4 => s \notin {1, 2}
    BY <1>1 DEF Aligned, Size, Funct3
  <2>3. s >= 3 /\ n # 1 => unaligned_ff
    BY <1>1 DEF Unaligned
  <2> QED BY <2>1, <2>2, <2>3
<1>3. ASSUME NEW i \in 0 .. 3, i < n
      PROVE  Window[s + i] = ArchMem[Plus(address_reg, i)]
  <2> DEFINE a == Plus(address_reg, i)
  <2>1. a \in Addr
    BY <1>1, PlusType
  <2>2. ArchMem[a] = ram[WordOf(a)][Offset(a)]
    BY <1>1, <2>1 DEF ArchMem
  <2>3. CASE s + i < 4
    <3>1. WordOf(a) = FirstWord /\ Offset(a) = s + i
      BY <1>1, <2>3, ByteAt DEF FirstWord
    <3>2. Window[s + i] = data_1[s + i]
      BY <1>2, <2>3 DEF Window
    <3> QED BY <2>2, <3>1, <3>2 DEF Loaded
  <2>4. CASE s + i >= 4
    <3>1. unaligned_ff
      BY <1>2, <1>3, <2>4
    <3>2. WordOf(a) = SecondWord /\ Offset(a) = (s + i) - 4
      BY <1>1, <2>4, ByteAt DEF SecondWord
    <3>3. Window[s + i] = data_2[(s + i) - 4]
      BY <1>2, <2>4 DEF Window
    <3> QED BY <2>2, <3>1, <3>2, <3>3 DEF Loaded
  <2> QED BY <1>2, <2>3, <2>4
<1> DEFINE window == [i \in 0 .. 3 |-> Window[s + i]]
<1> DEFINE bytes == [i \in 0 .. 3 |-> ArchMem[Plus(address_reg, i)]]
<1>4. \A i \in 0 .. 3 : i < n => window[i] = bytes[i]
  BY <1>3
<1>5. n - 1 \in 0 .. 3 /\ n - 1 < n
  BY <1>2
<1> HIDE DEF window, bytes
<1>6. Extend(funct3_ff, window) = Extend(funct3_ff, bytes)
  BY <1>4, <1>5 DEF Extend
<1> QED BY <1>6 DEF LoadData, window, bytes
-----------------------------------------------------------------------------
(* Every step of the core is a step of the architecture or a stutter.      *)

archVars == <<program, ArchPC, ArchMem, regfile, ArchCsr>>

\* The architecture does not see a falling edge.
LEMMA NegedgeStutters ==
  ASSUME NWords > 1, TypeOK, ScopeInv, Negedge
  PROVE  UNCHANGED archVars
<1>1. UNCHANGED <<program, regfile, fetchVars, trapVars>>
  BY DEF Negedge
<1>2. ArchPC' = ArchPC /\ ArchCsr' = ArchCsr
  BY <1>1 DEF ArchPC, ArchCsr, fetchVars, trapVars
<1> QED BY <1>1, <1>2, MemoryNegedge DEF archVars, ScopeInv

\* A register is written, and a CSR, in the cycle that ends an instruction.
LEMMA IdleOutputs ==
  ASSUME TypeOK, ScopeInv, clk = "low", ~Execute \/ ctl.busy
  PROVE  /\ ~ctl.trap_return /\ ~ctl.exeption /\ ~ctl.csr_wr
         /\ ~(ctl.regfile_wr /\ ctl.regfile_src = "LOAD_SRC")
         /\ ctl.busy => ~(mem_ack /\ IR.op = "STORE")
<1>1. CASE ~Execute
  <2>1. ctl = Quiet
    BY <1>1 DEF ScopeInv, DecideInv
  <2>2. /\ ~Quiet.trap_return /\ ~Quiet.exeption /\ ~Quiet.csr_wr /\ ~Quiet.busy
        /\ ~Quiet.regfile_wr
    BY DEF Quiet
  <2> QED BY <2>1, <2>2
<1>2. CASE Execute /\ ctl.busy
  BY <1>2, ZenonT(60) DEF ScopeInv, DecideInv, Interrupted, Decoded, Decision
<1> QED BY <1>1, <1>2

\* Nor does it see a rising edge at which no instruction ends: a fetch, or an access under way.
LEMMA IdleStutters ==
  ASSUME NWords > 1, TypeOK, BusInv, AcceptedIsCurrent, ScopeInv, Posedge,
         rst \/ ~Execute \/ ctl.busy
  PROVE  UNCHANGED archVars
<1>1. clk = "low" /\ program' = program /\ rst \in BOOLEAN
  BY DEF Posedge, TypeOK
<1>2. rst => ~Execute
  BY DEF ScopeInv, PowerOnInv, Execute
<1>3. /\ ~ctl.trap_return /\ ~ctl.exeption /\ ~ctl.csr_wr
      /\ ~(ctl.regfile_wr /\ ctl.regfile_src = "LOAD_SRC")
      /\ ctl.busy => ~(mem_ack /\ IR.op = "STORE")
  BY <1>1, <1>2, IdleOutputs
<1>4. regfile' = regfile
  BY <1>3 DEF Posedge, RegfilePosedge, ScopeInv, PowerOnInv
<1>5. ArchPC' = ArchPC
  <2>1. CASE rst
    BY <2>1 DEF Posedge, FetchPosedge, FetchReset, ScopeInv, PowerOnInv, ArchPC
  <2>2. CASE ~rst /\ ctl.busy
    BY <2>2 DEF Posedge, FetchPosedge, FetchHold, fetchVars, ArchPC
  <2>3. CASE ~rst /\ ~Execute
    BY <2>3, <2>2
    DEF Posedge, FetchPosedge, FetchExec, FetchInc, FetchTake, FetchRequest, Execute, ArchPC
  <2> QED BY <1>2, <2>1, <2>2, <2>3
<1>6. ArchCsr' = ArchCsr
  <2>1. CASE rst
    <3>1. /\ ~mstatus.MIE /\ mstatus' = [mstatus EXCEPT !.MIE = FALSE]
          /\ UNCHANGED <<mie, MSIP, mtvec, mepc, mcause>>
      BY <2>1 DEF Posedge, TrapPosedge, TrapReset, ScopeInv, PowerOnInv
    <3>2. mstatus'.MIE = mstatus.MIE /\ mstatus'.MPIE = mstatus.MPIE
      BY <3>1 DEF TypeOK, TrapTypeOK
    <3> QED BY <3>1, <3>2 DEF ArchCsr
  <2>2. CASE ~rst
    BY <1>3, <2>2 DEF Posedge, TrapPosedge, trapVars, ArchCsr
  <2> QED BY <2>1, <2>2
<1>7. ArchMem' = ArchMem
  <2>1. mem_ack => Execute
    BY DEF ScopeInv, AccessInv
  <2>2. ~(mem_ack /\ data_bus_state \in StoreStates)
    BY <1>2, <1>3, <2>1 DEF AcceptedIsCurrent
  <2> QED BY <2>2, MemoryPosedge DEF ScopeInv
<1> QED BY <1>1, <1>4, <1>5, <1>6, <1>7 DEF archVars

\* The architecture's operators are the core's, and its current instruction is the word at PC.
LEMMA ArchOperators ==
  /\ Arch!Instruction = program[WordOf(ArchPC)]
  /\ \A a, k : Arch!Plus(a, k) = Plus(a, k)
  /\ \A a : Arch!Offset(a) = Offset(a)
  /\ \A f, bytes : Arch!Extend(f, bytes) = Extend(f, bytes)
  /\ \A f : Arch!Size(f) = Size(f)
  /\ Arch!AddrSize = AddrSize
  /\ Arch!Addr = Addr
  BY DEF Arch!Instruction, Arch!WordOf, WordOf, Arch!Plus, Plus, Arch!Offset, Offset,
         Arch!Extend, Extend, Arch!Size, Size, Arch!AddrSize, AddrSize, Arch!Addr, Addr
\* What a cycle that ends an instruction does to the fetch unit ...
LEMMA FetchExecutes ==
  ASSUME TypeOK, BusInv, Posedge, ~rst, Execute, ~ctl.busy
  PROVE  /\ program' = program
         /\ ArchPC = PC
         /\ Arch!Instruction = IR
         /\ \E branch \in BOOLEAN :
              ArchPC' = IF Jump(branch) THEN JumpTarget ELSE Plus(PC, 4)
<1>1. program' = program /\ ArchPC = PC
  BY DEF Posedge, ArchPC, Execute
<1>2. Arch!Instruction = IR
  BY <1>1, ArchOperators DEF BusInv, FetchedFromPC
<1>3. PICK branch \in BOOLEAN : FetchExec(Jump(branch), JumpTarget)
  BY DEF Posedge, FetchPosedge, FetchInc, FetchTake, FetchRequest, Execute
<1>4. ArchPC' = IF Jump(branch) THEN JumpTarget ELSE Plus(PC, 4)
  BY <1>3 DEF FetchExec, ArchPC
<1> QED BY <1>1, <1>2, <1>4

\* ... and, unless it loads or stores, to the memory and the register.
LEMMA DataKept ==
  ASSUME NWords > 1, TypeOK, BusInv, AcceptedIsCurrent, ScopeInv, Posedge, ~rst, Execute
  PROVE  /\ ~(mem_ack /\ IR.op = "STORE") => ArchMem' = ArchMem
         /\ ~(ctl.regfile_wr /\ ctl.regfile_src = "LOAD_SRC") => regfile' = regfile
<1>1. mem_ack /\ data_bus_state \in StoreStates => IR.op = "STORE"
  BY DEF AcceptedIsCurrent
<1>2. ~(mem_ack /\ IR.op = "STORE") => ArchMem' = ArchMem
  BY <1>1, MemoryPosedge DEF ScopeInv
<1> QED BY <1>2 DEF Posedge, RegfilePosedge

\* Without a return, a trap or a CSR write the CSRs keep their values.
LEMMA CsrKept ==
  ASSUME Posedge, ~rst, ~ctl.trap_return, ~ctl.exeption, ~ctl.csr_wr
  PROVE  ArchCsr' = ArchCsr
  BY DEF Posedge, TrapPosedge, trapVars, ArchCsr

\* A record of the CSRs, an assignment to one of them, and what it makes of the record.
Csrs(a, b, c, d, e, f, g, h) ==
  [MIE |-> a, MPIE |-> b, MSIE |-> c, MTIE |-> d, MSIP |-> e, mtvec |-> f, mepc |-> g,
   mcause |-> h]

With(r, field, v) == [r EXCEPT ![field] = v]

\* An assignment changes its own field of the record of the CSRs and no other.
LEMMA CsrUpdate ==
  ASSUME NEW a, NEW b, NEW c, NEW d, NEW e, NEW f, NEW g, NEW h, NEW v
  PROVE  /\ With(Csrs(a, b, c, d, e, f, g, h), "MIE", v) = Csrs(v, b, c, d, e, f, g, h)
         /\ With(Csrs(a, b, c, d, e, f, g, h), "MPIE", v) = Csrs(a, v, c, d, e, f, g, h)
         /\ With(Csrs(a, b, c, d, e, f, g, h), "MSIE", v) = Csrs(a, b, v, d, e, f, g, h)
         /\ With(Csrs(a, b, c, d, e, f, g, h), "MTIE", v) = Csrs(a, b, c, v, e, f, g, h)
         /\ With(Csrs(a, b, c, d, e, f, g, h), "MSIP", v) = Csrs(a, b, c, d, v, f, g, h)
         /\ With(Csrs(a, b, c, d, e, f, g, h), "mtvec", v) = Csrs(a, b, c, d, e, v, g, h)
         /\ With(Csrs(a, b, c, d, e, f, g, h), "mepc", v) = Csrs(a, b, c, d, e, f, v, h)
         /\ With(Csrs(a, b, c, d, e, f, g, h), "mcause", v) = Csrs(a, b, c, d, e, f, g, v)
<1>1. With(Csrs(a, b, c, d, e, f, g, h), "MIE", v) = Csrs(v, b, c, d, e, f, g, h)
  BY DEF With, Csrs
<1>2. With(Csrs(a, b, c, d, e, f, g, h), "MPIE", v) = Csrs(a, v, c, d, e, f, g, h)
  BY DEF With, Csrs
<1>3. With(Csrs(a, b, c, d, e, f, g, h), "MSIE", v) = Csrs(a, b, v, d, e, f, g, h)
  BY DEF With, Csrs
<1>4. With(Csrs(a, b, c, d, e, f, g, h), "MTIE", v) = Csrs(a, b, c, v, e, f, g, h)
  BY DEF With, Csrs
<1>5. With(Csrs(a, b, c, d, e, f, g, h), "MSIP", v) = Csrs(a, b, c, d, v, f, g, h)
  BY DEF With, Csrs
<1>6. With(Csrs(a, b, c, d, e, f, g, h), "mtvec", v) = Csrs(a, b, c, d, e, v, g, h)
  BY DEF With, Csrs
<1>7. With(Csrs(a, b, c, d, e, f, g, h), "mepc", v) = Csrs(a, b, c, d, e, f, v, h)
  BY DEF With, Csrs
<1>8. With(Csrs(a, b, c, d, e, f, g, h), "mcause", v) = Csrs(a, b, c, d, e, f, g, v)
  BY DEF With, Csrs
<1> QED BY <1>1, <1>2, <1>3, <1>4, <1>5, <1>6, <1>7, <1>8

\* The CSRs as the architecture sees them are the trap unit's registers.
LEMMA ArchCsrFields ==
  /\ ArchCsr = Csrs(mstatus.MIE, mstatus.MPIE, mie.MSIE, mie.MTIE, MSIP, mtvec, mepc, mcause)
  /\ ArchCsr.MIE = mstatus.MIE /\ ArchCsr.MPIE = mstatus.MPIE
  /\ ArchCsr.MSIE = mie.MSIE /\ ArchCsr.MTIE = mie.MTIE /\ ArchCsr.MSIP = MSIP
  /\ ArchCsr.mtvec = mtvec /\ ArchCsr.mepc = mepc
  BY DEF ArchCsr, Csrs

\* What entering a trap does to the CSRs.
LEMMA TrapEnters ==
  ASSUME NEW cause, NEW pc, TrapEnter(cause, pc)
  PROVE  ArchCsr' = [ArchCsr EXCEPT !.MPIE = ArchCsr.MIE, !.MIE = FALSE, !.mepc = pc,
                                    !.mcause = cause]
<1>1. /\ mstatus'.MIE = FALSE /\ mstatus'.MPIE = mstatus.MIE
      /\ mcause' = cause /\ mepc' = pc /\ UNCHANGED <<mie, MSIP, mtvec>>
  BY DEF TrapEnter
<1>2. ArchCsr' = Csrs(FALSE, mstatus.MIE, mie.MSIE, mie.MTIE, MSIP, mtvec, pc, cause)
  BY <1>1 DEF ArchCsr, Csrs
<1> DEFINE off == FALSE
           r1 == With(ArchCsr, "MPIE", ArchCsr.MIE)
           r2 == With(r1, "MIE", off)
           r3 == With(r2, "mepc", pc)
<1>3. r1 = Csrs(mstatus.MIE, mstatus.MIE, mie.MSIE, mie.MTIE, MSIP, mtvec, mepc, mcause)
  BY ArchCsrFields, CsrUpdate
<1> HIDE DEF off, r1
<1>4. r2 = Csrs(off, mstatus.MIE, mie.MSIE, mie.MTIE, MSIP, mtvec, mepc, mcause)
  BY <1>3, CsrUpdate
<1> HIDE DEF r2
<1>5. r3 = Csrs(off, mstatus.MIE, mie.MSIE, mie.MTIE, MSIP, mtvec, pc, mcause)
  BY <1>4, CsrUpdate
<1> HIDE DEF r3
<1>6. With(r3, "mcause", cause)
        = Csrs(off, mstatus.MIE, mie.MSIE, mie.MTIE, MSIP, mtvec, pc, cause)
  BY <1>5, CsrUpdate
<1>7. [ArchCsr EXCEPT !.MPIE = ArchCsr.MIE, !.MIE = FALSE, !.mepc = pc, !.mcause = cause]
        = With(With(With(With(ArchCsr, "MPIE", ArchCsr.MIE), "MIE", FALSE), "mepc", pc),
               "mcause", cause)
  BY DEF With
<1> QED BY <1>2, <1>6, <1>7, Zenon DEF off, r1, r2, r3

\* An instruction an interrupt replaces is the architecture's interrupt step.
LEMMA InterruptRefines ==
  ASSUME NWords > 1, TypeOK, BusInv, AcceptedIsCurrent, ScopeInv, Posedge,
         ~rst, Execute, Interrupted
  PROVE  Arch!Next
<1>1. /\ ctl.exeption /\ ctl.interrupt /\ ~ctl.trap_return /\ ~ctl.regfile_wr /\ ~ctl.busy
      /\ ~(mem_ack /\ IR.op = "STORE")
      /\ mstatus.MIE
      /\ \/ ctl.cause = 3 /\ mie.MSIE /\ MSIP
         \/ ctl.cause = 7 /\ mie.MTIE /\ ~(mie.MSIE /\ MSIP)
  BY DEF Interrupted
<1>2. /\ program' = program /\ ArchPC = PC
      /\ ArchPC' = TrapAddress(TRUE, ctl.cause)
  BY <1>1, FetchExecutes DEF Jump, JumpTarget, TrapAddress
<1>3. ArchMem' = ArchMem /\ regfile' = regfile
  BY <1>1, DataKept
<1>4. TrapEnter(ctl.cause, PC)
  BY <1>1 DEF Posedge, TrapPosedge
<1>5. ArchCsr' = [ArchCsr EXCEPT !.MPIE = ArchCsr.MIE, !.MIE = FALSE, !.mepc = PC,
                                 !.mcause = ctl.cause]
  BY <1>4, TrapEnters
<1>6. /\ ArchCsr.MIE = mstatus.MIE /\ ArchCsr.MSIE = mie.MSIE /\ ArchCsr.MTIE = mie.MTIE
      /\ ArchCsr.MSIP = MSIP /\ ArchCsr.mtvec = mtvec
  BY DEF ArchCsr
<1>7. TrapAddress(TRUE, ctl.cause) =
        IF Arch!Offset(ArchCsr.mtvec) = 1 THEN Arch!Plus(Arch!MtvecBase, 4 * ctl.cause)
        ELSE Arch!MtvecBase
  BY <1>6, ArchOperators DEF TrapAddress, VECTORED, Arch!MtvecBase
<1>8. Arch!Interrupt
  <2>1. Arch!TrapTo(IF Arch!Offset(ArchCsr.mtvec) = 1
                    THEN Arch!Plus(Arch!MtvecBase, 4 * ctl.cause) ELSE Arch!MtvecBase,
                    ctl.cause)
    BY <1>2, <1>3, <1>5, <1>7 DEF Arch!TrapTo, Arch!Goto
  <2> QED BY <1>1, <1>6, <2>1 DEF Arch!Interrupt
<1> QED BY <1>2, <1>8 DEF Arch!Next

\* Instructions that touch neither the memory nor a CSR.
LEMMA FlowRefines ==
  ASSUME NWords > 1, TypeOK, BusInv, AcceptedIsCurrent, ScopeInv, Posedge,
         ~rst, Execute, Decoded, IR.op \in {"OP", "JAL", "JARL", "BRANCH"}
  PROVE  Arch!Next
<1>1. /\ ~ctl.exeption /\ ~ctl.trap_return /\ ~ctl.csr_wr /\ ~ctl.busy
      /\ ~(ctl.regfile_wr /\ ctl.regfile_src = "LOAD_SRC")
      /\ ctl.jump <=> IR.op \in {"JAL", "JARL"}
      /\ ctl.enable_branch <=> IR.op = "BRANCH"
      /\ IR.op # "OP" => ctl.jmp_target_src # "EPC"
  BY ZenonT(60) DEF Decoded, Decision
<1>2. PICK branch \in BOOLEAN :
        ArchPC' = IF Jump(branch) THEN JumpTarget ELSE Plus(PC, 4)
  BY <1>1, FetchExecutes
<1>3. /\ program' = program /\ ArchPC = PC /\ Arch!Instruction = IR
      /\ ArchMem' = ArchMem /\ regfile' = regfile /\ ArchCsr' = ArchCsr
  BY <1>1, FetchExecutes, DataKept, CsrKept
<1>4. CASE IR.op = "OP" \/ (IR.op = "BRANCH" /\ ~branch)
  <2>1. ArchPC' = Arch!Plus(ArchPC, 4)
    BY <1>1, <1>2, <1>3, <1>4, ArchOperators DEF Jump
  <2>2. Arch!Compute \/ Arch!BranchNotTaken
    BY <1>3, <1>4, <2>1
    DEF Arch!Compute, Arch!BranchNotTaken, Arch!Advance, Arch!Goto
  <2> QED BY <1>3, <2>2 DEF Arch!Next
<1>5. CASE IR.op \in {"JAL", "JARL"} \/ (IR.op = "BRANCH" /\ branch)
  <2>1. ArchPC' = IR.addr
    BY <1>1, <1>2, <1>5 DEF Jump, JumpTarget
  <2>2. Arch!Jump
    BY <1>3, <1>5, <2>1 DEF Arch!Jump, Arch!Goto
  <2> QED BY <1>3, <2>2 DEF Arch!Next
<1> QED BY <1>4, <1>5

\* The end of a load is the architecture's load: from the memory with the posted store in it.
LEMMA LoadRefines ==
  ASSUME NWords > 1, TypeOK, BusInv, AcceptedIsCurrent, LoadInv, ScopeInv, Posedge,
         ~rst, Execute, ~ctl.busy, Decoded, IR.op = "LOAD"
  PROVE  Arch!Next
<1>1. /\ ~ctl.exeption /\ ~ctl.trap_return /\ ~ctl.csr_wr
      /\ ~ctl.jump /\ ~ctl.enable_branch
      /\ ctl.regfile_wr /\ ctl.regfile_src = "LOAD_SRC"
  BY ZenonT(60) DEF Decoded, Decision
<1>2. /\ program' = program /\ ArchPC = PC /\ Arch!Instruction = IR
      /\ ArchPC' = Plus(PC, 4) /\ ArchMem' = ArchMem /\ ArchCsr' = ArchCsr
  BY <1>1, FetchExecutes, DataKept, CsrKept DEF Jump
<1>3. Loaded /\ address_reg = IR.addr /\ funct3_ff = IR.funct3
  BY <1>1 DEF Posedge, ScopeInv, ReceiveInv, LoadInv, LoadTakesOwnData
<1>4. regfile' = Extend(IR.funct3, [i \in 0 .. 3 |-> ArchMem[Plus(IR.addr, i)]])
  BY <1>1, <1>3, MemoryLoad DEF Posedge, RegfilePosedge, ScopeInv
<1>5. regfile' = Arch!Extend(IR.funct3, [i \in 0 .. 3 |-> ArchMem[Arch!Plus(IR.addr, i)]])
  BY <1>4, ArchOperators
<1>6. Arch!Load
  BY <1>2, <1>5, ArchOperators DEF Arch!Load, Arch!Advance, Arch!Goto
<1> QED BY <1>2, <1>6 DEF Arch!Next

\* The acceptance of a store is the architecture's store, long before the array is written.
LEMMA StoreRefines ==
  ASSUME NWords > 1, TypeOK, BusInv, AcceptedIsCurrent, ScopeInv, Posedge,
         ~rst, Execute, ~ctl.busy, Decoded, IR.op = "STORE"
  PROVE  Arch!Next
<1>1. /\ ~ctl.exeption /\ ~ctl.trap_return /\ ~ctl.csr_wr
      /\ ~ctl.jump /\ ~ctl.enable_branch /\ mem_ack
      /\ ~(ctl.regfile_wr /\ ctl.regfile_src = "LOAD_SRC")
  BY ZenonT(60) DEF Decoded, Decision
<1>2. /\ program' = program /\ ArchPC = PC /\ Arch!Instruction = IR
      /\ ArchPC' = Plus(PC, 4) /\ regfile' = regfile /\ ArchCsr' = ArchCsr
  BY <1>1, FetchExecutes, DataKept, CsrKept DEF Jump
<1>3. data_bus_state \in StoreStates
  BY <1>1 DEF AcceptedIsCurrent
<1>4. ArchMem' = [a \in Addr |->
                    IF (a - IR.addr) % AddrSize < Size(IR.funct3)
                    THEN IR.data[(a - IR.addr) % AddrSize] ELSE ArchMem[a]]
  BY <1>1, <1>3, MemoryStore DEF ScopeInv
<1>5. Arch!Store
  BY <1>2, <1>4, ArchOperators DEF Arch!Store, Arch!Advance, Arch!Goto
<1> QED BY <1>2, <1>5 DEF Arch!Next
\* The CSRs after a CSR instruction has written v.
Written(csr, v) ==
  CASE csr = "mstatus" -> [ArchCsr EXCEPT !.MIE = v.b3, !.MPIE = v.b7]
    [] csr = "mie"     -> [ArchCsr EXCEPT !.MSIE = v.b3, !.MTIE = v.b7]
    [] csr = "mip"     -> [ArchCsr EXCEPT !.MSIP = v.b3]
    [] csr = "mtvec"   -> [ArchCsr EXCEPT !.mtvec = v.adr]
    [] csr = "mepc"    -> [ArchCsr EXCEPT !.mepc = v.adr]
    [] csr = "mcause"  -> [ArchCsr EXCEPT !.mcause = v.adr]
    [] OTHER           -> ArchCsr

\* What a CSR instruction and a return do to the CSRs.
LEMMA CsrWrites ==
  ASSUME NEW csr, NEW v, TrapWrite(csr, v)
  PROVE  ArchCsr' = Written(csr, v)
<1>1. CASE csr = "mstatus"
  <2> DEFINE r == With(ArchCsr, "MIE", v.b3)
  <2>1. /\ mstatus'.MIE = v.b3 /\ mstatus'.MPIE = v.b7
        /\ UNCHANGED <<mie, MSIP, mtvec, mepc, mcause>>
    BY <1>1 DEF TrapWrite
  <2>2. ArchCsr' = Csrs(v.b3, v.b7, mie.MSIE, mie.MTIE, MSIP, mtvec, mepc, mcause)
    BY <2>1 DEF ArchCsr, Csrs
  <2>3. r = Csrs(v.b3, mstatus.MPIE, mie.MSIE, mie.MTIE, MSIP, mtvec, mepc, mcause)
    BY ArchCsrFields, CsrUpdate
  <2> HIDE DEF r
  <2>4. ArchCsr' = With(r, "MPIE", v.b7)
    BY <2>2, <2>3, CsrUpdate
  <2>5. [ArchCsr EXCEPT !.MIE = v.b3, !.MPIE = v.b7]
          = With(With(ArchCsr, "MIE", v.b3), "MPIE", v.b7)
    BY DEF With
  <2>6. Written(csr, v) = [ArchCsr EXCEPT !.MIE = v.b3, !.MPIE = v.b7]
    BY <1>1 DEF Written
  <2> QED BY <2>4, <2>5, <2>6, Zenon DEF r
<1>2. CASE csr = "mie"
  <2> DEFINE r == With(ArchCsr, "MSIE", v.b3)
  <2>1. /\ mie'.MSIE = v.b3 /\ mie'.MTIE = v.b7
        /\ UNCHANGED <<mstatus, MSIP, mtvec, mepc, mcause>>
    BY <1>2 DEF TrapWrite
  <2>2. ArchCsr' = Csrs(mstatus.MIE, mstatus.MPIE, v.b3, v.b7, MSIP, mtvec, mepc, mcause)
    BY <2>1 DEF ArchCsr, Csrs
  <2>3. r = Csrs(mstatus.MIE, mstatus.MPIE, v.b3, mie.MTIE, MSIP, mtvec, mepc, mcause)
    BY ArchCsrFields, CsrUpdate
  <2> HIDE DEF r
  <2>4. ArchCsr' = With(r, "MTIE", v.b7)
    BY <2>2, <2>3, CsrUpdate
  <2>5. [ArchCsr EXCEPT !.MSIE = v.b3, !.MTIE = v.b7]
          = With(With(ArchCsr, "MSIE", v.b3), "MTIE", v.b7)
    BY DEF With
  <2>6. Written(csr, v) = [ArchCsr EXCEPT !.MSIE = v.b3, !.MTIE = v.b7]
    BY <1>2 DEF Written
  <2> QED BY <2>4, <2>5, <2>6, Zenon DEF r
<1>3. CASE csr = "mip"
  BY <1>3 DEF TrapWrite, ArchCsr, Written
<1>4. CASE csr = "mtvec"
  BY <1>4 DEF TrapWrite, ArchCsr, Written
<1>5. CASE csr = "mepc"
  BY <1>5 DEF TrapWrite, ArchCsr, Written
<1>6. CASE csr = "mcause"
  BY <1>6 DEF TrapWrite, ArchCsr, Written
<1>7. CASE csr \notin {"mstatus", "mie", "mip", "mtvec", "mepc", "mcause"}
  BY <1>7 DEF TrapWrite, ArchCsr, Written
<1> QED BY <1>1, <1>2, <1>3, <1>4, <1>5, <1>6, <1>7

\* What MRET does to the CSRs.
LEMMA CsrReturns ==
  ASSUME TypeOK, TrapReturn
  PROVE  ArchCsr' = [ArchCsr EXCEPT !.MIE = ArchCsr.MPIE, !.MPIE = TRUE]
<1> DEFINE on == TRUE
           r == With(ArchCsr, "MIE", ArchCsr.MPIE)
<1>1. /\ mstatus'.MIE = mstatus.MPIE /\ mstatus'.MPIE = TRUE
      /\ UNCHANGED <<mie, MSIP, mtvec, mepc, mcause>>
  BY DEF TrapReturn, TypeOK, TrapTypeOK
<1>2. ArchCsr' = Csrs(mstatus.MPIE, TRUE, mie.MSIE, mie.MTIE, MSIP, mtvec, mepc, mcause)
  BY <1>1 DEF ArchCsr, Csrs
<1>3. r = Csrs(mstatus.MPIE, mstatus.MPIE, mie.MSIE, mie.MTIE, MSIP, mtvec, mepc, mcause)
  BY ArchCsrFields, CsrUpdate
<1> HIDE DEF on, r
<1>4. With(r, "MPIE", on)
        = Csrs(mstatus.MPIE, on, mie.MSIE, mie.MTIE, MSIP, mtvec, mepc, mcause)
  BY <1>3, CsrUpdate
<1>5. [ArchCsr EXCEPT !.MIE = ArchCsr.MPIE, !.MPIE = TRUE]
        = With(With(ArchCsr, "MIE", ArchCsr.MPIE), "MPIE", TRUE)
  BY DEF With
<1> QED BY <1>2, <1>4, <1>5, Zenon DEF on, r

\* A CSR write, MRET and an illegal instruction are those of the architecture.
LEMMA SystemRefines ==
  ASSUME NWords > 1, TypeOK, BusInv, AcceptedIsCurrent, InScope, ScopeInv, Posedge,
         ~rst, Execute, Decoded, IR.op \in {"CSRRW", "MRET", "ILLEGAL"}
  PROVE  Arch!Next
<1>1. /\ ctl.exeption <=> IR.op = "ILLEGAL"
      /\ ctl.exeption => ~ctl.interrupt /\ ctl.cause = ILLEGAL_INS
      /\ ctl.trap_return <=> IR.op = "MRET"
      /\ ctl.jump <=> IR.op = "MRET"
      /\ ~ctl.enable_branch /\ ~ctl.busy
      /\ IR.op = "MRET" => ctl.jmp_target_src = "EPC"
      /\ IR.op = "CSRRW" => ctl.csr_wr
      /\ ~(ctl.regfile_wr /\ ctl.regfile_src = "LOAD_SRC")
  BY ZenonT(60) DEF Decoded, Decision
<1>2. PICK branch \in BOOLEAN :
        ArchPC' = IF Jump(branch) THEN JumpTarget ELSE Plus(PC, 4)
  BY <1>1, FetchExecutes
<1>3. /\ program' = program /\ ArchPC = PC /\ Arch!Instruction = IR
      /\ ArchMem' = ArchMem /\ regfile' = regfile
  BY <1>1, FetchExecutes, DataKept
<1>4. CASE IR.op = "CSRRW"
  <2>1. ArchPC' = Arch!Plus(ArchPC, 4)
    BY <1>1, <1>2, <1>3, <1>4, ArchOperators DEF Jump
  <2>2. TrapWrite(IR.csr, IR.value)
    BY <1>1, <1>4 DEF Posedge, TrapPosedge
  <2>3. IR.csr # "readonly"
    BY <1>4 DEF InScope, Supported
  <2>4. ArchCsr' = Written(IR.csr, IR.value)
    BY <2>2, CsrWrites
  <2>5. Arch!WriteCsr
    BY <1>3, <1>4, <2>1, <2>3, <2>4
    DEF Arch!WriteCsr, Arch!Advance, Arch!Goto, Written
  <2> QED BY <1>3, <2>5 DEF Arch!Next
<1>5. CASE IR.op = "MRET"
  <2>1. ArchPC' = mepc
    BY <1>1, <1>2, <1>5 DEF Jump, JumpTarget
  <2>2. ArchCsr' = [ArchCsr EXCEPT !.MIE = ArchCsr.MPIE, !.MPIE = TRUE]
    BY <1>1, <1>5, CsrReturns DEF Posedge, TrapPosedge
  <2>3. Arch!Mret
    BY <1>3, <1>5, <2>1, <2>2, ArchCsrFields DEF Arch!Mret, Arch!Goto
  <2> QED BY <1>3, <2>3 DEF Arch!Next
<1>6. CASE IR.op = "ILLEGAL"
  <2>1. ArchPC' = mtvec
    BY <1>1, <1>2, <1>6 DEF Jump, JumpTarget, TrapAddress
  <2>2. TrapEnter(2, PC)
    BY <1>1, <1>6 DEF Posedge, TrapPosedge, ILLEGAL_INS
  <2>3. Arch!MtvecBase = mtvec
    <3>1. Offset(mtvec) = 0 /\ mtvec \in Int
      BY <1>6 DEF InScope, TypeOK, TrapTypeOK, Addr
    <3> QED BY <3>1, ArchOperators, ArchCsrFields DEF Arch!MtvecBase
  <2>4. Arch!TrapTo(Arch!MtvecBase, 2)
    BY <1>3, <2>1, <2>2, <2>3, TrapEnters DEF Arch!TrapTo, Arch!Goto
  <2>5. Arch!Exception
    BY <1>3, <1>6, <2>4 DEF Arch!Exception
  <2> QED BY <1>3, <2>5 DEF Arch!Next
<1> QED BY <1>4, <1>5, <1>6

-----------------------------------------------------------------------------

\* The core starts in an initial state of the architecture.
LEMMA IsaInit == Init => Arch!Init
<1> SUFFICES ASSUME Init PROVE Arch!Init
  OBVIOUS
<1>1. program \in [WordIndex -> Instr]
  BY ProgramsAssumption DEF Init
<1>2. ArchPC = 0 /\ regfile = ZeroWord
  BY DEF Init, FetchInit, ArchPC
<1>3. ArchMem \in [Addr -> Byte]
  <2>1. ~StorePosted /\ ram \in [WordIndex -> Word]
    BY InitialRamAssumption DEF Init, MemInit, RamInit, StorePosted, StoreStates
  <2>2. \A a \in Addr : ram[WordOf(a)][Offset(a)] \in Byte
    BY <2>1, AddrParts DEF Word
  <2> QED BY <2>1, <2>2 DEF ArchMem
<1>4. ArchCsr = [MIE |-> FALSE, MPIE |-> FALSE, MSIE |-> FALSE, MTIE |-> FALSE,
                 MSIP |-> FALSE, mtvec |-> 0, mepc |-> 0, mcause |-> 0]
  BY DEF Init, TrapInit, ArchCsr
<1>5. /\ Arch!WordIndex = WordIndex /\ Arch!Instr = Instr /\ Arch!ZeroWord = ZeroWord
      /\ Arch!Addr = Addr
  BY DEF Arch!WordIndex, WordIndex, Arch!Instr, Instr, Arch!ZeroWord, ZeroWord, Arch!Addr,
         Addr, Arch!AddrSize, AddrSize, Arch!Op, Op, Arch!Funct3, Funct3, Arch!Word, Word,
         Arch!Csr, Csr, Arch!CsrWord, CsrWord, Arch!Mode, Mode
<1> QED
  BY <1>1, <1>2, <1>3, <1>4, <1>5 DEF Arch!Init

\* Every step of the core is a step of the architecture or is not seen by it.
LEMMA IsaStep ==
  ASSUME NWords > 1, TypeOK, BusInv, AcceptedIsCurrent, LoadInv, InScope, ScopeInv,
         [Next]_vars
  PROVE  [Arch!Next]_archVars
<1>1. CASE UNCHANGED vars
  BY <1>1
  DEF vars, archVars, fetchVars, memVars, requestVars, trapVars, ramVars, ArchPC, ArchMem,
      ArchCsr, StorePosted
<1>2. CASE Negedge
  BY <1>2, NegedgeStutters
<1>3. CASE Posedge /\ (rst \/ ~Execute \/ ctl.busy)
  BY <1>3, IdleStutters
<1>4. CASE Posedge /\ ~rst /\ Execute /\ ~ctl.busy
  <2>1. Interrupted \/ Decoded
    BY <1>4 DEF Posedge, ScopeInv, DecideInv
  <2>2. IR.op \in {"OP", "JAL", "JARL", "BRANCH", "LOAD", "STORE", "CSRRW", "MRET", "ILLEGAL"}
    BY <1>4 DEF InScope, Supported, TypeOK, FetchTypeOK, Instr, Op
  <2> QED
    BY <1>4, <2>1, <2>2, InterruptRefines, FlowRefines, LoadRefines, StoreRefines,
       SystemRefines
<1> QED BY <1>1, <1>2, <1>3, <1>4 DEF Next
\* The core implements Isa while it stays in scope, whatever the timer and the data
\* are and for every size of the RAM: the handshakes between the units execute the
\* program one instruction at a time, each once, loads see every earlier store, and an
\* interrupt is taken between two instructions.
THEOREM IsaRefined ==
  ASSUME ResetInputs = {FALSE}, NWords > 1
  PROVE  Spec /\ []InScope => ImplementsIsa
<1>1. /\ TypeOK /\ BusInv /\ RequestInv /\ AcceptedIsCurrent /\ LoadInv /\ InScope
      /\ ScopeInv /\ [Next]_vars
      => [Arch!Next]_archVars
  BY IsaStep
<1>2. InScope => LoadUninterrupted
  BY DEF InScope
<1> QED
  BY <1>1, <1>2, IsaInit, TypeCorrect, BusCorrect, AcceptCorrect, LoadInvariant,
     ScopeInvariant, PTL
  DEF Spec, ImplementsIsa, Arch!Spec, Arch!isaVars, archVars
=============================================================================
