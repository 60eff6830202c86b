------------------------------ MODULE Emulator ------------------------------
(***************************************************************************)
(* The golden model of the verification testbench (model_verify/riscv.c    *)
(* and main.c, and the near copy in modelsim/): an RV32IM emulator whose   *)
(* processor and memory run by turns, one memory_run and one riscv_run per *)
(* turn of run_cycle's loop.  The processor posts its stores, and stalls   *)
(* for instruction words and loaded data.                                  *)
(***************************************************************************)
EXTENDS EmuAlu, RomImage

CONSTANTS
  Decode,     \* the instruction each word decodes to; see EmuDecode
  Images,     \* the programs: records words, file (their text), cycles
  Variants,   \* of {"model_verify", "modelsim"}, the two copies of riscv.c
  MaxSpins    \* bound: the cycles after which a run that never ends is cut off

ASSUME MaxSpinsAssumption == MaxSpins \in Nat
ASSUME VariantsAssumption == Variants \subseteq {"model_verify", "modelsim"}
\* What a word decodes to: an instruction of the table, or none.
Instr == [op : DOMAIN Opcodes \cup {"invalid"}, rd : Reg, rs1 : Reg, rs2 : Reg,
          imm : Int, csr : CsrId, uimm : 0 .. 31]

ASSUME DecodeAssumption == Decode \in [WordNum -> Instr] /\ Decode[0].op = "invalid"
ASSUME ImagesAssumption == \A i \in Images : i.cycles \in Nat

VARIABLES
  image,      \* the program under test
  variant,    \* the copy of riscv.c that is built
  at,         \* where main is: load, reset, main, memory, cpu, finished, crashed
  calls,      \* calls of run_cycle so far: main's i
  old_cycle,  \* run_cycle's local
  cycle_cnt,
  pc, regs, csr,
  stalled, read_dispatched, fetch_in_progress, current_instr,
  retired     \* history: instructions completed by this call of run_cycle

cpuVars == <<cycle_cnt, pc, regs, csr, stalled, read_dispatched,
             fetch_in_progress, current_instr, retired>>
vars == <<image, variant, at, calls, old_cycle, cpuVars, memVars, romVars>>

Init ==
  /\ image \in Images
  /\ variant \in Variants
  /\ file = image.file
  /\ at = "load" /\ calls = 0 /\ old_cycle = 0 /\ cycle_cnt = 0 /\ retired = 0
  /\ pc = 0 /\ regs = [r \in Reg |-> 0] /\ csr = [c \in CsrId |-> 0]
  /\ stalled = FALSE /\ read_dispatched = FALSE /\ fetch_in_progress = FALSE
  /\ current_instr = 0
  /\ MemoryInit /\ RomInit

-----------------------------------------------------------------------------
(* main                                                                    *)

\* memory_initialise: the region is cleared and the image read into it.
Load ==
  /\ at = "load"
  /\ ReadRom
  /\ at' = IF rom'.at = "end" THEN "reset" ELSE at
  /\ UNCHANGED <<image, variant, calls, old_cycle, cpuVars, queues, file>>

\* stalled, read_dispatched, fetch_in_progress and the CSRs keep their values.
RiscvReset ==
  /\ at = "reset"
  /\ MemoryReset
  /\ cycle_cnt' = 0 /\ pc' = 0 /\ regs' = [r \in Reg |-> 0]
  /\ at' = "main"
  /\ UNCHANGED <<image, variant, calls, old_cycle, csr, stalled, read_dispatched,
                 fetch_in_progress, current_instr, retired, ram, romVars>>

\* run_cycle is entered; main calls it 20 times, the testbench after every
\* instruction of the core.
RunCycle ==
  /\ at = "main" /\ calls < image.cycles
  /\ at' = "memory" /\ calls' = calls + 1 /\ old_cycle' = cycle_cnt /\ retired' = 0
  /\ UNCHANGED <<image, variant, cycle_cnt, pc, regs, csr, stalled, read_dispatched,
                 fetch_in_progress, current_instr, memVars, romVars>>

Finish ==
  /\ at = "main" /\ calls = image.cycles
  /\ at' = "finished"
  /\ UNCHANGED <<image, variant, calls, old_cycle, cpuVars, memVars, romVars>>

MemoryTurn ==
  /\ at = "memory" /\ MemoryRun
  /\ at' = "cpu"
  /\ UNCHANGED <<image, variant, calls, old_cycle, cpuVars, romVars>>

\* Mutant: the first call is not special.
LoopsAgainPlain(cnt) == cnt = old_cycle

\* The condition of run_cycle's two do-while loops.  In the first call the
\* loop also goes round while the counter is one, so that it ends with the
\* second instruction's fetch, like every later call.
LoopsAgain(cnt) == IF old_cycle = 0 THEN cnt = old_cycle + 1 ELSE cnt = old_cycle

-----------------------------------------------------------------------------
(* op_unified: the current instruction, with the CSRs as counted so far.   *)

NextI == Wrap(pc + 4)

Operand2(in, row) == IF row.op2_immediate THEN Wrap(in.imm) ELSE regs[in.rs2]

Result(in, row, counted) ==
  CASE row.alu_mode = "NEXT_I" -> NextI
    [] row.alu_mode = "PC_U20" -> Wrap(pc + in.imm)
    [] row.alu_mode = "U20"    -> Wrap(in.imm)
    [] row.alu_mode = "CSR"    -> counted[in.csr]
    [] OTHER -> Alu(row.alu_mode, regs[in.rs1], Operand2(in, row))

CsrResult(in, row, counted) ==
  LET c == counted[in.csr]
      r == regs[in.rs1]
  IN CASE row.csr_mode = "RW"  -> r
       [] row.csr_mode = "RS"  -> BitOr(c, r)
       [] row.csr_mode = "RC"  -> BitAnd(c, BitNot(r))
       [] row.csr_mode = "RWI" -> in.uimm
       [] row.csr_mode = "RSI" -> BitOr(c, in.uimm)
       [] row.csr_mode = "RCI" -> BitAnd(c, BitNot(in.uimm))
       [] OTHER -> 0

\* The register forms write only when rs1 is not x0.
WritesCsr(in, row) ==
  \/ row.csr_mode \in {"RWI", "RSI", "RCI"}
  \/ row.csr_mode \in {"RW", "RS", "RC"} /\ in.rs1 # 0

NextPc(in, row, res) ==
  CASE row.pc_mode = "NEXT_I"        -> NextI
    [] row.pc_mode = "COND_JUMP"     -> IF res # 0 THEN Wrap(pc + in.imm) ELSE NextI
    [] row.pc_mode = "COND_JUMP_INV" -> IF res # 0 THEN NextI ELSE Wrap(pc + in.imm)
    [] row.pc_mode = "REL_JUMP"      -> Wrap(pc + in.imm)
    [] row.pc_mode = "INDIRECT"      -> LET t == Wrap(regs[in.rs1] + in.imm) IN t - (t % 2)

\* Masked to the access size, then sign extended.
Loaded(row, data) ==
  LET fill == IF row.signed /\ data[row.bytes - 1] >= BYTE \div 2 THEN BYTE - 1 ELSE 0
  IN Number([i \in Lane |-> IF i < row.bytes THEN data[i] ELSE fill])

-----------------------------------------------------------------------------
(* riscv_run counts a cycle, runs do_op and, if it returns 1, counts time.  *)

Increment(c, low, high) ==
  LET n == Wrap(c[low] + 1)
  IN [c EXCEPT ![low] = n, ![high] = IF n = 0 THEN Wrap(@ + 1) ELSE @]

CountCycle == LET c == Increment(csr, "RDCYCLE", "RDCYCLEH")
              IN [c EXCEPT !["MCYCLE"] = c["RDCYCLE"]]
CountTime(c) == Increment(c, "RDTIME", "RDTIMEH")

\* do_op returns 0: nothing but the cycle is counted.
Fails(c) == csr' = c /\ UNCHANGED <<pc, regs, retired>>

\* do_op returns 1 without completing the instruction.
Waits(c) == csr' = CountTime(c) /\ UNCHANGED <<pc, regs, retired>>

\* do_op returns 1, all assignments from local to global variables made.
Completes(in, row, res, c) ==
  /\ regs' = IF row.store_result /\ in.rd # 0 THEN [regs EXCEPT ![in.rd] = res] ELSE regs
  /\ csr' = CountTime(IF WritesCsr(in, row)
                      THEN [c EXCEPT ![in.csr] = CsrResult(in, row, c)] ELSE c)
  /\ pc' = NextPc(in, row, res)
  /\ retired' = retired + 1

\* The two copies differ here: modelsim/riscv.c skips what model_verify's stays at.
RaiseException(c) ==
  IF variant = "model_verify" THEN Fails(c)
  ELSE /\ pc' = NextI /\ retired' = retired + 1 /\ csr' = CountTime(c)
       /\ UNCHANGED regs

Store(in, row, c) ==
  IF Full(writeReq)
  THEN /\ stalled' = TRUE /\ Waits(c)
       /\ UNCHANGED writeReq
  ELSE /\ stalled' = FALSE
       /\ MemoryWriteRequest(Wrap(regs[in.rs1] + in.imm), row.bytes, Bytes(regs[in.rs2]))
       /\ Completes(in, row, 0, c)

\* The first visit of a load queues the request and stalls.
RequestLoad(in, c) ==
  /\ stalled' = TRUE
  /\ IF Full(readReq) THEN UNCHANGED <<readReq, read_dispatched>>
     ELSE MemoryReadRequest(Wrap(regs[in.rs1] + in.imm)) /\ read_dispatched' = TRUE
  /\ Waits(c)

\* Mutant: the data is looked at and left in its queue.
TakeLoadPeeks(in, row, c) ==
  IF Empty(readData)
  THEN Waits(c) /\ UNCHANGED <<stalled, readData>>
  ELSE /\ stalled' = FALSE /\ UNCHANGED readData
       /\ Completes(in, row, Loaded(row, Front(readData)), c)

TakeLoad(in, row, c) ==
  IF Empty(readData)
  THEN Waits(c) /\ UNCHANGED <<stalled, readData>>
  ELSE /\ stalled' = FALSE /\ MemoryReadData
       /\ Completes(in, row, Loaded(row, Front(readData)), c)

\* The function of the first opcode that matches, on instruction in.
\* dispatched is read_dispatched, which decode has just cleared if it ran.
Execute(in, dispatched, c) ==
  LET row   == Opcodes[in.op]
      loads == row.memory_mode = "LOAD" /\ in.rd # 0
      traps == in.op \in Exceptions
  IN /\ UNCHANGED cycle_cnt
     /\ \/ /\ traps /\ RaiseException(c)
           /\ read_dispatched' = dispatched
           /\ UNCHANGED <<stalled, writeReq, readReq, readData>>
        \/ /\ row.memory_mode = "STORE" /\ Store(in, row, c)
           /\ read_dispatched' = dispatched
           /\ UNCHANGED <<readReq, readData>>
        \/ /\ loads /\ ~dispatched /\ RequestLoad(in, c)
           /\ UNCHANGED <<writeReq, readData>>
        \/ /\ loads /\ dispatched /\ TakeLoad(in, row, c)
           /\ read_dispatched' = dispatched
           /\ UNCHANGED <<writeReq, readReq>>
        \/ /\ ~traps /\ ~loads /\ row.memory_mode # "STORE"
           /\ ~DivideOverflows(row.alu_mode, regs[in.rs1], Operand2(in, row))
           /\ Completes(in, row, Result(in, row, c), c)
           /\ read_dispatched' = dispatched
           /\ UNCHANGED <<stalled, writeReq, readReq, readData>>

-----------------------------------------------------------------------------
(* do_op                                                                   *)

\* run_cycle's loop condition, after riscv_run.
NextTurn == at' = IF LoopsAgain(cycle_cnt') THEN "memory" ELSE "main"

Untouched == UNCHANGED <<stalled, read_dispatched, fetch_in_progress, current_instr>>

\* Nothing is fetched from an unaligned pc, so cycle_cnt stands still and
\* run_cycle's loop goes round for ever.
Misaligned(c) ==
  /\ pc % 4 # 0
  /\ Fails(c) /\ Untouched
  /\ UNCHANGED <<cycle_cnt, queues>>
  /\ NextTurn

\* The fetch is requested, or awaited.
AwaitFetch(c) ==
  /\ pc % 4 = 0
  /\ stalled => fetch_in_progress
  /\ fetch_in_progress => stalled \/ Empty(fetchData)
  /\ IF ~fetch_in_progress /\ Full(fetchReq)
     THEN Fails(c) /\ UNCHANGED <<fetchReq, fetch_in_progress, cycle_cnt>>
     ELSE /\ IF fetch_in_progress THEN UNCHANGED fetchReq ELSE MemoryFetchRequest(pc)
          /\ fetch_in_progress' = TRUE
          /\ cycle_cnt' = cycle_cnt + 1
          /\ Waits(c)
  /\ UNCHANGED <<stalled, read_dispatched, current_instr,
                 writeReq, readReq, readData, fetchData>>
  /\ NextTurn

Fetched == Number(Front(fetchData))

\* The word has arrived: decode it and execute it for the first time.
TakeFetch(c) ==
  /\ pc % 4 = 0 /\ ~stalled /\ fetch_in_progress /\ ~Empty(fetchData)
  /\ MemoryFetchData
  /\ fetch_in_progress' = FALSE
  /\ current_instr' = Fetched
  /\ UNCHANGED fetchReq
  /\ IF Decode[Fetched].op = "invalid"
     THEN /\ Fails(c)
          /\ read_dispatched' = FALSE
          /\ UNCHANGED <<stalled, cycle_cnt, writeReq, readReq, readData>>
     ELSE Execute(Decode[Fetched], FALSE, c)
  /\ NextTurn

\* The stalled instruction is executed again.
Retry(c) ==
  /\ pc % 4 = 0 /\ stalled /\ ~fetch_in_progress
  /\ Execute(Decode[current_instr], read_dispatched, c)
  /\ UNCHANGED <<fetch_in_progress, current_instr, fetchReq, fetchData>>
  /\ NextTurn

\* INT_MIN / -1 kills the simulator.
DivideTrap ==
  /\ at = "cpu" /\ pc % 4 = 0 /\ ~stalled /\ fetch_in_progress /\ ~Empty(fetchData)
  /\ LET in == Decode[Fetched]
     IN /\ in.op # "invalid"
        /\ DivideOverflows(Opcodes[in.op].alu_mode, regs[in.rs1], regs[in.rs2])
  /\ at' = "crashed"
  /\ UNCHANGED <<image, variant, calls, old_cycle, cpuVars, memVars, romVars>>

RiscvRun ==
  /\ at = "cpu" /\ csr["RDCYCLE"] < MaxSpins
  /\ LET counted == CountCycle
     IN \/ Misaligned(counted)
        \/ AwaitFetch(counted)
        \/ TakeFetch(counted)
        \/ Retry(counted)
  /\ UNCHANGED <<image, variant, calls, old_cycle, ram, romVars>>

Next == Load \/ RiscvReset \/ RunCycle \/ MemoryTurn \/ RiscvRun \/ DivideTrap \/ Finish

\* One sequential program: nothing but itself can delay it.
Spec == Init /\ [][Next]_vars /\ WF_vars(Next)

-----------------------------------------------------------------------------
(* Properties                                                              *)

IsFifo(q, Entry) ==
  /\ q.count \in 0 .. FifoSize
  /\ q.read_ptr \in 0 .. FifoSize - 1 /\ q.write_ptr \in 0 .. FifoSize - 1
  /\ q.entry \in [0 .. FifoSize - 1 -> Entry]
  /\ q.write_ptr = (q.read_ptr + q.count) % FifoSize

Request == [address : WordNum, mask : {0, 1, 2, 4}, data : WordBytes]

\* Every variable has its type, and each queue's pointers agree with its count.
TypeOK ==
  /\ at \in {"load", "reset", "main", "memory", "cpu", "finished", "crashed"}
  /\ calls \in 0 .. image.cycles /\ old_cycle \in Nat /\ cycle_cnt \in Nat
  /\ retired \in Nat
  /\ pc \in WordNum /\ regs \in [Reg -> WordNum] /\ csr \in [CsrId -> WordNum]
  /\ current_instr \in WordNum
  /\ {stalled, read_dispatched, fetch_in_progress} \subseteq BOOLEAN
  /\ ram \in [Location -> 0 .. BYTE - 1]
  /\ IsFifo(writeReq, Request)
  /\ IsFifo(readReq, WordNum) /\ IsFifo(fetchReq, WordNum)
  /\ IsFifo(readData, WordBytes) /\ IsFifo(fetchData, WordBytes)

\* The queues' answers carry no tag, so riscv.c relies on there being at most
\* one: a fetch is in flight exactly while fetch_in_progress, a load exactly
\* while its instruction is stalled, never both, and a posted store only
\* while nothing that could overtake it has been requested.
OneInFlight ==
  /\ fetchReq.count + fetchData.count = IF fetch_in_progress THEN 1 ELSE 0
  /\ readReq.count + readData.count = IF stalled THEN 1 ELSE 0
  /\ ~(stalled /\ fetch_in_progress)
  /\ stalled => read_dispatched
  /\ writeReq.count <= 1
  /\ writeReq.count = 1 => at = "memory" /\ ~fetch_in_progress /\ ~stalled

\* The memory as the next instruction sees it: with the posted store done.
ArchMem == IF Empty(writeReq) THEN ram ELSE Apply(ram, Front(writeReq))

\* The instruction at pc raises an exception or is no instruction.
AtException ==
  Decode[Number(ReadWord(ArchMem, pc))].op \in
    {"invalid"} \cup (IF variant = "model_verify" THEN Exceptions ELSE {})

\* The testbench calls run_cycle once for each instruction of the core and
\* then compares the registers: a call completes one instruction, no more and
\* no less, unless the instruction is one that never completes.
OneInstructionPerCycle ==
  at \in {"main", "finished"} /\ calls > 0 =>
    retired = 1 \/ (retired = 0 /\ AtException)

\* run_cycle returns to the testbench, unless the program has jumped to an
\* address that is not a multiple of 4 (see Misaligned) or divided INT_MIN by -1.
CycleReturns ==
  (at = "memory") ~> (at \in {"main", "crashed"} \/ pc % 4 # 0)

\* The queued, stalling emulator executes programs as the abstract machine
\* does, loaded from the same image.
Machine == INSTANCE EmuIsa WITH
  running <- at \notin {"load"},
  csr     <- csr["OTHER"],
  mem     <- IF at = "load" THEN [l \in Location |-> 0] ELSE ArchMem

ImplementsIsa == Machine!Spec
=============================================================================
