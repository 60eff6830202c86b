# A verification of VanilaCore in TLA+

VanilaCore is a RISC-V RV32I core in SystemVerilog (`src/core/*.sv`) with a small SoC
around it (`ZeltaSoC.sv`): one RAM shared by the fetch unit and the load/store unit, a UART,
a console, a timer. Beside the hardware the repository has two C programs: the emulator that
the verification testbench runs in step with the core as its golden model
(`model_verify/*.c`, copied with small changes to `modelsim/`), and the boot loader that runs
on the core (`c_code/bootloader`). This directory models the core and its memory as a
composition of clocked state machines, its serial devices, the emulator and the boot loader,
model-checks them with TLC, and proves their central invariants with TLAPS. Everything below refers to the files under `src/core` unless a path says otherwise.

## 1. The system

| Part (file) | State it keeps | Operations | Talks to |
|---|---|---|---|
| Fetch unit (`fetch_stm.sv`) | `PC`, `IR`, state `READ/EXEC/INC`, bus `CYC/ADR` | reset, hold, jump or go to INC, increment, request, take the word | control unit (`busy`, `jump`), arbiter |
| Control unit (`control_unit.sv`) | its registered outputs, `load_state` | one case per opcode, the interrupt path, idle, reset; falling edge | all units of the core |
| Load/store unit (`memory_access.sv`) | 7-state machine, latched request, two data words, `ack`, `data_valid`, the data bus | accept, read one or two words, merge, write one or two words | control unit (`cyc`/`ack`/`data_valid`), arbiter |
| Trap unit (`trap_unit.sv`) | privilege mode, trap CSRs | trap entry, MRET, CSR write, reset | control unit, fetch unit (`trap_address`, `mepc`) |
| Arbiter (`wishbone_arbitrer.sv`) | none | combinational grant, data bus first | both masters, RAM |
| RAM (`ram_wb.sv`, `ram.sv`) | registered acknowledge (rising edge), array and read address (falling edge) | acknowledge, read, write | arbiter |
| Composition (`core.sv`, `regfile.sv`) | register file | muxes between the units | |
| Decoder, ALU, branch unit (`decoder.sv`, `alu.sv`, `branch_unit.sv`) | none | combinational; driven alone by `verilator/alu_test/alu_test.cpp` | |
| CSR unit, counters (`csr_unit.sv`, `mcounters.sv`, `minfo.sv`) | counters and selectors | count, write, read | control unit (events) |
| FIFO (`fifo.sv`) | pointers, count, buffer, output | push, pop, reset, over both edges | UART, console |
| UART receiver (`uart_slave.sv`) | bit machine, bus acknowledge, FIFO | receive a byte, answer reads | bus, serial line |
| Console (`console.sv`) | bus machine, bit machine, FIFO | take a byte, send it | bus, serial line |
| Timer (`timer.sv`) | `mtime`, `mtimecmp` | count, answer accesses, interrupt line | bus, trap unit |
| SPI (`spi_controller.sv`) | registers, two FIFOs, shift machine | answer accesses, transfer | bus, device |
| Emulator, processor (`riscv.c`, `main.c`) | registers, CSRs, `pc`, `stalled`, `read_dispatched`, `fetch_in_progress`, cycle counter | reset, `run_cycle`: alternate memory and processor until one instruction completes | emulator's memory, testbench |
| Emulator, memory (`memory.c`, `memorymap.c`, `ram.c`) | five ring buffers of requests and answers, a region of bytes | queue a request, serve one request per `memory_run`, read the ROM file | emulator's processor |
| Boot loader (`bootloader.c`) | line buffer, `index`, `command_okay` | poll, echo, store, compare with the commands, dump | UART, console |
| Crossbar (`cross_bar.sv` and muxes) | registered select | route | unfinished: unconnected selects, and ports other than those `ZeltaSoC.sv` names |

What makes this hard is not any single machine but the handshakes between them. Units
answer each other across the two edges of one clock; acknowledges are one-cycle pulses
routed by whoever holds the bus *now*; stores are posted, so the next instruction runs
while the last one is still writing; reset clears some registers and leaves others; and an
interrupt can cut an instruction between any two of its steps. `PROJECT.json` lists these
hazards at the lines where they bite, with the properties that would catch them.

What each part must guarantee, and where it is stated:

* fetch: the instruction executed is the one at `PC` (`FetchedFromPC`);
* arbiter and RAM: an acknowledge is seen only by a master that has been served
  (`AckedRequestServed`), and the RAM changes only by stores (`NoStrayWrites`);
* control and load/store units: the access acknowledged is the one of the current
  instruction (`AcceptedIsCurrent`), a load gets its own data (`LoadTakesOwnData`), each
  instruction leaves the handshake ready for the next (`LoadReady`), nothing hangs
  (`InstructionsComplete`);
* FIFO: it is a bounded queue (`ImplementsQueue`); console: what it acknowledges is kept
  (`AcceptedNotDropped`) and heard by a terminal at its speed, once, in order (`HeardInOrder`,
  `EventuallyHeard`), and a reset garbles nothing that is sent after it (`HeardAfterReset`); receiver: it understands
  terminals of the speeds it should (`FramesReceived`, `StoredInTime`), stores each frame once
  (`StoredOnce`), and what software reads is what was stored (`ReadInOrder`); no access to
  either waits forever (`AccessesComplete`);
* all of the core: the program is executed one instruction at a time as the instruction set
  says (`ImplementsIsa`);
* decoder, ALU, branch unit: they agree with the golden model (`DecodersAgree`,
  `AgreesWithGolden`, `BranchesAgree`), and their test judges them rightly (`SoundBlocksPass`);
* emulator: what it executes is what was assembled (`DecodeInvertsAssemble`, `RowsExclusive`),
  each `run_cycle` completes one instruction and returns (`OneInstructionPerCycle`,
  `CycleReturns`), untagged answers cannot be confused (`OneInFlight`), and the whole is an
  instruction-set machine (`ImplementsIsa`);
* boot loader: the commands detected are those typed (`DetectsWhatIsTyped`), the buffer is
  overrun by one byte only and never silently (`OverrunReported`), each line is answered
  (`Prompts`).

## 2. The modules

| Module | Models | Correspondence |
|---|---|---|
| `CorePkg` | values: addresses, words, decoded instructions, CSR words | `Size`, `Extend`, `WordOf`, `Plus` are the byte and address arithmetic of the datapath |
| `FetchStm` | `fetch_stm.sv` | `FetchReset`, `FetchHold`, `FetchExec`, `FetchInc`, `FetchRequest`, `FetchTake`: the branches of its `always` block |
| `ControlUnit` | `control_unit.sv` | `ctl` is the record of its output registers; one action per opcode group, `TakeInterrupt`, `CtlIdle`, `CtlReset` |
| `MemoryAccess` | `memory_access.sv` | one action per kind of step: accept, request a read or write, first word, second word, write done, idle, reset |
| `TrapUnit` | `trap_unit.sv` | `TrapReset`, `TrapReturn`, `TrapEnter`, `TrapWrite`; `PendingInterrupts` and `TrapAddress` are its combinational outputs |
| `WishboneRam` | `wishbone_arbitrer.sv`, `ram_wb.sv`, `ram.sv` | `Arb*`, `*ACK` are the assigns; `RamPosedge`, `RamNegedge` the clocked blocks |
| `Core` | `core.sv` with its memory, as `ZeltaSoC.sv` connects them | `Posedge` and `Negedge` alternate; each conjoins the units clocked by that edge and passes them the wires |
| `Isa` | what programs rely on | an abstract machine: one instruction per step, a flat byte memory, machine-mode traps |
| `Fifo` | `fifo.sv` | `FifoPosedge` counts (both pointers and the counter), `FifoNegedge` is the array and the output register |
| `FifoClient` | the FIFO with an arbitrary client | requests, data and reset change at the rising edge |
| `BoundedQueue` | what a FIFO promises | put, take, both at once, clear |
| `Console` | `console.sv` | `ConsoleBus` and `Transmit` are its two state machines, each state an action |
| `UartSlave` | `uart_slave.sv` | `UartBus` and `Receive` likewise |
| `Serial` | both devices as `ZeltaSoC.sv` connects them, each with its pin and its bit length; the bus master; a terminal on `tx` | `Master` is `memory_access.sv` with aligned words; `Debounce` the least length of a reset (`debounce.sv`); `Terminal` (not in `src`) samples each bit of `tx` in its middle; `rx` is any level at any clock; `Record` keeps the histories |
| `UartLine` | the receiver and a terminal | the terminal (not in `src`) sends frames of ten bits |
| `EmuPkg` | the emulator's values | words as numbers and as four bytes, bitwise operators, a decoded instruction |
| `EmuAlu` | `op_unified`'s arithmetic and the parameters of `opcodes[]` | `Alu` is the switch on `alu_mode`; `Opcodes` the table's modes |
| `EmuMemory` | `memory.c`, `memorymap.c`, `ram.c` | the queues; `ServeWrite`, `ServeRead`, `ServeFetch` are the branches of `memory_run`; `ReadWord`, `WriteWord` the split accesses |
| `RomImage` | `generate_rom.py`, `attempt_to_read` of `ram.c` | the text of the image, and its parser, one character per step |
| `Emulator` | `riscv.c`, `main.c`, both copies | `MemoryTurn` and `RiscvRun` alternate as in `run_cycle`; `AwaitFetch`, `TakeFetch`, `Retry` are the paths through `do_op`, `Execute` is `op_unified` |
| `EmuIsa` | what the testbench relies on | one RV32IM instruction per step on a flat memory, defined bit by bit |
| `EmuDecode` | `riscv_initialise`, `decode`, the search in `do_op` | the table's patterns compiled to masks and values; the fields by the code's masks and shifts; `Assemble` and `Name` are the RISC-V manual's encoding (not in `src`) |
| `CoreDecode` | `decoder.sv`, the extensions in `core.sv` | one operator per immediate |
| `CoreAlu` | `alu.sv`, `branch_unit.sv` | `Rd`, `Branch` |
| `AluTest` | `alu_test.cpp`, and the ALU as the core drives it | one operator per block of the test |
| `Bootloader` | `bootloader.c` with a receiver that a terminal fills | `Read`, `Store`, `EndLine`, `Dump` are the parts of `main`'s loop |
| `MCCore`, `MCSerial`, `MCUartLine`, `MCEmulator`, `MCDecode`, `MCAluTest`, `MCBootloader` | the instances | programs and data of the runs |
| `CoreProofs`, `FifoProofs`, `SerialProofs`, `UartLineProofs`, `BootloaderProofs`, `EmulatorProofs`, `DecodeProofs`, `CoreAluProofs` | | the proofs, section 4 |

**Clock.** Every unit but the control unit and the RAM array is clocked by the rising edge;
those two by the falling edge. A unit's action has its inputs as parameters; `Core` passes
the wire values *before* the edge, as flip-flops sample them. (The sources use blocking
assignments in clocked blocks, so an event-driven simulator could order two units' blocks of
one edge either way. The model is of the synthesised design, for which the Quartus project
in `RTL/` exists, where the order has no effect.)

**Instructions** are records with their operands resolved (target or access address, store
data, CSR value). The register file, the ALU and the branch comparison are thereby
abstracted: a branch is taken or not nondeterministically, and loads write one register of
their own, `regfile`, which is what the load properties look at. **Code and data** lie in
different RAM words (`program` and `ram`); self-modifying code is not modelled. **CSR
words** are projected on the bits the trap unit uses. **Initial state.** `Init` is the state
after the first rising edge of the power-on reset, registers that reset leaves alone being
zero. `rst` and `timer_irq` are registered by the rising edge in `debounce.sv` and
`timer.sv`, so they change there and are otherwise arbitrary; in `Serial` a reset lasts, as
from the debouncer, more than `RESET_CLOCKS` clocks.

**The refinement.** `Core` implements `Isa` under the mapping at the end of `Core`: an
instruction counts as executed at the rising edge at which the fetch unit leaves EXEC; `pc`
is already incremented in state INC; and `mem` contains a store from then on, though the RAM
still holds the old bytes (`ArchMem`). `FifoClient` implements `BoundedQueue`: requests take
effect at the falling edge, where the output changes, although they are counted only at the
next rising edge, so the mapping counts them as done while the clock is low (`Queue`).

**The emulator** is one sequential program, so its interleaving is that of its own loop: one
step is one `memory_run`, one `riscv_run`, or one character of the ROM file. A byte has
`ByteBits` bits, so words, addresses and counters wrap at a size that TLC can reach; which
word decodes to which instruction is a parameter (`Decode`) of `Emulator` and the subject of
`EmuDecode`, where words have their 32 bits. The two copies of `riscv.c` differ in what
ECALL, EBREAK and unknown instructions do, which the variable `variant` keeps (messages
apart, nothing else that the model sees differs). `PROJECT.json` maps some
definitions to one copy and some to the other. `Emulator` implements `EmuIsa` with the
posted store counted as done (`ArchMem`), each `Completes` being one step of the machine.
Division of the most negative number by -1 traps on the hosts this is built for; the model
goes to `crashed`.

**The boot loader**'s buffer is modelled with the byte that follows it, which the store
before the length test can reach. Its locals are not initialised and start with any contents.
The receiver gives one character per read or, when two are stored, removes two (see
`read_twice`).

**The serial devices** share nothing but the bus: `ZeltaSoC.sv:77-82` takes `tx` and `rx` to
separate pins, and their bits differ. `uart_slave.sv:18` computes 217 from the baud rate, so a bit of the
receiver is 218 clocks; in `console.sv:17` the same expression is commented out and
`DELAY_CLOCKS` is 1, so a bit of the console is 2 clocks. `Serial` has a constant for each.
Bytes are numbers of `DATA_WIDTH` bits, because which bit is sampled when is what the serial
properties are about. Six histories, all since the last reset, occur in no guard but the bounds
on bytes and frames: `stale` (what the reset left to be sent: a byte whose write
`con_wr` it leaves up, and one whose request it leaves on the bus), `sent` (acknowledged
by the console), `heard` (frames whose stop bit the terminal saw), `framed` (frames the receiver
took in), `got` (stored in its FIFO), `taken` (read by the program).

## 3. What the runs check

| Run | Instance | States | Shows |
|---|---|---|---|
| `isa` | 4 words of RAM, timer at any edge: all programs of two loads or stores at supported alignments, and programs of CSR writes, jumps, branches, MRET, illegal instructions | 949,394 | `ImplementsIsa`, `InstructionsComplete`, `LoadReady`, `LoadTakesOwnData` |
| `mixed` | 4 words, loads, stores, CSR, SYSTEM, jumps; timer and reset at any edge | 2,372,502 | `TypeOK`, `FetchedFromPC`, `AckedRequestServed`, `AcceptedIsCurrent`, `NoStrayWrites` |
| `fifo` | 4 slots, 3 values, any requests and resets | 77,112 | `TypeOK`, `PointersAgree`, `ImplementsQueue` |
| `console` | the source's 7 bits, bits of 2 and 218 clocks and reset time, console FIFO of 2 bytes; 4 bytes written, reads of the receiver in between | 24,996 | `AcceptedNotDropped`, `HeardInOrder`, `EventuallyHeard`, `AccessesComplete` |
| `reset` | resets at any edge, any level on `rx`, bytes of 1 bit, bits of 2 clocks; 2 bytes written, 1 frame received since a reset | 3,871,472 | `TypeOK`, `HeardAfterReset`, `StoredOnce` |
| `baud` | the real 217 clocks and 7 bits; two frames, terminals of 205, 217, 218 clocks | 320,156 | `FramesReceived`, `StoredInTime` |
| `load_wrong_data` | violated: `LoadTakesOwnData` | | the handler's first load takes the abandoned load's data |
| `read_twice` | violated: `ReadInOrder` | | one read of DATA removes two bytes |
| `emulator` | words of 8 bits, 3 registers, a region of 23 bytes, queues of 2; both copies; programs of a base and two accesses, of an operand and two instructions, and odd images | 438,506 | `TypeOK`, `OneInFlight`, `OneInstructionPerCycle`, `ImplementsIsa`, `CycleReturns` |
| `decode` | 32-bit words; every major opcode and funct3, boundary immediates and each single bit | 10,539 | `DecodeInvertsAssemble`, `DecodersAgree`, `RowsExclusive` |
| `bootloader` | 5 characters, a buffer of 3, two commands of which one begins the other, a receiver of 2 | 765,948 | `TypeOK`, `DetectsWhatIsTyped`, `OverrunReported`, `Prompts` |
| `alu` | words of 16 bits; 2000 rounds of the test, every operation on 18 boundary operands | 30,157 | `AgreesWithGolden`, `BranchesAgree`, `SoundBlocksPass` |

**Bounds.** The access programs of `isa` work on the last two words of RAM, which hold every
alignment, a word crossing into the next, and the wrap-around to address 0. Programs of two accesses,
executed in a loop because PC wraps, contain every ordered pair (load after posted store, store after store, ...) and a posted
store needs at most four bus accesses, so no third access can be affected. Every byte of the
initial RAM is different, and half of them are negative, so a wrong byte or a wrong
extension shows. Four-instruction trap programs suffice for entry, handler, return and a
nested trap. Byte values and addresses are otherwise unbounded in the proofs.

For the devices: a FIFO of four slots has every combination of limits and wraps. In `console`
four bytes fill the console (one being sent, two stored, one waiting at the bus); the
two words have complementary bits, so a bit sampled twice or left out shows. In `reset`
`RESET_CLOCKS` (6) is the length of a frame on `tx`, the shortest that `TerminalAssumption` allows:
a reset outlasts the frame it cuts, so the terminal is idle when the console sends again. (The
debouncer's 2^20 - 1 clocks outlast the frame of 18 clocks by far.) Two bytes
and the two that a reset leaves are more than the console's FIFO of two holds; on `rx`
one frame since a reset, or the byte that the reset left with `wr` up, is stored; a short start
bit or a reset within a frame is among the levels. (A frame that follows such a byte is left to
the proof of `StoredOnce`.) The receiver looks for a start bit
afresh after each frame, so in `baud` two frames show what one does to the next, and the periods
205 and 218 are the extreme ones: with 204 or 219 clocks TLC finds `FramesReceived`
violated (at 219, one percent slower than the nominal 217, the receiver is done before the
eighth bit and takes it for a start bit when it is 0, as in every ASCII character).

In `emulator` a region of 23 bytes ends, like the code's 0xfffff, one byte short of a word;
bases reach every alignment, its end, the space behind it and the wrap of addresses. Queues of
two wrap, and `OneInFlight` (proved for every size) says that more is never used. `MaxSpins`
cuts off a call of `run_cycle` that never ends, which a misaligned `pc` causes
(`riscv.c:501`); `CycleReturns` names that case. In `decode`, each bit of each immediate
appears alone, so a misplaced bit shows, and the extremes show a wrong extension; that rows
exclude each other is a fact about the compiled table, whatever word comes, and all three
properties are proved for every instruction (section 4). In `bootloader` a line can be shorter than, as long as and longer than
the buffer, and the second command is the first with a character more, so every stale place
of the buffer could make a wrong match. In `alu` words of 16 bits are the narrowest in which
the test's 23214 is positive; `size_t` is wider than a word as in the test.

**What the passing runs leave out, on purpose.** The access programs of `isa` have only the
alignments the unit supports and no enabled interrupt, and its trap programs no load or
store. With the others `ImplementsIsa` fails, because the code departs from the instruction
set in these ways:

* a load that an interrupt cuts leaves `load_state` in `RECIEVE_DATA` (`control_unit.sv:161`),
  which is the run `load_wrong_data`;
* a store that an interrupt cuts after the load/store unit accepted it, but before the
  control unit sees the acknowledge, is executed again after MRET, against
  "Load and store cycles are atomic" (`memory_access.sv:31`);
* a word load at byte 1 or 2 takes the bytes of the next word from the last second word read:
  only byte 3 counts as unaligned (`memory_access.sv:62`);
* ECALL and EBREAK do not trap: `control_unit.sv:696` takes back the exception that
  "should make a software exeption" (`control_unit.sv:506`);
* set and clear forms of CSR instructions behave as writes (`control_unit.sv:692`).

Interrupted loads and stores, ECALL and EBREAK occur in `mixed`, whose invariants hold with
them. The CSR instructions of `isa`
are writes with a nonzero source.

Of the serial devices, three things are out of the passing runs because they go wrong:

* the console at its baud rate: `console.sv:16` says 115200, but a terminal with that rate
  (`LISTEN_CLOCKS = 217`) misunderstands bits of 2 clocks, and with it TLC finds
  `HeardInOrder` violated (the first frame heard is garbage). `HeardInOrder` is about a terminal
  whose bit is 2 clocks, `CONSOLE_DELAY + 1`. With `DELAY_CLOCKS = FREQUENCY/BAUD_RATE` in the
  console a bit would be 218 clocks, which the receiver of another board tolerates (`baud`);
* the receiver's full FIFO: `wr` stays up while the receiver waits for room
  (`uart_slave.sv:171`), and the byte read that makes room makes it store the last one again. With
  `MEMORY_DEPTH = 2` and `MaxTyped = 2` TLC finds `StoredOnce` violated; the run has fewer frames
  than slots, and 31 bytes (the code has 32 slots) have to be unread for it to happen;
* a console FIFO of two slots: what a reset leaves fills it, and the byte after is
  dropped, so `CONSOLE_DEPTH` is 3 (the code has 32).

The abstract machine `EmuIsa` follows the emulator where it departs from RISC-V, and says
so at the place: MULH and MULHSU multiply unsigned, a remainder by zero is all ones, CSRRW
from x0 does not write, counters can be written, loads outside the region read zero, and a
split store at the end of the region is half done. `DIV` of the most negative number by -1
is left to `crashed`. Two of the twelve blocks of `alu_test.cpp` report failures of a right
unit: line 110 compares a 32-bit result with a `size_t`, and line 128 expects 4 of `i << i`.
`SoundBlocksPass` names them as exceptions.

**Fairness.** `FairSpec` adds `WF_vars(Next)`: the clock runs. Nothing else is assumed; no
unit is free to delay, as each takes one step at each of its edges. `Emulator` and
`Bootloader` are single programs that nothing preempts: the emulator has `WF_vars(Next)`, the
boot loader weak fairness on the steps of its loop and none on `Arrive`, as nobody has to type.

## 4. What is proved

For every RAM size, every set of byte values, every program and any sequence of resets and
timer interrupts (assumptions: the named `ASSUME`s of `CorePkg` and `Core`):

* `TypeCorrect`: `Spec => []TypeOK`, one lemma per unit.
* `FetchCorrect`, `AckCorrect`: `FetchedFromPC` and `AckedRequestServed`. Neither is
  inductive. `BusInv` adds what links the edges: at the low level the array has registered
  the granted master's address and done its write; an acknowledge that may reach the fetch
  unit in READ belongs to the word at PC (a reset that moves PC clears the acknowledge in
  the same edge); and only an executing instruction makes the control unit busy.
* `AcceptCorrect`: `AcceptedIsCurrent`, with `RequestInv`: while `cyc` is up the fetch unit is
  held on the load or store it was raised for. This is what makes the cases that do not
  assign `cyc` (OP, LUI, JAL, branches) harmless.
* `WritesCorrect`: the action property `NoStrayWrites`, with `WriteInv`: a write on the bus at
  the high level is one of the store's or has already been done, so repeating it (after a
  reset, or in the cycle in which it is acknowledged) changes nothing.
* `LoadsCorrect`: `LoadReady` and `LoadTakesOwnData`, under the hypothesis
  `[]LoadUninterrupted` that no interrupt is pending at a falling edge at which the control
  unit waits for the data of a load it has requested. The run `load_wrong_data` (on whose instance `LoadReady` fails too) shows that the hypothesis is
  needed; the theorem shows that nothing else (reset, posted store, interrupt elsewhere)
  breaks loads.
* `IsaRefined`: `Spec /\ []InScope => ImplementsIsa`, for two words of RAM or more and no
  reset but the one at power-on: the core executes programs one instruction at a time, although it
  fetches through the same bus as a store still being written. `InScope` says what the
  architecture has (no ECALL, EBREAK, set and clear forms; accesses that do not straddle
  words unnoticed; CSR writes in machine mode; `mtvec` without mode bits at an exception)
  and that no interrupt comes between the acceptance of an access and its end. Each part is
  one of the departures listed in section 3, for which the theorem would be false, and TLC
  finds every reachable state of the run `isa` in scope. The invariant, `ScopeInv`, has five parts:
  `PowerOnInv`; `DecideInv` (at the rising edge that ends an instruction the control unit has
  decided for that instruction or for an interrupt that is enabled, and nothing is left over
  of the one before); `AccessInv` and `WindowInv` (in each state of the load/store unit the
  bus has the address that state stands for, and the words read so far are the array's);
  `ReceiveInv` (data declared valid are the memory's). From there, `MemoryPosedge` and
  `MemoryNegedge` show that writing a posted store back changes nothing the architecture
  sees, `MemoryStore` that accepting it is the store, `MemoryLoad` that a load reads what the
  posted store left; `Located` is the arithmetic that byte `a` belongs to an access at `b` just
  when it lies in one of the two words the unit touches, over the wrap of addresses. One lemma
  per kind of instruction (`FlowRefines`, `LoadRefines`, `StoreRefines`, `SystemRefines`,
  `InterruptRefines`) maps its last edge to a step of `Isa`; every other edge stutters.
* `QueueRefined`: the FIFO implements a bounded queue for every depth and every set of
  values. The invariant is `FifoInv` (`PointersAgree` with the types); one lemma per edge
  shows the step of the queue, by cases on the two requests.
* `ConsoleKeeps`: `AcceptedNotDropped`, with resets, for a console FIFO of three slots or
  more (the code has 32). `RoomInv` adds that the write a reset leaves pending meets an empty
  FIFO.

* `TypeCorrect` of `SerialProofs`: all state of the serial port. That a byte with one more bit
  set is still a byte needs powers of two, which the provers take for unknown numbers: `Power`
  (every one is a positive number, and twice the one before) comes from the cardinality of
  `SUBSET`; `ReceiverTyped` and `TerminalTyped` apply them to the two shift registers.
* `HeardCorrect` and `HeardAfterResetCorrect`: `HeardInOrder` without resets and
  `HeardAfterReset` with them, end to end, from the write on the bus to the terminal, for
  every width of a byte, length of the console's bit and depth of its FIFO from three on; the
  receiver's bit has any length. What they assume: the terminal's bit is the console's
  (`LISTEN_CLOCKS = CONSOLE_DELAY + 1`, which for the source means 2 clocks, section 3), and
  a reset outlasts a frame (`TerminalAssumption`; for the source `RESET_CLOCKS` is 1048574 and a
  frame 18 clocks). The invariant is `PortInv`: `RoomInv`;
  `BusInv` and `ContentInv` (what is in the console's FIFO is the part of `stale \o sent` not yet
  popped, the writes and requests still pending included); `TakenInv` (the byte popped is the next one);
  `LineInv` (`tx` is a register, so the line is a clock behind the state); `StepInv` (in a frame
  the terminal is one clock behind the transmitter, and done before the next one begins);
  `DataInv` (the bits sampled are the lowest of the byte sent, each once; `Shifted` is the
  arithmetic of a shift register); `HeardInv` (the bytes heard are the first ones popped); and
  `ResetInv` (while a reset lasts the line is high, and the terminal has no more of its frame left
  than the reset). `CleanInv` is the case without resets: nothing is stale.
* `StoredCorrect` and `StoredAllCorrect`: `StoredOnce`, over resets, for every width of a byte, length of a bit and depth of the FIFO, whatever is on the pin. Each frame is stored by one
  push, the clock after it ends, unless a reset intervenes, after which it is stored once and first
  (`FrameInv`). `StoredCorrect` has the hypothesis `[]Drained`, that the receiver's FIFO is not full
  when a frame ends; without it the property is false (section 3, `MEMORY_DEPTH = 2`).
  `StoredAllCorrect` shows that it holds when fewer frames come than the receiver has slots,
  as in the run `reset`.

* `FifoTypeCorrect`: the types of the FIFO with its client.
* `FramesCorrect`, `InTimeCorrect` of `UartLineProofs`: `FramesReceived` and `StoredInTime`, for a
  receiver of seven bits as in the code and every `DELAY_CLOCKS`, every set of bytes, any pauses
  between frames and any mixture of clocks that it tolerates, as long as fewer frames come than
  the FIFO holds (nothing reads it here). `Tolerated(p)` states what is needed of the period
  `p` of the terminal, in integers: `p <= DELAY_CLOCKS + 1`, because the receiver, whose bits are a clock longer
  than `DELAY_CLOCKS`, must find the stop bit when it looks for a start bit again; the middle of the
  receiver's seventh bit before the end of the terminal's; and the frame not over before it is
  stored. `RealSpeed` is the instance of the code: with 217 clocks the periods from 205 to 218 are
  tolerated: twelve clocks faster than nominal, but only one slower. (That 204 and 219 are not is
  TLC's result, section 3.) The invariant
  is `FrameInv`: `StepInv` (the receiver's state, bit number and delay determine the clock of the
  frame, two clocks earlier, and it is idle before and after), `DataInv` (the bits sampled so far
  are the lowest of the byte) and `StoredInv` (the FIFO lacks the current byte until its stop
  bit). `SampledBit` shows by the number of the bit that the middle of the receiver's bit lies in the
  terminal's.
* `TypeCorrect`, `DetectionCorrect`, `OverrunCorrect` of `BootloaderProofs`: for every
  alphabet, buffer size, receiver and set of commands that fit the buffer. What makes them
  inductive is `LineInv`: at each place of the loop the buffer begins with the characters of
  `line`, whose length is `index`; so the terminator put at the carriage return's place hides
  everything that an earlier line left behind, and a comparison of strings is a comparison
  with what was typed.
* `InFlightCorrect`, `CycleCorrect` of `EmulatorProofs`: for every decoder, program, RAM and
  queue size, and both copies of `riscv.c`. `OneInFlight` says that the queues hold at most
  one request or answer of each kind; it needs `QueuesInv` and `FlagsInv` (types, and pointers
  that agree with counts), `ServedInv` (whatever is requested during a processor turn has been
  answered by the next), `FetchInv` and `StallInv` (the word in flight is the one at `pc`, and
  only a load that has a register to write stalls) and `PhaseInv` (before the first fetch
  nothing has happened; `run_cycle` leaves with a fetch in flight and goes round while the
  counter stands still). `CycleCorrect` adds `RetiredInv`: a call whose instruction is still
  fetched or stalled has completed none, and otherwise it has completed one, or none where the
  instruction at `pc` is an exception or invalid (`AtException`).

* `TypeCorrect` of `EmulatorProofs`: all its state: registers, CSRs and queues hold
  words, and pointers and counts stay within the queues. Every bitwise result being a word
  is an induction over bits (below).
* `Refinement` of `EmulatorProofs`: `Spec /\ []ProgramLoaded => ImplementsIsa`. The emulator
  with its queues, its stalled loads, posted stores and accesses split in two executes the
  RV32IM machine one instruction at a time, for every decoder, program, RAM and queue size, for
  words of 8, 16 and 32 bits, in both copies. The invariant is `Inv` (that of `OneInFlight`)
  with `TypeInv` and `DataInv`: a stalled instruction is the one at `pc` in the RAM as it now
  is, its load in flight has its address, and an answer has the data that are there. This is
  what fails if a store could overtake a fetch or a load; it cannot, because `memory_run`
  serves the write first and at most one of each is under way. `BootInv` keeps the registers
  zero until the reset. `EmuIsa` states multiplication, division and shifts by the manual's
  rules and not by C's operators: `QuotientIs` shows that rounding toward zero, a quotient that
  is *chosen*, exists, is unique and is what `/` computes, and similar lemmas relate shifts and
  masks to the bits.
* `LoaderRight`: `(\A i \in Images : Generated(i)) => (Spec => []ProgramLoaded)`. What
  `attempt_to_read` leaves in the RAM is the program whose text `generate_rom.py` wrote, though
  it reads one character at a time and tells a word that lacks digits only by the character
  that ends it: the script writes a last word that is not full with fewer digits. `ReadingInv`
  says for each character where in the text the parser stands, which words it has stored and
  what it has of the current one.
  `GeneratedRefinement` puts the two together: with generated images the emulator implements
  the machine, with no hypothesis on the behaviour. Two premises are visible in `Writable`: the
  digits a last word lacks are its upper ones and zeros, and that word has its place in the
  RAM (the parser drops a short word at the end of the region).
* `DecodeCorrect`, `DecodersCorrect`, `RowsCorrect` of `DecodeProofs`: for every set
  `Instructions` of encodings (`InstructionsAssumption`: every major opcode, funct3, funct7 and
  register, every immediate its format holds, reserved encodings included) the properties of the
  run `decode`.
  `riscv_initialise` shifts each pattern into a mask and a value (`Compiled`, an induction over
  the characters), so a row matches a word when the bits the pattern fixes agree (`MatchBits`);
  those of each row say which opcode, funct3 and funct7 it wants (`Forms`), so it matches
  the encodings of the instructions it is named for and no others (`Recognised`; one lemma for
  each group of rows), and the linear search finds it first (`FirstMatch`). Fields and
  immediates are the ones assembled, whether cut out by the masks of `decode` (`RegisterFields`,
  `ImmediateFields`) or by the wires of `decoder.sv` (`OperandsAlike`). For `RowsCorrect` every
  row is given a key of opcode, funct3 and funct7 (bit 20 separates ECALL from EBREAK), and two
  different rows have keys that differ in a place that both fix.
* `AgreeCorrect`, `BranchesCorrect` of `CoreAluProofs`: for words of 8, 16 and 32 bits and
  all operands, the core's arithmetic and branch units give what the emulator's switch and
  opcode table give. The two write `add` and `sub` differently (signed and unsigned operands;
  the sums agree modulo the width), and a branch as a comparison or as a comparison with a
  sense; the other operations agree by definition. At most one operation is selected by
  `func7`, `func3` and `imm_t`, so the order of the unit's cases does not matter.
* `TestCorrect` of `CoreAluProofs`: `SoundBlocksPass` for every `i` below `INT16_MAX` and every
  width of a `size_t` above a word's. One lemma (`BlockHolds`) goes through the ten blocks;
  `TwoBits` gives the results of the bitwise ones.

**Sums over the bits of a word.** `OfBits` is a recursive function. The library's induction
theorems take an operator as a parameter, which the provers cannot instantiate, so the proofs
use induction over *sets*: a set with 0 that is closed under successor contains `Nat`
(`Induction`, from `Least`, from `WFMin` of the library). With it, `OfBits` is unique and bounded, and the bits of `OfBits(f)`
are `f`. Powers of two, which are unknown numbers to the provers, are tabulated where 32 of
them are enough and are otherwise cardinalities of `SUBSET`.

Assumptions are the named `ASSUME`s of the modules, which the runs evaluate; the
strongest are `ByteBitsAssumption` (words of 8, 16 or 32 bits) and `DecodeAssumption` (the decoder of the
emulator gives an instruction for every word, and an invalid one for 0).

**Only model-checked.** The liveness properties `InstructionsComplete`, `CycleReturns`, `Prompts`,
`EventuallyHeard` and `AccessesComplete`, which need fairness and `ENABLED`, are out of the
prover's reach. The instance of `emulator` has, besides generated images, one edited by hand, which is
not `Generated`; that the emulator follows the machine there too is TLC's result. So is that a
terminal outside `Tolerated` is misunderstood. Every safety invariant and every action
property of the passing runs, and each refinement, is the subject of a theorem.

## 5. What is not modelled, and the plan

In order of importance:

1. The timer, alone and as the source of `timer_irq` in `Core`; subword stores to a device
   (a read and a write, which the console takes as two bytes).
2. The SPI controller, and the effect of ERR on the load/store unit.
3. The CSR unit's read mux and the machine counters.
4. The core and the emulator in step, as `model_verify_tb.sv` runs them; this needs the core
   with computed registers.

Not planned: the crossbar (unfinished in the source, and not what `ZeltaSoC.sv` instantiates),
the display devices (output only), the superseded units (`memory_access_stm.sv`,
`store_stm.sv`, ...), generated files under `RTL/`, `modelsim/` and `verilator/`, the test
programs, the boot loader's banner and number formatting, its `receive_buffer` (called by
nothing), and the emulator's traces and statistics.
