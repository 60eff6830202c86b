------------------------------- MODULE Serial -------------------------------
(***************************************************************************)
(* The serial devices of the SoC as a program uses them: the load/store    *)
(* unit as the bus master, the console and the UART receiver.  Each device *)
(* has its own bus behind the address decoder: CYC reaches the device the  *)
(* address selects.  Each has its own pin, and its own bit: a bit of the   *)
(* console is 2 clocks, one of the receiver 218.  A terminal listens on    *)
(* the console's pin; on the receiver's there is any level at any clock.   *)
(*                                                                         *)
(* The program stores words to the console (print_char of the boot loader) *)
(* and, as the boot loader does, reads DATA after it has read a COUNT that *)
(* is not zero.                                                            *)
(***************************************************************************)
EXTENDS UartSlave, SequencesExt

CONSTANTS
  CONSOLE_DELAY,    \* DELAY_CLOCKS of the console: 1
  CONSOLE_DEPTH,    \* MEMORY_DEPTH of the console's FIFO: 32
  LISTEN_CLOCKS,    \* clocks per bit of the terminal on tx
  RESET_CLOCKS,     \* rst stays up for more clocks than this: 2^20 - 2
  Words,            \* the words the program stores
  MaxBytes,         \* bound on the bytes written
  MaxTyped,         \* bound on the frames received
  ResetInputs       \* the values rst may take

ASSUME ConsoleAssumption ==
  /\ CONSOLE_DELAY \in Nat \ {0}
  /\ CONSOLE_DEPTH \in Nat /\ CONSOLE_DEPTH >= 2

\* A reset outlasts a frame on tx.
ASSUME TerminalAssumption ==
  /\ LISTEN_CLOCKS \in Nat /\ LISTEN_CLOCKS >= 2
  /\ RESET_CLOCKS \in Nat /\ RESET_CLOCKS >= LISTEN_CLOCKS * (DATA_WIDTH + 2)

ASSUME ValueAssumption == Value = 0 .. 2 ^ DATA_WIDTH - 1

ASSUME InputsAssumption ==
  /\ Words \subseteq Nat
  /\ MaxBytes \in Nat
  /\ MaxTyped \in Nat
  /\ ResetInputs \subseteq BOOLEAN

VARIABLES
  \* the console
  tx_write_ptr, tx_read_ptr, tx_buff_cnt, tx_buffer, tx_dout,
  wb_states, con_wr, ACK_S, tx_state, con_rd, tx_delay, tx_shamnt, tx_data, tx,
  \* the master, the clock and the reset
  clk, rst, rst_held, busy, CYC, target, reg, DAT_O, available,
  \* the terminal on tx
  ear_bit, ear_clk, ear_byte,
  \* what a reset left to be sent, what was written, and heard by the terminal; the
  \* frames received, and the bytes stored and read: all since the last reset
  stale, sent, heard, framed, got, taken

console == INSTANCE Console WITH
  MEMORY_DEPTH <- CONSOLE_DEPTH, write_ptr <- tx_write_ptr, read_ptr <- tx_read_ptr,
  buff_cnt <- tx_buff_cnt, buffer <- tx_buffer, dout <- tx_dout,
  DELAY_CLOCKS <- CONSOLE_DELAY

masterVars   == <<busy, CYC, target, reg, DAT_O, available>>
resetVars    == <<rst, rst_held>>
terminalVars == <<ear_bit, ear_clk, ear_byte>>
historyVars  == <<stale, sent, heard, framed, got, taken>>
vars == <<uartVars, console!consoleVars, clk, resetVars, masterVars, terminalVars, historyVars>>

DataWord == Words \cup {0}

TypeOK ==
  /\ UartTypeOK
  /\ console!ConsoleTypeOK
  /\ clk \in BOOLEAN
  /\ rst \in BOOLEAN
  /\ rst_held \in 0 .. RESET_CLOCKS
  /\ busy \in BOOLEAN
  /\ CYC \in BOOLEAN
  /\ target \in {"console", "uart"}
  /\ reg \in Register
  /\ DAT_O \in DataWord
  /\ available \in BOOLEAN
  /\ ear_bit \in 0 .. DATA_WIDTH + 2
  /\ ear_clk \in 0 .. LISTEN_CLOCKS - 1
  /\ ear_bit = DATA_WIDTH + 2 => ear_clk <= LISTEN_CLOCKS \div 2
  /\ ear_byte \in Value
  /\ {stale, sent, heard, framed, got, taken} \subseteq Seq(Value)

Init ==
  /\ UartInit
  /\ console!ConsoleInit
  /\ clk = TRUE
  /\ rst = FALSE
  /\ rst_held = 0
  /\ busy = FALSE
  /\ CYC = FALSE
  /\ target = "console"
  /\ reg = "COUNT"
  /\ DAT_O = 0
  /\ available = FALSE
  /\ ear_bit = 0
  /\ ear_clk = 0
  /\ ear_byte = 0
  /\ stale = << >>
  /\ sent = << >>
  /\ heard = << >>
  /\ framed = << >>
  /\ got = << >>
  /\ taken = << >>

-----------------------------------------------------------------------------
(* The master: the load/store unit with aligned word accesses.             *)

ConsoleCYC == CYC /\ target = "console"
UartCYC    == CYC /\ target = "uart"

ACK == console!ConsoleACK(ConsoleCYC) \/ UartACK(UartCYC)

\* rst leaves the bus signals; the program starts again.
MasterReset ==
  /\ busy' = FALSE
  /\ available' = FALSE
  /\ UNCHANGED <<CYC, target, reg, DAT_O>>

MasterIdle ==
  /\ ~busy
  /\ CYC' = FALSE
  /\ DAT_O' = 0
  /\ UNCHANGED <<busy, target, reg, available>>

AcceptStore ==
  /\ ~busy
  /\ Len(sent) < MaxBytes
  /\ busy' = TRUE
  /\ CYC' = FALSE
  /\ target' = "console"
  /\ DAT_O' \in Words
  /\ UNCHANGED <<reg, available>>

AcceptLoad ==
  /\ ~busy
  /\ busy' = TRUE
  /\ CYC' = FALSE
  /\ target' = "uart"
  /\ reg' = IF available THEN "DATA" ELSE "COUNT"
  /\ DAT_O' = 0
  /\ UNCHANGED available

MasterDrive ==
  /\ busy /\ ~ACK
  /\ CYC' = TRUE
  /\ UNCHANGED <<busy, target, reg, DAT_O, available>>

MasterDone ==
  /\ busy /\ ACK
  /\ busy' = FALSE
  /\ CYC' = FALSE
  /\ available' = IF target = "uart" THEN reg = "COUNT" /\ ReadData(reg) > 0 ELSE available
  /\ UNCHANGED <<target, reg, DAT_O>>

Master ==
  \/ rst /\ MasterReset
  \/ ~rst /\ (MasterIdle \/ AcceptStore \/ AcceptLoad \/ MasterDrive \/ MasterDone)

-----------------------------------------------------------------------------
(* The terminal on tx, set to LISTEN_CLOCKS clocks per bit, DATA_WIDTH     *)
(* data bits and one stop bit.  It samples each bit in its middle.         *)
(* ear_bit counts the bits of a frame: 0 between frames, 1 in the start    *)
(* bit, DATA_WIDTH + 2 in the stop bit.  rst does not reach it.            *)

EarMiddle == ear_clk = LISTEN_CLOCKS \div 2

\* The middle of the stop bit: the frame is over.
EarStop == ear_bit = DATA_WIDTH + 2 /\ EarMiddle

\* A low line is a start bit.
EarQuiet ==
  /\ ear_bit = 0
  /\ IF tx = 0 THEN ear_bit' = 1 /\ ear_clk' = 1 ELSE UNCHANGED <<ear_bit, ear_clk>>
  /\ UNCHANGED ear_byte

EarFrame ==
  /\ ear_bit > 0 /\ ~EarStop
  /\ IF ear_clk = LISTEN_CLOCKS - 1
     THEN ear_bit' = ear_bit + 1 /\ ear_clk' = 0
     ELSE ear_clk' = ear_clk + 1 /\ UNCHANGED ear_bit
  /\ ear_byte' = IF EarMiddle /\ ear_bit \in 2 .. DATA_WIDTH + 1
                 THEN tx * 2 ^ (DATA_WIDTH - 1) + ear_byte \div 2
                 ELSE ear_byte

EarFrameOver ==
  /\ EarStop
  /\ ear_bit' = 0
  /\ ear_clk' = 0
  /\ UNCHANGED ear_byte

Terminal == EarQuiet \/ EarFrame \/ EarFrameOver

\* The byte counts if the stop bit is one.
Heard == EarStop /\ tx = 1

-----------------------------------------------------------------------------

\* The reset button's debouncer lets rst change only once in RESET_CLOCKS + 1 clocks.  Here
\* it stays up so long; it may come at any time.
Debounce ==
  \/ /\ rst /\ rst_held < RESET_CLOCKS
     /\ rst_held' = rst_held + 1
     /\ UNCHANGED rst
  \/ /\ ~rst \/ rst_held = RESET_CLOCKS
     /\ rst_held' = 0
     /\ rst' \in ResetInputs

\* What may be on the receiver's pin.
PinLevel == IF Len(framed) < MaxTyped THEN {0, 1} ELSE {1}

\* The histories.
Acked(t) == busy /\ ACK /\ target = t

\* A reset catches a byte whose con_wr or wr is up, which it leaves up, and a request to
\* the console, whose byte is what is on the bus a clock after the reset.
RecordReset ==
  /\ stale' = IF con_wr THEN <<console!din(DAT_O)>> ELSE << >>
  /\ framed' = IF wr THEN <<data>> ELSE << >>
  /\ sent' = << >> /\ heard' = << >> /\ got' = << >> /\ taken' = << >>

RecordStep ==
  /\ stale' = IF ~busy /\ ConsoleCYC THEN Append(stale, console!din(DAT_O')) ELSE stale
  /\ sent' = IF Acked("console") THEN Append(sent, console!din(DAT_O)) ELSE sent
  /\ heard' = IF Heard THEN Append(heard, ear_byte) ELSE heard
  /\ framed' = IF rx_state = "STOP" /\ RxBitDone /\ ~wr THEN Append(framed, data) ELSE framed
  /\ got' = IF Pushing(wr) THEN Append(got, data) ELSE got
  /\ taken' = IF Acked("uart") /\ reg = "DATA" THEN Append(taken, dout) ELSE taken

Record == IF rst THEN RecordReset ELSE RecordStep

Posedge ==
  /\ ~clk
  /\ clk' = TRUE
  /\ Master
  /\ console!ConsolePosedge(rst, ConsoleCYC)
  /\ \E rx \in PinLevel : UartPosedge(rst, rx, UartCYC, reg)
  /\ Terminal
  /\ Record
  /\ Debounce

Negedge ==
  /\ clk
  /\ clk' = FALSE
  /\ console!ConsoleNegedge(DAT_O)
  /\ UartNegedge
  /\ UNCHANGED <<masterVars, resetVars, terminalVars, historyVars>>

Next == Posedge \/ Negedge

Spec == Init /\ [][Next]_vars

\* The clock runs.
FairSpec == Spec /\ WF_vars(Next)

-----------------------------------------------------------------------------

\* A byte the console acknowledges finds room: the check of full is made a clock before
\* the FIFO makes its own.
AcceptedNotDropped == con_wr => ~console!full

\* What a terminal at the console's speed hears on tx is what was written to the console,
\* in order and without gap or repetition, over any pauses in the stream.
HeardInOrder == IsPrefix(heard, sent)

\* With resets at any time the terminal hears, after the byte or two that a reset leaves
\* behind (in con_wr and in the CYC of the master), what was written since.  A frame that the
\* reset cut off is over for the terminal before the reset is, and garbles none after it.
HeardAfterReset == IsPrefix(heard, stale \o sent)

\* The terminal hears every byte the console acknowledges.
EventuallyHeard ==
  \A n \in 1 .. MaxBytes : (Len(sent) >= n) ~> (Len(heard) >= n)

\* Every access is acknowledged, a store to a full console included.
AccessesComplete == busy ~> ~busy

\* While its FIFO has room, the receiver stores the byte of every frame once, and after a
\* reset nothing else but the byte whose wr the reset left up.
StoredOnce == IsPrefix(got, framed)

\* A program that reads DATA when COUNT is not zero reads the bytes received, in order.
\* uart_slave.sv:8: "Count hold the number of available bytes to read".
ReadInOrder == IsPrefix(taken, got)
=============================================================================
