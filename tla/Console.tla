------------------------------ MODULE Console ------------------------------
(***************************************************************************)
(* The console (console.sv): a Wishbone slave that puts what is written to *)
(* it into its FIFO, and a transmitter that takes bytes from the FIFO and  *)
(* sends them on tx: a start bit, DATA_WIDTH bits from the lowest on, and  *)
(* a stop bit, each DELAY_CLOCKS + 1 clocks long.                          *)
(***************************************************************************)
EXTENDS Fifo

CONSTANTS
  DATA_WIDTH,      \* 7
  DELAY_CLOCKS

VARIABLES
  wb_states, con_wr, ACK_S,                      \* the bus side
  tx_state, con_rd, tx_delay, tx_shamnt, tx_data,  \* the transmitter
  tx                                             \* the line

consoleBusVars == <<wb_states, con_wr, ACK_S>>
txVars         == <<tx_state, con_rd, tx_delay, tx_shamnt, tx_data, tx>>
consoleVars    == <<fifoVars, consoleBusVars, txVars>>

Bit == {0, 1}
DataByte == 0 .. 2 ^ DATA_WIDTH - 1
LineState == {"IDDLE", "START", "BIT_S", "STOP"}

ConsoleTypeOK ==
  /\ FifoTypeOK
  /\ wb_states \in {"IDDLE_WB", "TAKE_WB"}
  /\ con_wr \in BOOLEAN
  /\ ACK_S \in BOOLEAN
  /\ tx_state \in LineState
  /\ con_rd \in BOOLEAN
  /\ tx_delay \in 0 .. DELAY_CLOCKS
  /\ tx_shamnt \in 0 .. DATA_WIDTH - 1
  /\ tx_data \in DataByte
  /\ tx \in Bit

\* After the power-on reset; what reset leaves alone is zero.
ConsoleInit ==
  /\ buffer = [s \in Slot |-> 0] /\ dout = 0
  /\ FifoInit
  /\ wb_states = "IDDLE_WB"
  /\ con_wr = FALSE
  /\ ACK_S = FALSE
  /\ tx_state = "IDDLE"
  /\ con_rd = FALSE
  /\ tx_delay = 0
  /\ tx_shamnt = 0
  /\ tx_data = 0
  /\ tx = 1

\* The FIFO takes the low bits of the data bus, also while a read is on it: the
\* console does not look at WE.
din(DAT_O) == DAT_O % 2 ^ DATA_WIDTH

ConsoleACK(CYC) == ACK_S /\ CYC

-----------------------------------------------------------------------------
(* The bus side.                                                           *)

\* rst leaves con_wr and ACK_S as they are.
ConsoleBusReset ==
  /\ wb_states' = "IDDLE_WB"
  /\ UNCHANGED <<con_wr, ACK_S>>

\* Mutant: a byte is accepted although the FIFO is full.
ConsoleTakeAlways(CYC) ==
  /\ wb_states = "IDDLE_WB"
  /\ CYC
  /\ wb_states' = "TAKE_WB"
  /\ con_wr' = TRUE
  /\ ACK_S' = TRUE

\* Accept the byte on the bus and acknowledge it.
ConsoleTake(CYC) ==
  /\ wb_states = "IDDLE_WB"
  /\ CYC /\ ~full
  /\ wb_states' = "TAKE_WB"
  /\ con_wr' = TRUE
  /\ ACK_S' = TRUE

\* No request, or no room; or the byte has just been taken.
ConsoleBusIdle(CYC) ==
  /\ wb_states = "IDDLE_WB" => ~(CYC /\ ~full)
  /\ wb_states' = "IDDLE_WB"
  /\ con_wr' = FALSE
  /\ ACK_S' = FALSE

ConsoleBus(rst, CYC) ==
  \/ rst /\ ConsoleBusReset
  \/ ~rst /\ (ConsoleTake(CYC) \/ ConsoleBusIdle(CYC))

-----------------------------------------------------------------------------
(* The transmitter.                                                        *)

\* Mutant: the line is not released.
TxResetLineKept ==
  /\ tx_state' = "IDDLE"
  /\ tx_delay' = 0
  /\ tx_shamnt' = 0
  /\ con_rd' = FALSE
  /\ UNCHANGED <<tx, tx_data>>

TxReset ==
  /\ tx_state' = "IDDLE"
  /\ tx_delay' = 0
  /\ tx_shamnt' = 0
  /\ con_rd' = FALSE
  /\ tx' = 1
  /\ UNCHANGED tx_data

\* Ask the FIFO for a byte if it has one.
TxIdle ==
  /\ tx_state = "IDDLE"
  /\ tx_delay' = 0
  /\ tx_shamnt' = 0
  /\ tx' = 1
  /\ con_rd' = ~empty
  /\ tx_state' = IF empty THEN "IDDLE" ELSE "START"
  /\ UNCHANGED tx_data

\* The last clock of a bit.
TxBitDone == tx_delay = DELAY_CLOCKS

\* Mutant: the count of clocks is not started again.
TxDelayOnly == tx_delay' = tx_delay + 1

TxDelay == tx_delay' = IF TxBitDone THEN 0 ELSE tx_delay + 1

\* Mutant: con_rd is not lowered.
TxStartReadKept ==
  /\ tx_state = "START"
  /\ tx_data' = dout
  /\ UNCHANGED con_rd
  /\ tx_shamnt' = 0
  /\ tx' = 0
  /\ TxDelay
  /\ tx_state' = IF TxBitDone THEN "BIT_S" ELSE "START"

\* The byte came out of the FIFO at the falling edge after con_rd was raised.
TxStart ==
  /\ tx_state = "START"
  /\ tx_data' = dout
  /\ con_rd' = FALSE
  /\ tx_shamnt' = 0
  /\ tx' = 0
  /\ TxDelay
  /\ tx_state' = IF TxBitDone THEN "BIT_S" ELSE "START"

TxBits ==
  /\ tx_state = "BIT_S"
  /\ con_rd' = FALSE
  /\ tx' = (tx_data \div 2 ^ tx_shamnt) % 2
  /\ TxDelay
  /\ IF TxBitDone /\ tx_shamnt = DATA_WIDTH - 1
     THEN tx_state' = "STOP" /\ tx_shamnt' = 0
     ELSE /\ tx_shamnt' = IF TxBitDone THEN tx_shamnt + 1 ELSE tx_shamnt
          /\ UNCHANGED tx_state
  /\ UNCHANGED tx_data

\* Mutant: the transmitter does not go back to IDDLE.
TxStopForever ==
  /\ tx_state = "STOP"
  /\ con_rd' = FALSE
  /\ tx_shamnt' = 0
  /\ tx' = 1
  /\ TxDelay
  /\ UNCHANGED <<tx_state, tx_data>>

TxStop ==
  /\ tx_state = "STOP"
  /\ con_rd' = FALSE
  /\ tx_shamnt' = 0
  /\ tx' = 1
  /\ TxDelay
  /\ tx_state' = IF TxBitDone THEN "IDDLE" ELSE "STOP"
  /\ UNCHANGED tx_data

Transmit(rst) ==
  \/ rst /\ TxReset
  \/ ~rst /\ (TxIdle \/ TxStart \/ TxBits \/ TxStop)

-----------------------------------------------------------------------------

ConsolePosedge(rst, CYC) ==
  /\ ConsoleBus(rst, CYC)
  /\ Transmit(rst)
  /\ FifoPosedge(rst, con_wr, con_rd)

ConsoleNegedge(DAT_O) ==
  /\ FifoNegedge(con_wr, con_rd, din(DAT_O))
  /\ UNCHANGED <<consoleBusVars, txVars>>
=============================================================================
