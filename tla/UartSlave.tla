----------------------------- MODULE UartSlave -----------------------------
(***************************************************************************)
(* The UART receiver (uart_slave.sv): a state machine that samples the     *)
(* line in the middle of each bit and pushes the byte into its FIFO, and a *)
(* Wishbone slave from which the byte at the front (DATA) and the number   *)
(* of bytes (COUNT) are read.                                              *)
(***************************************************************************)
EXTENDS Fifo

CONSTANTS
  DATA_WIDTH,      \* 7
  DELAY_CLOCKS     \* FREQUENCY / BAUD_RATE

\* A bit is two clocks long at least: the receiver sees the line a clock late.
ASSUME FrameAssumption == DATA_WIDTH \in Nat \ {0} /\ DELAY_CLOCKS \in Nat \ {0}

VARIABLES
  rx_state, wr, rx_delay, rx_shamnt, data,   \* the receiver
  rd, ack_s                                  \* the bus side

receiverVars == <<rx_state, wr, rx_delay, rx_shamnt, data>>
uartVars     == <<fifoVars, receiverVars, rd, ack_s>>

UartTypeOK ==
  /\ FifoTypeOK
  /\ rx_state \in {"IDDLE", "START", "BIT_S", "STOP"}
  /\ wr \in BOOLEAN
  /\ rx_delay \in 0 .. DELAY_CLOCKS
  /\ rx_shamnt \in 0 .. DATA_WIDTH - 1
  /\ data \in 0 .. 2 ^ DATA_WIDTH - 1
  /\ rd \in BOOLEAN
  /\ ack_s \in BOOLEAN

\* After the power-on reset; what reset leaves alone is zero.
UartInit ==
  /\ buffer = [s \in Slot |-> 0] /\ dout = 0
  /\ FifoInit
  /\ rx_state = "IDDLE"
  /\ wr = FALSE
  /\ rx_delay = 0
  /\ rx_shamnt = 0
  /\ data = 0
  /\ rd = FALSE
  /\ ack_s = FALSE

-----------------------------------------------------------------------------
(* The bus side.                                                           *)

Register == {"DATA", "COUNT"}

\* The register at the address, at any time.
ReadData(reg) == IF reg = "DATA" THEN dout ELSE buff_cnt

UartACK(CYC) == ack_s /\ CYC

\* Not reset.  rd is up at every rising edge at which DATA is requested, the one at
\* which the master sees the acknowledge included.
UartBus(CYC, reg) ==
  /\ rd' = (CYC /\ reg = "DATA")
  /\ ack_s' = CYC

-----------------------------------------------------------------------------
(* The receiver.                                                           *)

\* wr and data are not reset.
RxReset ==
  /\ rx_state' = "IDDLE"
  /\ rx_delay' = 0
  /\ rx_shamnt' = 0
  /\ UNCHANGED <<wr, data>>

\* Mutant: wr stays up.
RxIdleWrKept(rx) ==
  /\ rx_state = "IDDLE"
  /\ rx_delay' = 0
  /\ rx_shamnt' = 0
  /\ rx_state' = IF rx = 0 THEN "START" ELSE "IDDLE"
  /\ UNCHANGED <<wr, data>>

\* A low line is a start bit.
RxIdle(rx) ==
  /\ rx_state = "IDDLE"
  /\ wr' = FALSE
  /\ rx_delay' = 0
  /\ rx_shamnt' = 0
  /\ rx_state' = IF rx = 0 THEN "START" ELSE "IDDLE"
  /\ UNCHANGED data

RxBitDone == rx_delay = DELAY_CLOCKS

RxDelay == rx_delay' = IF RxBitDone THEN 0 ELSE rx_delay + 1

RxStart ==
  /\ rx_state = "START"
  /\ wr' = FALSE
  /\ rx_shamnt' = 0
  /\ RxDelay
  /\ rx_state' = IF RxBitDone THEN "BIT_S" ELSE "START"
  /\ UNCHANGED data

\* Mutant: the line is sampled one bit late.
RxSampleLate == rx_delay = DELAY_CLOCKS

\* The middle of the bit.
RxSample == rx_delay = DELAY_CLOCKS \div 2

\* Mutant: one bit too many.
RxBitsOneMore(rx) ==
  /\ rx_state = "BIT_S"
  /\ wr' = FALSE
  /\ data' = IF RxSample THEN rx * 2 ^ (DATA_WIDTH - 1) + data \div 2 ELSE data
  /\ RxDelay
  /\ IF RxBitDone /\ rx_shamnt = DATA_WIDTH
     THEN rx_state' = "STOP" /\ rx_shamnt' = 0
     ELSE /\ rx_shamnt' = IF RxBitDone THEN rx_shamnt + 1 ELSE rx_shamnt
          /\ UNCHANGED rx_state

RxBits(rx) ==
  /\ rx_state = "BIT_S"
  /\ wr' = FALSE
  /\ data' = IF RxSample THEN rx * 2 ^ (DATA_WIDTH - 1) + data \div 2 ELSE data
  /\ RxDelay
  /\ IF RxBitDone /\ rx_shamnt = DATA_WIDTH - 1
     THEN rx_state' = "STOP" /\ rx_shamnt' = 0
     ELSE /\ rx_shamnt' = IF RxBitDone THEN rx_shamnt + 1 ELSE rx_shamnt
          /\ UNCHANGED rx_state

\* Push the byte.  When the FIFO is full, stay for another bit time, wr up.
RxStop ==
  /\ rx_state = "STOP"
  /\ rx_shamnt' = 0
  /\ RxDelay
  /\ wr' = (RxBitDone \/ wr)
  /\ rx_state' = IF RxBitDone /\ ~full THEN "IDDLE" ELSE "STOP"
  /\ UNCHANGED data

Receive(rst, rx) ==
  \/ rst /\ RxReset
  \/ ~rst /\ (RxIdle(rx) \/ RxStart \/ RxBits(rx) \/ RxStop)

-----------------------------------------------------------------------------

UartPosedge(rst, rx, CYC, reg) ==
  /\ UartBus(CYC, reg)
  /\ Receive(rst, rx)
  /\ FifoPosedge(rst, wr, rd)

UartNegedge ==
  /\ FifoNegedge(wr, rd, data)
  /\ UNCHANGED <<receiverVars, rd, ack_s>>
=============================================================================
