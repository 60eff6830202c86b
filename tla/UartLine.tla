------------------------------ MODULE UartLine ------------------------------
(***************************************************************************)
(* The UART receiver at its real speed, at the end of a line driven by a   *)
(* terminal: a start bit, eight data bits from the lowest on, one stop     *)
(* bit, each Period clocks long.  The receiver takes seven bits, and its   *)
(* bit is DELAY_CLOCKS + 1 clocks: the two drift apart within each frame.  *)
(* Nothing reads the receiver here.                                        *)
(***************************************************************************)
EXTENDS UartSlave, SequencesExt

CONSTANTS
  Periods,      \* clocks per bit of the terminals considered
  Sent,         \* the bytes they send, of 8 bits
  MaxFrames     \* bound on the frames sent

ASSUME PeriodsAssumption == Periods \subseteq Nat \ {0}
ASSUME SentAssumption == Sent \subseteq 0 .. 255
ASSUME MaxFramesAssumption == MaxFrames \in Nat

VARIABLES
  clk,
  period, tick, byte,   \* the terminal: tick counts the clocks of a frame
  sent, got             \* the bytes sent, and those stored by the receiver

lineVars == <<period, tick, byte, sent, got>>
vars == <<uartVars, clk, lineVars>>

\* Between frames.
Quiet == 0

FrameLength == 10 * period

\* The bit of the frame on the line: 0 is the start bit, 9 the stop bit.
BitNumber == (tick - 1) \div period

rx ==
  CASE tick = Quiet    -> 1
    [] BitNumber = 0   -> 0
    [] BitNumber = 9   -> 1
    [] OTHER           -> (byte \div 2 ^ (BitNumber - 1)) % 2

Init ==
  /\ UartInit
  /\ clk = TRUE
  /\ period \in Periods
  /\ tick = Quiet
  /\ byte = 0
  /\ sent = << >>
  /\ got = << >>

\* A frame may begin as soon as the stop bit of the last one is over.
FrameStart ==
  /\ tick \in {Quiet, FrameLength}
  /\ Len(sent) < MaxFrames
  /\ tick' = 1
  /\ byte' \in Sent
  /\ sent' = Append(sent, byte' % 2 ^ DATA_WIDTH)

FrameGoesOn ==
  /\ tick \in 1 .. FrameLength - 1
  /\ tick' = tick + 1
  /\ UNCHANGED <<byte, sent>>

LineQuiet ==
  /\ tick \in {Quiet, FrameLength}
  /\ tick' = Quiet
  /\ UNCHANGED <<byte, sent>>

Posedge ==
  /\ ~clk
  /\ clk' = TRUE
  /\ FrameStart \/ FrameGoesOn \/ LineQuiet
  /\ UartPosedge(FALSE, rx, FALSE, "COUNT")
  /\ got' = IF Pushing(wr) THEN Append(got, data) ELSE got
  /\ UNCHANGED period

Negedge ==
  /\ clk
  /\ clk' = FALSE
  /\ UartNegedge
  /\ UNCHANGED lineVars

Next == Posedge \/ Negedge

Spec == Init /\ [][Next]_vars

-----------------------------------------------------------------------------

\* The receiver stores the low bits of every byte sent, and no other: it samples every
\* bit within that bit, and is looking for a start bit when the next one comes.
FramesReceived == IsPrefix(got, sent)

\* When a frame is over the receiver has stored it.
StoredInTime == tick \in {Quiet, FrameLength} => got = sent
=============================================================================
