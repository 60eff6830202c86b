--------------------------- MODULE UartLineProofs ---------------------------
(***************************************************************************)
(* Proofs about UartLine: the receiver, with its seven bits, understands   *)
(* every terminal whose clock is near enough to its own, for every length  *)
(* of a bit, all bytes and all pauses between frames.                      *)
(***************************************************************************)
EXTENDS UartLine, Integers, SequenceTheorems, TLAPS

\* A bit of the receiver, in clocks.
Bit == DELAY_CLOCKS + 1

\* The middle of a bit, as the receiver takes it.
Half == DELAY_CLOCKS \div 2

\* The clock rates the receiver tolerates with its seven bits, DELAY_CLOCKS + 1 clocks each.
\* A terminal that is slower would have a data bit on the line when the receiver looks for a
\* start bit again; with one that is faster, the last bit is over before its middle comes; and
\* the frame must last until the receiver has stored it.
Tolerated(p) ==
  /\ p <= Bit
  /\ 7 * Bit + Half + 1 < 8 * p
  /\ 9 * Bit + 3 <= 10 * p

\* The instances the proofs are about.
Setting ==
  /\ DATA_WIDTH = 7
  /\ \A p \in Periods : Tolerated(p)
  /\ MaxFrames < MEMORY_DEPTH

-----------------------------------------------------------------------------
(* The inductive invariant.                                                *)

\* What the receiver stores of a byte.
Low == byte % 128

\* The clock of the frame at which a receiver in this state should be: two clocks behind.
ClockOf(state, shamnt, delay) ==
  CASE state = "START" -> delay + 2
    [] state = "BIT_S" -> (shamnt + 1) * Bit + delay + 2
    [] state = "STOP"  -> 8 * Bit + delay + 2

Clock == ClockOf(rx_state, rx_shamnt, rx_delay)

LineTypeOK ==
  /\ clk \in BOOLEAN
  /\ period \in Periods
  /\ tick \in 0 .. FrameLength
  /\ byte \in 0 .. 255
  /\ rx_state \in {"IDDLE", "START", "BIT_S", "STOP"}
  /\ wr \in BOOLEAN
  /\ rx_delay \in 0 .. DELAY_CLOCKS
  /\ rx_shamnt \in 0 .. 6
  /\ data \in 0 .. 127
  /\ {sent, got} \subseteq Seq(0 .. 127)

\* In a frame the receiver is two clocks behind the terminal; it is idle before, and
\* afterwards until the next frame, and stores the byte at its first idle clock.
StepInv ==
  /\ rx_state # "IDDLE" => tick = Clock
  /\ rx_state = "IDDLE" => tick \in {0, 1} \/ tick >= 9 * Bit + 2
  /\ wr <=> tick = 9 * Bit + 2

\* The bits the receiver has of the current byte.
Bits == IF rx_delay <= Half THEN rx_shamnt ELSE rx_shamnt + 1

DataInv ==
  /\ rx_state = "BIT_S" => data \div 2 ^ (7 - Bits) = byte % 2 ^ Bits
  /\ rx_state = "STOP" \/ wr => data = Low

\* The FIFO has all bytes sent but the one of the current frame.
StoredInv ==
  /\ IF tick = Quiet \/ tick > 9 * Bit + 2 THEN got = sent ELSE sent = Append(got, Low)
  /\ buff_cnt = Len(got)
  /\ Len(sent) <= MaxFrames
  /\ ~rd

FrameInv == LineTypeOK /\ StepInv /\ DataInv /\ StoredInv

-----------------------------------------------------------------------------
(* The line.                                                               *)

\* The types that arithmetic needs.
LEMMA Numbers ==
  ASSUME Setting, LineTypeOK
  PROVE  /\ DELAY_CLOCKS \in Nat /\ DELAY_CLOCKS >= 1 /\ Bit = DELAY_CLOCKS + 1
         /\ Half \in Nat /\ 2 * Half <= DELAY_CLOCKS
         /\ period \in Nat /\ period >= 1 /\ period <= Bit
         /\ 7 * Bit + Half + 1 < 8 * period /\ 9 * Bit + 3 <= 10 * period
         /\ tick \in Nat /\ tick <= 10 * period /\ FrameLength = 10 * period
         /\ rx_delay \in Nat /\ rx_delay <= DELAY_CLOCKS
         /\ rx_shamnt \in {0, 1, 2, 3, 4, 5, 6}
<1>1. DELAY_CLOCKS \in Nat /\ DELAY_CLOCKS >= 1 /\ Bit = DELAY_CLOCKS + 1
  BY FrameAssumption DEF Bit
<1>2. Half \in Nat /\ 2 * Half <= DELAY_CLOCKS
  BY <1>1 DEF Half
<1>3. period \in Periods /\ Tolerated(period)
  BY DEF Setting, LineTypeOK
<1>4. period \in Nat /\ period >= 1
  BY <1>3, PeriodsAssumption
<1>5. tick \in 0 .. 10 * period /\ rx_delay \in 0 .. DELAY_CLOCKS /\ rx_shamnt \in 0 .. 6
  BY DEF LineTypeOK, FrameLength
<1>6. rx_shamnt \in {0, 1, 2, 3, 4, 5, 6}
  BY <1>5
<1> QED BY <1>1, <1>2, <1>3, <1>4, <1>5, <1>6 DEF Tolerated, FrameLength

\* A quotient is known from its bounds.
LEMMA QuotientIs ==
  ASSUME NEW m \in Nat \ {0}, NEW n \in Int, NEW q \in Int, m * q <= n, n < m * q + m
  PROVE  n \div m = q
<1> DEFINE p == n \div m
<1>1. p \in Int /\ n = m * p + (n % m) /\ n % m \in 0 .. m - 1
  OBVIOUS
<1> HIDE DEF p
<1>2. CASE p < q
  <2>1. m * p + m <= m * q
    BY <1>1, <1>2
  <2> QED BY <1>1, <2>1
<1>3. CASE p > q
  <2>1. m * q + m <= m * p
    BY <1>1, <1>3
  <2> QED BY <1>1, <2>1
<1> QED BY <1>1, <1>2, <1>3 DEF p

\* The line is high after the data bits, and low for the start bit.
LEMMA LineOutside ==
  ASSUME Setting, LineTypeOK
  PROVE  /\ tick = 0 => rx = 1
         /\ tick = 1 => rx = 0
         /\ tick >= 9 * Bit + 2 => rx = 1
<1>1. tick = 0 => rx = 1
  <2> SUFFICES ASSUME tick = 0 PROVE rx = 1
    OBVIOUS
  <2>1. BitNumber = -1
    <3>1. period \in Nat \ {0} /\ tick - 1 = -1 /\ period * (-1) = -period
      BY Numbers
    <3>2. (-1) \div period = -1
      BY <3>1, QuotientIs
    <3> QED BY <3>1, <3>2 DEF BitNumber
  <2> QED BY <2>1 DEF rx, Quiet
<1>2. tick = 1 => rx = 0
  <2> SUFFICES ASSUME tick = 1 PROVE rx = 0
    OBVIOUS
  <2>1. BitNumber = 0
    <3>1. period \in Nat \ {0} /\ tick - 1 = 0 /\ period * 0 = 0
      BY Numbers
    <3>2. 0 \div period = 0
      BY <3>1, QuotientIs
    <3> QED BY <3>1, <3>2 DEF BitNumber
  <2> QED BY <2>1 DEF rx, Quiet
<1>3. tick >= 9 * Bit + 2 => rx = 1
  <2> SUFFICES ASSUME tick >= 9 * Bit + 2 PROVE rx = 1
    OBVIOUS
  <2>1. BitNumber = 9
    <3>1. /\ period \in Nat \ {0} /\ tick - 1 \in Nat
          /\ period * 9 <= tick - 1 /\ tick - 1 < period * 9 + period
      BY Numbers
    <3> QED BY <3>1, QuotientIs DEF BitNumber
  <2>2. tick # 0
    BY Numbers
  <2> QED BY <2>1, <2>2 DEF rx, Quiet
<1> QED BY <1>1, <1>2, <1>3

\* A bit of the byte.
ByteBit(k) == (byte \div 2 ^ k) % 2

\* In the middle of the receiver's bit, the terminal's bit of the same number is on the line.
LEMMA SampledBit ==
  ASSUME Setting, LineTypeOK, StepInv, rx_state = "BIT_S", RxSample
  PROVE  rx = ByteBit(rx_shamnt)
<1> DEFINE k == rx_shamnt
<1>1. tick = (k + 1) * Bit + Half + 2
  BY DEF StepInv, Clock, ClockOf, RxSample, Half
<1>2. /\ period \in Nat \ {0} /\ tick - 1 \in Nat /\ k + 1 \in Nat
      /\ period * (k + 1) <= tick - 1 /\ tick - 1 < period * (k + 1) + period
  <2>1. k \in {0, 1, 2, 3, 4, 5, 6}
    BY Numbers
  <2>2. CASE k = 0
    BY <1>1, <2>2, Numbers
  <2>3. CASE k = 1
    BY <1>1, <2>3, Numbers
  <2>4. CASE k = 2
    BY <1>1, <2>4, Numbers
  <2>5. CASE k = 3
    BY <1>1, <2>5, Numbers
  <2>6. CASE k = 4
    BY <1>1, <2>6, Numbers
  <2>7. CASE k = 5
    BY <1>1, <2>7, Numbers
  <2>8. CASE k = 6
    BY <1>1, <2>8, Numbers
  <2> QED BY <2>1, <2>2, <2>3, <2>4, <2>5, <2>6, <2>7, <2>8
<1>3. BitNumber = k + 1
  BY <1>2, QuotientIs DEF BitNumber
<1>4. tick # 0 /\ k + 1 # 0 /\ k + 1 # 9 /\ (k + 1) - 1 = k
  <2>1. k \in {0, 1, 2, 3, 4, 5, 6}
    BY Numbers
  <2> HIDE DEF k
  <2>2. k + 1 # 0 /\ k + 1 # 9 /\ (k + 1) - 1 = k
    BY <2>1
  <2> QED BY <1>2, <2>2, Numbers
<1> QED BY <1>3, <1>4 DEF rx, Quiet, ByteBit

-----------------------------------------------------------------------------
(* A rising edge.                                                          *)

\* The bit sampled joins the others.
LEMMA BitTaken ==
  ASSUME NEW d \in 0 .. 127, NEW x \in 0 .. 255, NEW n \in {0, 1, 2, 3, 4, 5, 6},
         d \div 2 ^ (7 - n) = x % 2 ^ n,
         NEW e, e = ((x \div 2 ^ n) % 2) * 64 + d \div 2
  PROVE  e \in 0 .. 127 /\ e \div 2 ^ (7 - (n + 1)) = x % 2 ^ (n + 1)
<1>1. d \in Int /\ 0 <= d /\ d <= 127 /\ x \in Int /\ 0 <= x /\ x <= 255
  OBVIOUS
<1>2. CASE n = 0
  <2>1. 2 ^ n = 1 /\ 2 ^ (n + 1) = 2 /\ 2 ^ (7 - n) = 128 /\ 2 ^ (7 - (n + 1)) = 64
    BY <1>2
  <2> QED BY <1>1, <2>1, SMTT(30)
<1>3. CASE n = 1
  <2>1. 2 ^ n = 2 /\ 2 ^ (n + 1) = 4 /\ 2 ^ (7 - n) = 64 /\ 2 ^ (7 - (n + 1)) = 32
    BY <1>3
  <2> QED BY <1>1, <2>1, SMTT(30)
<1>4. CASE n = 2
  <2>1. 2 ^ n = 4 /\ 2 ^ (n + 1) = 8 /\ 2 ^ (7 - n) = 32 /\ 2 ^ (7 - (n + 1)) = 16
    BY <1>4
  <2> QED BY <1>1, <2>1, SMTT(30)
<1>5. CASE n = 3
  <2>1. 2 ^ n = 8 /\ 2 ^ (n + 1) = 16 /\ 2 ^ (7 - n) = 16 /\ 2 ^ (7 - (n + 1)) = 8
    BY <1>5
  <2> QED BY <1>1, <2>1, SMTT(30)
<1>6. CASE n = 4
  <2>1. 2 ^ n = 16 /\ 2 ^ (n + 1) = 32 /\ 2 ^ (7 - n) = 8 /\ 2 ^ (7 - (n + 1)) = 4
    BY <1>6
  <2> QED BY <1>1, <2>1, SMTT(30)
<1>7. CASE n = 5
  <2>1. 2 ^ n = 32 /\ 2 ^ (n + 1) = 64 /\ 2 ^ (7 - n) = 4 /\ 2 ^ (7 - (n + 1)) = 2
    BY <1>7
  <2> QED BY <1>1, <2>1, SMTT(30)
<1>8. CASE n = 6
  <2>1. 2 ^ n = 64 /\ 2 ^ (n + 1) = 128 /\ 2 ^ (7 - n) = 2 /\ 2 ^ (7 - (n + 1)) = 1
    BY <1>8
  <2> QED BY <1>1, <2>1, SMTT(30)
<1> QED BY <1>2, <1>3, <1>4, <1>5, <1>6, <1>7, <1>8

\* Where the receiver is in a frame.
LEMMA InFrame ==
  ASSUME Setting, LineTypeOK, StepInv, rx_state # "IDDLE"
  PROVE  tick = Clock /\ 2 <= tick /\ tick <= 9 * Bit + 1 /\ tick < FrameLength /\ ~wr
<1>1. tick = Clock
  BY DEF StepInv
<1>2. 2 <= Clock /\ Clock <= 9 * Bit + 1
  <2>1. CASE rx_state = "START"
    BY <2>1, Numbers DEF Clock, ClockOf
  <2>2. CASE rx_state = "BIT_S"
    <3> DEFINE B == (rx_shamnt + 1) * Bit
    <3>1. B \in Nat /\ B <= 7 * Bit
      BY Numbers
    <3>2. Clock = B + rx_delay + 2
      BY <2>2 DEF Clock, ClockOf
    <3> HIDE DEF B
    <3> QED BY <3>1, <3>2, Numbers
  <2>3. CASE rx_state = "STOP"
    BY <2>3, Numbers DEF Clock, ClockOf
  <2> QED BY <2>1, <2>2, <2>3 DEF LineTypeOK
<1>3. ~wr
  BY <1>1, <1>2, Numbers DEF StepInv
<1> QED BY <1>1, <1>2, <1>3, Numbers

\* Before its last bit the receiver is far from the end of the frame.
LEMMA EarlyClock ==
  ASSUME Setting, LineTypeOK, StepInv, rx_state \in {"START", "BIT_S"}
  PROVE  tick < 8 * Bit + 2 /\ tick + 1 # 9 * Bit + 2
<1>1. tick = Clock
  BY DEF StepInv
<1>2. tick < 8 * Bit + 2
  <2>1. CASE rx_state = "START"
    BY <1>1, <2>1, Numbers DEF Clock, ClockOf
  <2>2. CASE rx_state = "BIT_S"
    <3> DEFINE B == (rx_shamnt + 1) * Bit
    <3>1. B \in Nat /\ B <= 7 * Bit
      BY Numbers
    <3>2. Clock = B + rx_delay + 2
      BY <2>2 DEF Clock, ClockOf
    <3> HIDE DEF B
    <3> QED BY <1>1, <3>1, <3>2, Numbers
  <2> QED BY <2>1, <2>2
<1> QED BY <1>2, Numbers

\* At the end of a frame the receiver has stored it and waits for the next.
LEMMA Over ==
  ASSUME Setting, FrameInv, tick \in {Quiet, FrameLength}
  PROVE  rx_state = "IDDLE" /\ ~wr /\ got = sent
<1>1. rx_state = "IDDLE"
  BY InFrame, Numbers DEF FrameInv, Quiet
<1>2. ~wr
  BY Numbers DEF FrameInv, StepInv, Quiet
<1>3. tick = Quiet \/ tick > 9 * Bit + 2
  BY Numbers DEF FrameInv, Quiet
<1> QED BY <1>1, <1>2, <1>3 DEF FrameInv, StoredInv

\* While a byte is received there is room for it.
LEMMA Room ==
  ASSUME Setting, FrameInv, rx_state # "IDDLE" \/ wr
  PROVE  ~full /\ sent = Append(got, Low)
<1>1. tick # Quiet /\ ~(tick > 9 * Bit + 2)
  BY InFrame, Numbers DEF FrameInv, StepInv, Quiet
<1>2. sent = Append(got, Low)
  BY <1>1 DEF FrameInv, StoredInv
<1>3. got \in Seq(0 .. 127) /\ Low \in 0 .. 127
  BY DEF FrameInv, LineTypeOK, Low
<1>4. Len(sent) = Len(got) + 1 /\ Len(got) \in Nat
  BY <1>2, <1>3, AppendProperties, LenProperties
<1>5. buff_cnt = Len(got) /\ Len(sent) <= MaxFrames /\ MaxFrames < MEMORY_DEPTH
  BY DEF FrameInv, StoredInv, Setting
<1>6. ~full
  BY <1>4, <1>5, MaxFramesAssumption, DepthAssumption DEF full
<1> QED BY <1>2, <1>6

\* What a rising edge does, by the state of the receiver.
LEMMA PosedgeParts ==
  ASSUME Setting, FrameInv, Posedge
  PROVE  /\ RxIdle(rx) \/ RxStart \/ RxBits(rx) \/ RxStop
         /\ FrameStart \/ FrameGoesOn \/ LineQuiet
         /\ rx_state # "IDDLE" \/ tick = 1 => FrameGoesOn
         /\ got' = IF wr THEN Append(got, data) ELSE got
         /\ buff_cnt' = IF wr THEN buff_cnt + 1 ELSE buff_cnt
         /\ rd' = FALSE /\ clk' = TRUE /\ period' = period
<1>1. /\ RxIdle(rx) \/ RxStart \/ RxBits(rx) \/ RxStop
      /\ FrameStart \/ FrameGoesOn \/ LineQuiet
      /\ rd' = FALSE /\ clk' = TRUE /\ period' = period
      /\ FifoCount(wr, rd)
      /\ got' = IF Pushing(wr) THEN Append(got, data) ELSE got
  BY DEF Posedge, UartPosedge, UartBus, Receive, FifoPosedge
<1>2. rx_state # "IDDLE" \/ tick = 1 => tick \notin {Quiet, FrameLength}
  BY Over, Numbers DEF FrameInv, Quiet
<1>3. rx_state # "IDDLE" \/ tick = 1 => FrameGoesOn
  BY <1>1, <1>2 DEF FrameStart, LineQuiet
<1>4. Pushing(wr) <=> wr
  BY Room DEF Pushing
<1>5. ~Popping(rd)
  BY DEF FrameInv, StoredInv, Popping
<1>6. buff_cnt' = IF wr THEN buff_cnt + 1 ELSE buff_cnt
  <2>1. Pushing(wr) \in BOOLEAN /\ Popping(rd) \in BOOLEAN
    BY DEF Pushing, Popping
  <2>2. CASE wr
    <3>1. Pushing(wr) # Popping(rd)
      BY <1>4, <1>5, <2>2
    <3> QED BY <1>1, <1>4, <2>2, <3>1 DEF FifoCount
  <2>3. CASE ~wr
    <3>1. Pushing(wr) = Popping(rd)
      BY <1>4, <1>5, <2>1, <2>3
    <3> QED BY <1>1, <2>3, <3>1 DEF FifoCount
  <2> QED BY <2>2, <2>3
<1> QED BY <1>1, <1>3, <1>4, <1>6

\* The receiver stays two clocks behind the terminal.
LEMMA StepPosedge ==
  ASSUME Setting, FrameInv, Posedge
  PROVE  StepInv'
<1>1. LineTypeOK /\ StepInv
  BY DEF FrameInv
<1>2. tick' \in {0, 1, tick + 1} /\ (FrameGoesOn => tick' = tick + 1)
  BY PosedgeParts DEF FrameStart, FrameGoesOn, LineQuiet, Quiet
<1>3. CASE RxIdle(rx)
  <2>1. rx_state = "IDDLE" /\ wr' = FALSE /\ rx_delay' = 0
    BY <1>3 DEF RxIdle
  <2>2. CASE tick = 1
    <3>1. rx_state' = "START" /\ tick' = 2
      BY <1>1, <1>2, <1>3, <2>2, LineOutside, PosedgeParts DEF RxIdle
    <3>2. Clock' = ClockOf("START", rx_shamnt', 0)
      BY <2>1, <3>1 DEF Clock
    <3>3. Clock' = 2
      BY <3>2 DEF ClockOf
    <3>4. tick' # 9 * Bit + 2
      BY <1>1, <3>1, Numbers
    <3> QED BY <2>1, <3>1, <3>3, <3>4 DEF StepInv, Bit
  <2>3. CASE tick # 1
    <3>1. rx_state' = "IDDLE" /\ (tick = 0 \/ tick >= 9 * Bit + 2)
      BY <1>1, <1>3, <2>1, <2>3, LineOutside DEF RxIdle, StepInv
    <3>2. /\ tick' \in {0, 1} \/ tick' >= 9 * Bit + 2
          /\ tick' # 9 * Bit + 2
      BY <1>1, <1>2, <3>1, Numbers
    <3> QED BY <2>1, <3>1, <3>2 DEF StepInv, Bit
  <2> QED BY <2>2, <2>3
<1>4. CASE rx_state # "IDDLE" /\ (RxStart \/ RxBits(rx) \/ RxStop)
  <2>1. tick = Clock /\ tick' = tick + 1
    BY <1>1, <1>2, <1>4, InFrame, PosedgeParts
  <2>2. CASE rx_delay # DELAY_CLOCKS
    <3>1. /\ rx_state' = rx_state /\ rx_delay' = rx_delay + 1 /\ ~wr'
          /\ rx_state = "BIT_S" => rx_shamnt' = rx_shamnt
      BY <1>1, <1>4, <2>2, InFrame DEF RxStart, RxBits, RxStop, RxDelay, RxBitDone
    <3>2. Clock' = ClockOf(rx_state, rx_shamnt', rx_delay + 1)
      BY <3>1 DEF Clock
    <3>3. Clock' = Clock + 1
      <4>1. CASE rx_state = "START"
        <5>1. Clock = rx_delay + 2 /\ Clock' = (rx_delay + 1) + 2
          BY <3>2, <4>1 DEF Clock, ClockOf
        <5> QED BY <1>1, <5>1, Numbers
      <4>2. CASE rx_state = "BIT_S"
        <5> DEFINE B == (rx_shamnt + 1) * Bit
        <5>1. B \in Nat
          BY <1>1, Numbers
        <5>2. Clock = B + rx_delay + 2 /\ Clock' = B + (rx_delay + 1) + 2
          BY <3>1, <3>2, <4>2 DEF Clock, ClockOf
        <5> HIDE DEF B
        <5> QED BY <1>1, <5>1, <5>2, Numbers
      <4>3. CASE rx_state = "STOP"
        <5>1. Clock = 8 * Bit + rx_delay + 2 /\ Clock' = 8 * Bit + (rx_delay + 1) + 2
          BY <3>2, <4>3 DEF Clock, ClockOf
        <5> QED BY <1>1, <5>1, Numbers
      <4> QED BY <1>1, <1>4, <4>1, <4>2, <4>3 DEF LineTypeOK
    <3>4. tick # 9 * Bit + 1
      <4>1. CASE rx_state = "STOP"
        <5>1. Clock = 8 * Bit + rx_delay + 2
          BY <4>1 DEF Clock, ClockOf
        <5> QED BY <1>1, <2>1, <2>2, <5>1, Numbers
      <4>2. CASE rx_state # "STOP"
        <5>1. rx_state \in {"START", "BIT_S"}
          BY <1>1, <1>4, <4>2 DEF LineTypeOK
        <5> QED BY <1>1, <5>1, EarlyClock, Numbers
      <4> QED BY <4>1, <4>2
    <3>5. tick' # 9 * Bit + 2
      BY <1>1, <2>1, <3>4, Numbers
    <3> QED BY <1>4, <2>1, <3>1, <3>3, <3>5 DEF StepInv, Bit
  <2>3. CASE rx_delay = DELAY_CLOCKS
    <3>1. rx_delay' = 0
      BY <1>4, <2>3 DEF RxStart, RxBits, RxStop, RxDelay, RxBitDone
    <3>2. CASE RxStart
      <4>1. rx_state' = "BIT_S" /\ rx_shamnt' = 0 /\ ~wr'
        BY <2>3, <3>2 DEF RxStart, RxBitDone
      <4>2. Clock' = ClockOf("BIT_S", 0, 0)
        BY <3>1, <4>1 DEF Clock
      <4>3. Clock = DELAY_CLOCKS + 2
        BY <2>3, <3>2 DEF RxStart, Clock, ClockOf
      <4>4. Clock' = Clock + 1
        BY <1>1, <4>2, <4>3, Numbers DEF ClockOf
      <4>5. tick' # 9 * Bit + 2
        <5>1. rx_state \in {"START", "BIT_S"}
          BY <3>2 DEF RxStart
        <5> QED BY <1>1, <2>1, <5>1, EarlyClock
      <4> QED BY <2>1, <4>1, <4>4, <4>5 DEF StepInv, Bit
    <3>3. CASE RxBits(rx) /\ rx_shamnt # 6
      <4>1. rx_state' = "BIT_S" /\ rx_shamnt' = rx_shamnt + 1 /\ ~wr'
        BY <1>1, <2>3, <3>3 DEF RxBits, RxBitDone, Setting
      <4>2. Clock' = ClockOf("BIT_S", rx_shamnt + 1, 0)
        BY <3>1, <4>1 DEF Clock
      <4>3. Clock = (rx_shamnt + 1) * Bit + DELAY_CLOCKS + 2
        BY <2>3, <3>3 DEF RxBits, Clock, ClockOf
      <4>4. Clock' = ((rx_shamnt + 1) + 1) * Bit + 0 + 2
        BY <4>2 DEF ClockOf
      <4>5. Clock' = Clock + 1
        BY <1>1, <4>3, <4>4, Numbers
      <4>6. tick' # 9 * Bit + 2
        <5>1. rx_state \in {"START", "BIT_S"}
          BY <3>3 DEF RxBits
        <5> QED BY <1>1, <2>1, <5>1, EarlyClock
      <4> QED BY <2>1, <4>1, <4>5, <4>6 DEF StepInv, Bit
    <3>4. CASE RxBits(rx) /\ rx_shamnt = 6
      <4>1. rx_state' = "STOP" /\ ~wr'
        BY <1>1, <2>3, <3>4 DEF RxBits, RxBitDone, Setting
      <4>2. Clock' = ClockOf("STOP", rx_shamnt', 0)
        BY <3>1, <4>1 DEF Clock
      <4>3. Clock = 7 * Bit + DELAY_CLOCKS + 2
        BY <2>3, <3>4 DEF RxBits, Clock, ClockOf
      <4>4. Clock' = Clock + 1
        BY <1>1, <4>2, <4>3, Numbers DEF ClockOf
      <4>5. tick' # 9 * Bit + 2
        <5>1. rx_state \in {"START", "BIT_S"}
          BY <3>4 DEF RxBits
        <5> QED BY <1>1, <2>1, <5>1, EarlyClock
      <4> QED BY <2>1, <4>1, <4>4, <4>5 DEF StepInv, Bit
    <3>5. CASE RxStop
      <4>1. rx_state' = "IDDLE" /\ wr' = TRUE
        BY <1>4, <2>3, <3>5, Room DEF RxStop, RxBitDone
      <4>2. Clock = 8 * Bit + DELAY_CLOCKS + 2
        BY <2>3, <3>5 DEF RxStop, Clock, ClockOf
      <4>3. tick' = 9 * Bit + 2
        BY <1>1, <2>1, <4>2, Numbers
      <4> QED BY <1>1, <4>1, <4>3, Numbers DEF StepInv, Bit
    <3> QED BY <1>4, <3>2, <3>3, <3>4, <3>5
  <2> QED BY <2>2, <2>3
<1> QED BY <1>3, <1>4, PosedgeParts DEF RxIdle, RxStart, RxBits, RxStop

\* The frame goes on while the receiver is in it.
LEMMA ByteKept ==
  ASSUME Setting, FrameInv, Posedge, rx_state # "IDDLE"
  PROVE  byte' = byte /\ byte \in 0 .. 255 /\ data \in 0 .. 127
BY PosedgeParts DEF FrameGoesOn, FrameInv, LineTypeOK

\* Of the byte, the receiver has the bits it has sampled, and at the end all.
LEMMA DataPosedge ==
  ASSUME Setting, FrameInv, Posedge
  PROVE  DataInv' /\ data' \in 0 .. 127
<1>1. LineTypeOK /\ StepInv /\ DataInv /\ data \in 0 .. 127
  BY DEF FrameInv, LineTypeOK
<1>2. CASE RxIdle(rx)
  BY <1>1, <1>2 DEF RxIdle, DataInv
<1>3. CASE RxStart
  <2>1. data' = data /\ ~wr'
    BY <1>3 DEF RxStart
  <2>2. CASE ~RxBitDone
    <3>1. rx_state' = "START"
      BY <1>3, <2>2 DEF RxStart
    <3> QED BY <1>1, <2>1, <3>1 DEF DataInv
  <2>3. CASE RxBitDone
    <3>1. rx_state' = "BIT_S" /\ rx_shamnt' = 0 /\ rx_delay' = 0
      BY <1>3, <2>3 DEF RxStart, RxDelay
    <3>2. Bits' = 0
      BY <1>1, <3>1, Numbers DEF Bits, Half
    <3>3. data \div 128 = 0 /\ byte % 1 = 0
      BY <1>1, <1>3, ByteKept DEF RxStart
    <3>4. 2 ^ (7 - 0) = 128 /\ 2 ^ 0 = 1
      OBVIOUS
    <3>5. byte' = byte
      BY <1>3, ByteKept DEF RxStart
    <3>6. data' \div 2 ^ (7 - Bits') = byte' % 2 ^ Bits'
      BY <2>1, <3>2, <3>3, <3>4, <3>5
    <3> QED BY <1>1, <2>1, <3>1, <3>6 DEF DataInv
  <2> QED BY <2>2, <2>3
<1>4. CASE RxBits(rx)
  <2>1. /\ rx_state = "BIT_S" /\ byte' = byte /\ byte \in 0 .. 255 /\ ~wr'
        /\ data \div 2 ^ (7 - Bits) = byte % 2 ^ Bits
    BY <1>1, <1>4, ByteKept DEF RxBits, DataInv
  <2>2. CASE RxSample
    <3>1. rx_delay = Half /\ ~RxBitDone /\ Bits = rx_shamnt
      BY <1>1, <2>2, Numbers DEF RxSample, Half, RxBitDone, Bits
    <3>2. rx_state' = "BIT_S" /\ rx_shamnt' = rx_shamnt /\ rx_delay' = Half + 1
      BY <1>4, <2>1, <3>1 DEF RxBits, RxDelay
    <3>3. Bits' = rx_shamnt + 1
      <4>1. Bits' = IF rx_delay' <= Half THEN rx_shamnt' ELSE rx_shamnt' + 1
        BY DEF Bits, Half
      <4>2. ~(rx_delay' <= Half)
        BY <1>1, <3>2, Numbers
      <4> QED BY <3>2, <4>1, <4>2
    <3>4. data' = ((byte \div 2 ^ rx_shamnt) % 2) * 64 + data \div 2
      <4>1. 2 ^ (DATA_WIDTH - 1) = 64
        <5>1. DATA_WIDTH - 1 = 6 /\ 2 ^ 6 = 64
          BY DEF Setting
        <5> QED BY <5>1
      <4> QED BY <1>1, <1>4, <2>1, <2>2, <4>1, SampledBit DEF RxBits, ByteBit
    <3>5. data' \in 0 .. 127 /\ data' \div 2 ^ (7 - (rx_shamnt + 1)) = byte % 2 ^ (rx_shamnt + 1)
      <4>1. data \div 2 ^ (7 - rx_shamnt) = byte % 2 ^ rx_shamnt
        BY <2>1, <3>1
      <4>2. rx_shamnt \in {0, 1, 2, 3, 4, 5, 6}
        BY <1>1, Numbers
      <4>3. data \in 0 .. 127 /\ byte \in 0 .. 255
        BY <1>1, <2>1
      <4>4. PICK e : e = data'
        OBVIOUS
      <4>5. e = ((byte \div 2 ^ rx_shamnt) % 2) * 64 + data \div 2
        BY <3>4, <4>4
      <4>6. e \in 0 .. 127 /\ e \div 2 ^ (7 - (rx_shamnt + 1)) = byte % 2 ^ (rx_shamnt + 1)
        BY <4>1, <4>2, <4>3, <4>5, BitTaken, ZenonT(60)
      <4> QED BY <4>4, <4>6
    <3>6. data' \div 2 ^ (7 - Bits') = byte' % 2 ^ Bits'
      BY <2>1, <3>3, <3>5
    <3> QED BY <2>1, <3>2, <3>5, <3>6 DEF DataInv
  <2>3. CASE ~RxSample
    <3>1. data' = data /\ rx_delay # Half
      BY <1>4, <2>3 DEF RxBits, RxSample, Half
    <3>2. CASE RxBitDone /\ rx_shamnt = 6
      <4>1. rx_state' = "STOP"
        BY <1>4, <3>2 DEF RxBits, Setting
      <4>2. Bits = 7
        BY <1>1, <3>2, Numbers DEF RxBitDone, Bits
      <4>3. 2 ^ (7 - 7) = 1 /\ 2 ^ 7 = 128
        OBVIOUS
      <4>4. data \div 1 = byte % 128
        BY <2>1, <4>2, <4>3
      <4>5. data' = Low'
        BY <1>1, <2>1, <3>1, <4>4 DEF Low
      <4> QED BY <1>1, <2>1, <3>1, <4>1, <4>5 DEF DataInv
    <3>3. CASE ~(RxBitDone /\ rx_shamnt = 6)
      <4>1. rx_state' = "BIT_S"
        BY <1>4, <2>1, <3>3 DEF RxBits, Setting
      <4>2. /\ rx_delay' = IF RxBitDone THEN 0 ELSE rx_delay + 1
            /\ rx_shamnt' = IF RxBitDone THEN rx_shamnt + 1 ELSE rx_shamnt
        BY <1>4, <3>3 DEF RxBits, RxDelay, Setting
      <4>3. Bits' = IF rx_delay' <= Half THEN rx_shamnt' ELSE rx_shamnt' + 1
        BY DEF Bits, Half
      <4>4. Bits' = Bits
        <5>1. CASE RxBitDone
          <6>1. rx_delay' = 0 /\ rx_shamnt' = rx_shamnt + 1 /\ ~(rx_delay <= Half) /\ 0 <= Half
            BY <1>1, <4>2, <5>1, Numbers DEF RxBitDone
          <6> QED BY <4>3, <6>1 DEF Bits
        <5>2. CASE ~RxBitDone
          <6>1. rx_delay' <= Half <=> rx_delay <= Half
            BY <1>1, <3>1, <4>2, <5>2, Numbers
          <6> QED BY <4>2, <4>3, <5>2, <6>1 DEF Bits
        <5> QED BY <5>1, <5>2
      <4>5. data' \div 2 ^ (7 - Bits') = byte' % 2 ^ Bits'
        BY <2>1, <3>1, <4>4
      <4> QED BY <1>1, <2>1, <3>1, <4>1, <4>5 DEF DataInv
    <3> QED BY <3>2, <3>3
  <2> QED BY <2>2, <2>3
<1>5. CASE RxStop
  <2>1. data' = data /\ byte' = byte /\ data = Low /\ rx_state' \in {"IDDLE", "STOP"}
    BY <1>1, <1>5, ByteKept DEF RxStop, DataInv
  <2> QED BY <1>1, <2>1 DEF DataInv, Low
<1> QED BY <1>2, <1>3, <1>4, <1>5, PosedgeParts

\* The FIFO gets every byte, once, when its frame is over.
LEMMA StoredPosedge ==
  ASSUME Setting, FrameInv, Posedge
  PROVE  StoredInv' /\ {sent', got'} \subseteq Seq(0 .. 127)
<1>1. /\ LineTypeOK /\ StepInv /\ DataInv /\ StoredInv
      /\ sent \in Seq(0 .. 127) /\ got \in Seq(0 .. 127) /\ data \in 0 .. 127
      /\ Len(sent) \in Nat /\ Len(got) \in Nat
  BY LenProperties DEF FrameInv, LineTypeOK
<1>2. got' \in Seq(0 .. 127) /\ Len(got') = IF wr THEN Len(got) + 1 ELSE Len(got)
  <2>1. Append(got, data) \in Seq(0 .. 127) /\ Len(Append(got, data)) = Len(got) + 1
    BY <1>1, AppendProperties
  <2> QED BY <1>1, <2>1, PosedgeParts
<1>3. buff_cnt' = Len(got')
  BY <1>1, <1>2, PosedgeParts DEF StoredInv
<1>4. CASE FrameStart
  <2>1. got = sent /\ got' = got /\ Len(sent) < MaxFrames /\ tick' = 1
    BY <1>4, Over, PosedgeParts DEF FrameStart
  <2>2. sent' = Append(got', Low')
    <3>1. 2 ^ DATA_WIDTH = 128
      <4>1. 2 ^ 7 = 128
        OBVIOUS
      <4> QED BY <4>1 DEF Setting
    <3> QED BY <1>4, <2>1, <3>1 DEF FrameStart, Low
  <2>3. Low' \in 0 .. 127
    <3>1. byte' \in 0 .. 255
      BY <1>4, SentAssumption DEF FrameStart
    <3>2. Low' = byte' % 128
      BY DEF Low
    <3>3. \A b \in 0 .. 255 : b % 128 \in 0 .. 127
      OBVIOUS
    <3> QED BY <3>1, <3>2, <3>3
  <2>4. sent' \in Seq(0 .. 127) /\ Len(sent') = Len(got) + 1
    BY <1>1, <2>1, <2>2, <2>3, AppendProperties
  <2>5. Len(sent') <= MaxFrames
    BY <1>1, <2>1, <2>4, MaxFramesAssumption
  <2>6. ~(tick' = Quiet \/ tick' > 9 * Bit + 2)
    BY <1>1, <2>1, Numbers DEF Quiet
  <2>7. StoredInv'
    BY <1>3, <2>2, <2>5, <2>6, PosedgeParts DEF StoredInv, Quiet, Bit
  <2> QED BY <1>2, <2>4, <2>7
<1>5. CASE LineQuiet
  <2>1. got' = got /\ sent' = sent /\ got = sent /\ tick' = Quiet
    BY <1>5, Over, PosedgeParts DEF LineQuiet
  <2> QED BY <1>1, <1>3, <2>1, PosedgeParts DEF StoredInv, Quiet
<1>6. CASE FrameGoesOn
  <2>1. sent' = sent /\ byte' = byte /\ tick' = tick + 1 /\ tick # Quiet /\ tick \in Nat
    BY <1>1, <1>6, Numbers DEF FrameGoesOn, Quiet
  <2>2. CASE wr
    <3>1. got' = sent'
      BY <1>1, <2>1, <2>2, Room, PosedgeParts DEF DataInv
    <3>2. tick' > 9 * Bit + 2
      BY <1>1, <2>1, <2>2, Numbers DEF StepInv
    <3> QED BY <1>1, <1>2, <1>3, <2>1, <3>1, <3>2, PosedgeParts DEF StoredInv, Bit
  <2>3. CASE ~wr
    <3>1. tick # 9 * Bit + 2
      BY <1>1, <2>3 DEF StepInv
    <3>2. got' = got /\ Low' = Low
      BY <2>1, <2>3, PosedgeParts DEF Low
    <3>3. tick' # Quiet /\ (tick' > 9 * Bit + 2 <=> tick > 9 * Bit + 2)
      <4>1. tick + 1 # 0 /\ (tick + 1 > 9 * Bit + 2 <=> tick > 9 * Bit + 2)
        <5>1. tick \in Nat /\ Bit \in Nat
          <6>1. LineTypeOK
            BY <1>1
          <6> QED BY <6>1, Numbers
        <5> QED BY <3>1, <5>1
      <4>2. tick' # Quiet
        BY <2>1, <4>1 DEF Quiet
      <4>3. tick' > 9 * Bit + 2 <=> tick + 1 > 9 * Bit + 2
        BY <2>1
      <4> QED BY <4>1, <4>2, <4>3
    <3>4. IF tick' > 9 * Bit + 2 THEN got' = sent' ELSE sent' = Append(got', Low')
      BY <1>1, <2>1, <3>2, <3>3 DEF StoredInv
    <3> QED BY <1>1, <1>2, <1>3, <2>1, <3>3, <3>4, PosedgeParts DEF StoredInv, Bit, Quiet
  <2> QED BY <2>2, <2>3
<1> QED BY <1>4, <1>5, <1>6, PosedgeParts

\* The types, but those of the bytes.
LEMMA TypePosedge ==
  ASSUME Setting, FrameInv, Posedge
  PROVE  /\ clk' \in BOOLEAN /\ period' \in Periods /\ tick' \in 0 .. FrameLength'
         /\ byte' \in 0 .. 255 /\ wr' \in BOOLEAN
         /\ rx_state' \in {"IDDLE", "START", "BIT_S", "STOP"}
         /\ rx_delay' \in 0 .. DELAY_CLOCKS /\ rx_shamnt' \in 0 .. 6
<1>1. LineTypeOK
  BY DEF FrameInv
<1>2. clk' \in BOOLEAN /\ period' \in Periods
  BY <1>1, PosedgeParts DEF LineTypeOK
<1>3. tick' \in 0 .. FrameLength'
  <2>1. FrameLength' = FrameLength /\ FrameLength \in Nat /\ FrameLength >= 1
    <3>1. period' = period
      BY PosedgeParts
    <3>2. FrameLength \in Nat /\ FrameLength >= 1
      BY <1>1, Numbers
    <3> QED BY <3>1, <3>2 DEF FrameLength
  <2>2. tick \in 0 .. FrameLength
    BY <1>1 DEF LineTypeOK
  <2>3. tick' \in 0 .. FrameLength
    BY <2>1, <2>2, PosedgeParts DEF FrameStart, FrameGoesOn, LineQuiet, Quiet
  <2> QED BY <2>1, <2>3
<1>4. byte' \in 0 .. 255
  <2>1. FrameStart \/ FrameGoesOn \/ LineQuiet
    BY PosedgeParts
  <2>2. byte' \in Sent \/ byte' = byte
    BY <2>1 DEF FrameStart, FrameGoesOn, LineQuiet
  <2>3. byte \in 0 .. 255
    BY <1>1 DEF LineTypeOK
  <2>4. CASE byte' \in Sent
    BY <2>4, SentAssumption
  <2>5. CASE byte' = byte
    BY <2>3, <2>5
  <2> QED BY <2>2, <2>4, <2>5
<1> USE DEF RxIdle, RxStart, RxBits, RxStop
<1>5. wr' \in BOOLEAN /\ rx_state' \in {"IDDLE", "START", "BIT_S", "STOP"}
  <2>1. RxIdle(rx) \/ RxStart \/ RxBits(rx) \/ RxStop
    BY PosedgeParts
  <2>2. wr \in BOOLEAN
    BY <1>1 DEF LineTypeOK
  <2>3. wr' \in BOOLEAN
    BY <2>1, <2>2
  <2>4. rx_state' \in {"IDDLE", "START", "BIT_S", "STOP"}
    BY <2>1
  <2> QED BY <2>3, <2>4
<1>6. rx_delay' \in 0 .. DELAY_CLOCKS
  <2>1. rx_delay' \in {0, IF rx_delay = DELAY_CLOCKS THEN 0 ELSE rx_delay + 1}
    <3>1. RxIdle(rx) \/ RxStart \/ RxBits(rx) \/ RxStop
      BY PosedgeParts
    <3> QED BY <3>1 DEF RxDelay, RxBitDone
  <2> QED BY <1>1, <2>1, Numbers
<1>7. rx_shamnt' \in 0 .. 6
  <2> DEFINE Moved == rx_shamnt' = 0 \/ rx_shamnt' = rx_shamnt
                      \/ (rx_shamnt # 6 /\ rx_shamnt' = rx_shamnt + 1)
  <2>1. Moved
    <3>1. DATA_WIDTH - 1 = 6
      BY DEF Setting
    <3>2. RxBits(rx) => Moved
      BY <3>1
    <3>3. RxIdle(rx) \/ RxStart \/ RxStop => Moved
      OBVIOUS
    <3> QED BY <3>2, <3>3, PosedgeParts
  <2> QED BY <1>1, <2>1, Numbers
<1> QED BY <1>2, <1>3, <1>4, <1>5, <1>6, <1>7

\* The invariant holds at first.
LEMMA FrameInit == Setting /\ Init => FrameInv
<1> SUFFICES ASSUME Setting, Init PROVE FrameInv
  OBVIOUS
<1>1. /\ clk = TRUE /\ period \in Periods /\ tick = 0 /\ byte = 0 /\ sent = << >> /\ got = << >>
      /\ rx_state = "IDDLE" /\ wr = FALSE /\ rx_delay = 0 /\ rx_shamnt = 0 /\ data = 0
      /\ rd = FALSE /\ buff_cnt = 0
  BY DEF Init, UartInit, FifoInit, Quiet
<1>2. /\ period \in Nat /\ FrameLength \in Nat
      /\ DELAY_CLOCKS \in Nat /\ Bit \in Nat /\ ~(0 = 9 * Bit + 2)
  BY <1>1, PeriodsAssumption, FrameAssumption DEF FrameLength, Bit
<1>3. << >> \in Seq(0 .. 127) /\ Len(<< >>) = 0
  BY EmptySeq
<1>4. LineTypeOK
  <2>1. {sent, got} \subseteq Seq(0 .. 127)
    BY <1>1, <1>3
  <2>2. /\ tick \in 0 .. FrameLength /\ byte \in 0 .. 255 /\ data \in 0 .. 127
        /\ rx_delay \in 0 .. DELAY_CLOCKS /\ rx_shamnt \in 0 .. 6
    BY <1>1, <1>2
  <2> QED BY <1>1, <2>1, <2>2 DEF LineTypeOK
<1>5. StepInv
  BY <1>1, <1>2 DEF StepInv
<1>6. DataInv
  BY <1>1 DEF DataInv
<1>7. StoredInv
  BY <1>1, <1>3, MaxFramesAssumption DEF StoredInv, Quiet
<1> QED BY <1>4, <1>5, <1>6, <1>7 DEF FrameInv

\* Every step keeps the invariant.
LEMMA FrameStep == Setting /\ FrameInv /\ [Next]_vars => FrameInv'
<1> SUFFICES ASSUME Setting, FrameInv, [Next]_vars PROVE FrameInv'
  OBVIOUS
<1>1. CASE Posedge
  <2>1. LineTypeOK'
    BY <1>1, TypePosedge, DataPosedge, StoredPosedge DEF LineTypeOK
  <2> QED BY <1>1, <2>1, StepPosedge, DataPosedge, StoredPosedge DEF FrameInv
<1>2. CASE Negedge \/ UNCHANGED vars
  <2>1. /\ UNCHANGED <<rx_state, wr, rx_delay, rx_shamnt, data, rd, buff_cnt>>
        /\ UNCHANGED <<period, tick, byte, sent, got>>
        /\ clk' \in {FALSE, clk}
    BY <1>2 DEF Negedge, UartNegedge, FifoNegedge, ptrVars, receiverVars, lineVars, vars, uartVars,
      fifoVars
  <2>2. LineTypeOK'
    BY <2>1 DEF FrameInv, LineTypeOK, FrameLength
  <2>3. StepInv'
    BY <2>1 DEF FrameInv, StepInv, Clock
  <2>4. DataInv'
    BY <2>1 DEF FrameInv, DataInv, Bits, Low
  <2>5. StoredInv'
    BY <2>1 DEF FrameInv, StoredInv, Low
  <2> QED BY <2>2, <2>3, <2>4, <2>5 DEF FrameInv
<1> QED BY <1>1, <1>2 DEF Next

\* Appended to, a sequence is a prefix.
LEMMA PrefixOfAppend ==
  ASSUME NEW S, NEW q \in Seq(S), NEW e \in S
  PROVE  IsPrefix(q, q) /\ IsPrefix(q, Append(q, e))
<1>1. Append(q, e) \in Seq(S) /\ Len(Append(q, e)) = Len(q) + 1 /\ Len(q) \in Nat
  BY AppendProperties, LenProperties
<1>2. SubSeq(q, 1, Len(q)) = q
  BY SubSeqFull
<1>3. SubSeq(Append(q, e), 1, Len(q)) = q
  <2>1. Append(q, e) = q \o << e >> /\ << e >> \in Seq(S)
    BY AppendIsConcat
  <2>2. CASE Len(q) = 0
    <3>1. q = << >>
      BY <2>2, EmptySeq
    <3>2. SubSeq(Append(q, e), 1, 0) = << >>
      BY <1>1, SubSeqEmpty
    <3> QED BY <2>2, <3>1, <3>2
  <2>3. CASE Len(q) # 0
    <3>1. 1 \in 1 .. Len(q) /\ Len(q) \in 1 .. Len(q)
      BY <1>1, <2>3
    <3>2. SubSeq(q \o << e >>, 1, Len(q)) = SubSeq(q, 1, Len(q))
      BY <2>1, <3>1, SubSeqOfConcat1
    <3> QED BY <1>2, <2>1, <3>2
  <2> QED BY <2>2, <2>3
<1> QED BY <1>1, <1>2, <1>3 DEF IsPrefix

-----------------------------------------------------------------------------
(* The theorems.                                                           *)

\* What the runs check is in the invariant.
LEMMA FrameGood ==
  ASSUME Setting, FrameInv
  PROVE  FramesReceived /\ StoredInTime
<1>1. got \in Seq(0 .. 127) /\ Low \in 0 .. 127
  BY DEF FrameInv, LineTypeOK, Low
<1>2. sent = got \/ sent = Append(got, Low)
  BY DEF FrameInv, StoredInv
<1>3. FramesReceived
  BY <1>1, <1>2, PrefixOfAppend DEF FramesReceived
<1>4. StoredInTime
  BY Over DEF StoredInTime
<1> QED BY <1>3, <1>4

\* From a terminal whose clock is tolerated, the receiver stores the low bits of every byte
\* sent, in order, and nothing else: whatever the bytes and the pauses.
THEOREM FramesCorrect == ASSUME Setting PROVE Spec => []FramesReceived
<1>1. Init => FrameInv
  BY FrameInit
<1>2. FrameInv /\ [Next]_vars => FrameInv'
  BY FrameStep
<1>3. FrameInv => FramesReceived
  BY FrameGood
<1> QED BY <1>1, <1>2, <1>3, PTL DEF Spec

\* And each when its frame is over.
THEOREM InTimeCorrect == ASSUME Setting PROVE Spec => []StoredInTime
<1>1. Init => FrameInv
  BY FrameInit
<1>2. FrameInv /\ [Next]_vars => FrameInv'
  BY FrameStep
<1>3. FrameInv => StoredInTime
  BY FrameGood
<1> QED BY <1>1, <1>2, <1>3, PTL DEF Spec

\* The constants of uart_slave.sv tolerate the periods from 205 to 218 clocks, nominally 217.
THEOREM RealSpeed ==
  ASSUME DATA_WIDTH = 7, DELAY_CLOCKS = 217, Periods \subseteq 205 .. 218,
         MaxFrames < MEMORY_DEPTH
  PROVE  Spec => [](FramesReceived /\ StoredInTime)
<1>1. Bit = 218 /\ Half = 108
  BY DEF Bit, Half
<1>2. \A p \in 205 .. 218 : Tolerated(p)
  BY <1>1 DEF Tolerated
<1>3. Setting
  BY <1>2 DEF Setting
<1> QED BY <1>3, FramesCorrect, InTimeCorrect, PTL

=============================================================================
