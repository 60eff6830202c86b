---------------------------- MODULE SerialProofs ----------------------------
(***************************************************************************)
(* The serial devices, for every width of a byte, length of a bit and      *)
(* depth of the FIFOs: the types; that the console never drops a byte it   *)
(* has acknowledged; that a terminal at the console's speed hears what was *)
(* written, in order, over resets; and that the receiver stores each frame *)
(* once.                                                                   *)
(***************************************************************************)
EXTENDS Serial, Integers, FiniteSetTheorems, FunctionTheorems, SequenceTheorems, TLAPS

-----------------------------------------------------------------------------
(* The console's FIFO, whatever the master does and over resets, if it has *)
(* three slots or more.  (With two, the stale byte a reset leaves fills    *)
(* it.)                                                                    *)

\* con_wr is up for one clock, during which the byte has room; a reset may keep it up,
\* but then the FIFO is empty.
RoomInv ==
  /\ tx_buff_cnt \in 0 .. CONSOLE_DEPTH - 1
  /\ wb_states \in {"IDDLE_WB", "TAKE_WB"}
  /\ con_wr => /\ tx_buff_cnt # CONSOLE_DEPTH - 1
               /\ wb_states = "IDDLE_WB" => tx_buff_cnt = 0

\* The invariant holds after the power-on reset.
LEMMA RoomInit ==
  ASSUME CONSOLE_DEPTH \in Nat, CONSOLE_DEPTH >= 3, Init
  PROVE  RoomInv
  BY DEF Init, RoomInv, console!ConsoleInit, console!FifoInit

\* Every edge keeps it, a reset included.
LEMMA RoomStep ==
  ASSUME CONSOLE_DEPTH \in Nat, CONSOLE_DEPTH >= 3, RoomInv, [Next]_vars
  PROVE  RoomInv'
<1> USE DEF RoomInv
<1>1. CASE Posedge
  <2>1. /\ console!ConsoleBus(rst, ConsoleCYC)
        /\ console!FifoPosedge(rst, con_wr, con_rd)
    BY <1>1 DEF Posedge, console!ConsolePosedge
  <2>2. CASE rst
    BY <2>1, <2>2 DEF console!ConsoleBus, console!ConsoleBusReset, console!ConsoleTake,
      console!ConsoleBusIdle, console!FifoPosedge, console!FifoReset, console!FifoCount
  <2>3. CASE ~rst
    <3>1. tx_buff_cnt' \in 0 .. CONSOLE_DEPTH - 1
      BY <2>1, <2>3 DEF console!FifoPosedge, console!FifoCount, console!Pushing,
        console!Popping, console!full, console!empty
    <3>2. tx_buff_cnt' <= (IF con_wr THEN tx_buff_cnt + 1 ELSE tx_buff_cnt)
      BY <2>1, <2>3 DEF console!FifoPosedge, console!FifoCount, console!Pushing,
        console!Popping, console!full, console!empty
    <3>3. CASE console!ConsoleTake(ConsoleCYC)
      BY <3>1, <3>2, <3>3 DEF console!ConsoleTake, console!full
    <3>4. CASE console!ConsoleBusIdle(ConsoleCYC)
      BY <3>1, <3>4 DEF console!ConsoleBusIdle
    <3> QED BY <2>1, <2>3, <3>3, <3>4 DEF console!ConsoleBus
  <2> QED BY <2>2, <2>3
<1>2. CASE Negedge
  BY <1>2 DEF Negedge, console!ConsoleNegedge, console!FifoNegedge, console!ptrVars,
    console!consoleBusVars
<1>3. CASE UNCHANGED vars
  BY <1>3 DEF vars, console!consoleVars, console!fifoVars, console!consoleBusVars
<1> QED BY <1>1, <1>2, <1>3 DEF Next

\* A byte the console acknowledges finds room in the FIFO.
THEOREM ConsoleKeeps ==
  ASSUME CONSOLE_DEPTH \in Nat, CONSOLE_DEPTH >= 3
  PROVE  Spec => []AcceptedNotDropped
<1>1. Init => RoomInv
  BY RoomInit
<1>2. RoomInv /\ [Next]_vars => RoomInv'
  BY RoomStep
<1>3. RoomInv => AcceptedNotDropped
  BY DEF RoomInv, AcceptedNotDropped, console!full
<1> QED BY <1>1, <1>2, <1>3, PTL DEF Spec

-----------------------------------------------------------------------------
(* Powers of two and division.                                             *)

\* As many subsets as there are numbers of n bits: what a power of two is, and the next.
LEMMA Power ==
  ASSUME NEW n \in Nat
  PROVE  2 ^ n \in Nat \ {0} /\ 2 ^ (n + 1) = 2 * 2 ^ n
<1> DEFINE S == 1 .. n
           T == 1 .. n + 1
           with == {U \in SUBSET T : n + 1 \in U}
           f == [U \in SUBSET S |-> U \cup {n + 1}]
<1>1. /\ IsFiniteSet(S) /\ Cardinality(S) = n
      /\ IsFiniteSet(T) /\ Cardinality(T) = n + 1
  BY FS_Interval
<1>2. /\ IsFiniteSet(SUBSET S) /\ Cardinality(SUBSET S) = 2 ^ n
      /\ Cardinality(SUBSET T) = 2 ^ (n + 1)
  BY <1>1, FS_SUBSET
<1>3. f \in Bijection(SUBSET S, with)
  <2>1. f \in [SUBSET S -> with]
    <3>1. \A U \in SUBSET S : U \cup {n + 1} \in with
      OBVIOUS
    <3> QED BY <3>1
  <2>2. \A U, V \in SUBSET S : f[U] = f[V] => U = V
    <3> SUFFICES ASSUME NEW U \in SUBSET S, NEW V \in SUBSET S, f[U] = f[V] PROVE U = V
      OBVIOUS
    <3>1. U \cup {n + 1} = V \cup {n + 1}
      OBVIOUS
    <3>2. n + 1 \notin U /\ n + 1 \notin V
      OBVIOUS
    <3> QED BY <3>1, <3>2
  <2>3. \A V \in with : \E U \in SUBSET S : f[U] = V
    <3> SUFFICES ASSUME NEW V \in with PROVE \E U \in SUBSET S : f[U] = V
      OBVIOUS
    <3>1. V \ {n + 1} \in SUBSET S
      OBVIOUS
    <3>2. f[V \ {n + 1}] = V
      BY <3>1
    <3> QED BY <3>1, <3>2
  <2> QED BY <2>1, <2>2, <2>3, Fun_IsBij
<1>4. IsFiniteSet(with) /\ Cardinality(with) = 2 ^ n
  BY <1>2, <1>3, FS_Bijection DEF ExistsBijection
<1>5. SUBSET T = (SUBSET S) \cup with /\ (SUBSET S) \cap with = {}
  <2>1. ASSUME NEW U \in SUBSET T, U \notin with PROVE U \in SUBSET S
    BY <2>1
  <2> QED BY <2>1
<1>6. Cardinality(SUBSET T) = 2 ^ n + 2 ^ n
  <2> DEFINE A == SUBSET S
  <2>1. IsFiniteSet(A) /\ IsFiniteSet(with) /\ Cardinality({}) = 0
    BY <1>2, <1>4, FS_EmptySet
  <2>2. A \cap with = {} /\ SUBSET T = A \cup with
    BY <1>5
  <2> HIDE DEF A, with, T
  <2>3. Cardinality(A \cup with) = Cardinality(A) + Cardinality(with) - Cardinality(A \cap with)
    BY <2>1, FS_Union
  <2>4. Cardinality(A) = 2 ^ n /\ Cardinality(with) = 2 ^ n
    BY <1>2, <1>4 DEF A
  <2>5. 2 ^ n \in Nat
    BY <2>1, <2>4, FS_CardinalityType
  <2> DEFINE p == 2 ^ n
  <2>6. p \in Nat /\ Cardinality(A) = p /\ Cardinality(with) = p
    BY <2>4, <2>5
  <2> HIDE DEF p
  <2>7. Cardinality(A \cap with) = 0
    BY <2>1, <2>2, Zenon
  <2>8. Cardinality(A \cup with) = p + p
    BY <2>3, <2>6, <2>7
  <2> QED BY <2>2, <2>8, Zenon DEF p
<1>7. 2 ^ n \in Nat
  BY <1>2, FS_CardinalityType
<1>8. {} \in SUBSET S
  OBVIOUS
<1>9. 2 ^ n # 0
  BY <1>2, <1>8, FS_EmptySet
<1> QED BY <1>2, <1>6, <1>7, <1>9

\* Division, for any divisor.
LEMMA Quotient ==
  ASSUME NEW m \in Nat \ {0}, NEW q \in Nat, NEW r \in Nat, r < m
  PROVE  (m * q + r) \div m = q /\ (m * q + r) % m = r
<1> DEFINE n == m * q + r
           p == n \div m
<1>1. n \in Nat /\ p \in Nat /\ n % m \in 0 .. m - 1 /\ n = m * p + (n % m)
  OBVIOUS
<1> HIDE DEF p
<1>2. CASE p < q
  <2>1. m * p + m <= m * q
    BY <1>1, <1>2
  <2> QED BY <1>1, <2>1
<1>3. CASE p > q
  <2>1. m * q + m <= m * p
    BY <1>1, <1>3
  <2> QED BY <1>1, <2>1
<1>4. p = q
  BY <1>1, <1>2, <1>3
<1> QED BY <1>1, <1>4 DEF p

\* A number below the divisor.
LEMMA SmallQuotient ==
  ASSUME NEW m \in Nat \ {0}, NEW n \in Nat, n < m
  PROVE  n \div m = 0 /\ n % m = n
<1>1. (m * 0 + n) \div m = 0 /\ (m * 0 + n) % m = n
  BY Quotient
<1>2. m * 0 = 0
  OBVIOUS
<1>3. m * 0 + n = n
  BY <1>2
<1> QED BY <1>1, <1>3

\* What division is.
LEMMA Divided ==
  ASSUME NEW m \in Nat \ {0}, NEW n \in Nat
  PROVE  /\ n \div m \in Nat /\ n % m \in 0 .. m - 1
         /\ n = m * (n \div m) + (n % m)
  OBVIOUS

\* A number d of which the upper part h, above its lower factor 2R, is the remainder of x by Q:
\* shifted down by one bit, with the next bit of x put on top, it has the
\* remainder of x by 2Q above its lower factor R.
LEMMA Shifted ==
  ASSUME NEW Q \in Nat \ {0}, NEW R \in Nat \ {0}, NEW d \in Nat, NEW x \in Nat,
         d \div (2 * R) = x % Q, d < 2 * (R * Q)
  PROVE  LET e == ((x \div Q) % 2) * (R * Q) + d \div 2
         IN e \div R = x % (2 * Q) /\ e \in Nat /\ e < 2 * (R * Q)
<1> DEFINE h == x % Q
           l == d % (2 * R)
           y == x \div Q
           b == y % 2
           z == y \div 2
           k == l \div 2
           e == b * (R * Q) + d \div 2
<1>1. /\ l \in Nat /\ l < 2 * R /\ d = (2 * R) * h + l
      /\ h \in Nat /\ h < Q /\ y \in Nat /\ x = Q * y + h
  <2> DEFINE m == 2 * R
  <2>1. /\ m \in Nat \ {0} /\ d \div m = h
        /\ d \div m \in Nat /\ d % m \in 0 .. m - 1 /\ d = m * (d \div m) + (d % m)
    <3>1. m \in Nat \ {0} /\ d \div m = h
      OBVIOUS
    <3> HIDE DEF m, h
    <3> QED BY <3>1, Divided
  <2>2. h \in 0 .. Q - 1 /\ y \in Nat /\ x = Q * y + h
    BY Divided
  <2> HIDE DEF h, y
  <2>3. l = d % m
    OBVIOUS
  <2> HIDE DEF l, m
  <2>4. l \in Nat /\ l < m /\ d = m * h + l
    BY <2>1, <2>3
  <2> QED BY <2>2, <2>4 DEF m
<1> HIDE DEF h, l, y
<1>2. b \in {0, 1} /\ z \in Nat /\ y = 2 * z + b /\ k \in Nat /\ k < R /\ l - 2 * k \in {0, 1}
  BY <1>1
<1> HIDE DEF b, z, k
<1>3. d = 2 * (R * h + k) + (l - 2 * k)
  BY <1>1, <1>2
<1>4. R * h + k \in Nat
  BY <1>1, <1>2
<1>5. d \div 2 = R * h + k
  BY <1>2, <1>3, <1>4
<1>6. e = R * (b * Q + h) + k /\ b * Q + h \in Nat
  <2>1. CASE b = 0
    BY <1>1, <1>2, <1>5, <2>1
  <2>2. CASE b = 1
    BY <1>1, <1>2, <1>5, <2>2
  <2> QED BY <1>2, <2>1, <2>2
<1> DEFINE u == b * Q + h
<1>7. e \div R = u
  <2>1. e = R * u + k /\ u \in Nat
    BY <1>6
  <2> HIDE DEF e, u
  <2> QED BY <1>2, <2>1, Quotient
<1>8. x = (2 * Q) * z + (b * Q + h) /\ b * Q + h < 2 * Q
  <2>1. CASE b = 0
    BY <1>1, <1>2, <2>1
  <2>2. CASE b = 1
    BY <1>1, <1>2, <2>2
  <2> QED BY <1>2, <2>1, <2>2
<1>9. x % (2 * Q) = u
  <2> DEFINE m == 2 * Q
  <2>1. x = m * z + u /\ u < m /\ u \in Nat /\ m \in Nat \ {0}
    BY <1>6, <1>8
  <2> HIDE DEF m, u
  <2>2. (m * z + u) % m = u
    BY <1>2, <2>1, Quotient
  <2> QED BY <2>1, <2>2 DEF m
<1>10. e \in Nat /\ e < 2 * (R * Q)
  <2>1. R * Q \in Nat /\ d \div 2 \in Nat /\ d \div 2 < R * Q
    OBVIOUS
  <2>2. CASE b = 0
    BY <2>1, <2>2
  <2>3. CASE b = 1
    BY <2>1, <2>3
  <2> QED BY <1>2, <2>1, <2>2, <2>3
<1> QED BY <1>7, <1>9, <1>10 DEF b, y

\* The powers that occur, and that the library's arithmetic knows.
LEMMA Widths ==
  /\ 2 ^ 0 = 1
  /\ 2 ^ DATA_WIDTH \in Nat \ {0}
  /\ 2 ^ (DATA_WIDTH - 1) \in Nat \ {0}
  /\ 2 ^ DATA_WIDTH = 2 * 2 ^ (DATA_WIDTH - 1)
  /\ 2 ^ (DATA_WIDTH + 1) = 2 * 2 ^ DATA_WIDTH
<1>1. 2 ^ 0 = 1
  OBVIOUS
<1>2. DATA_WIDTH \in Nat /\ DATA_WIDTH - 1 \in Nat /\ (DATA_WIDTH - 1) + 1 = DATA_WIDTH
  BY FrameAssumption
<1>3. 2 ^ (DATA_WIDTH - 1) \in Nat \ {0} /\ 2 ^ ((DATA_WIDTH - 1) + 1) = 2 * 2 ^ (DATA_WIDTH - 1)
  BY <1>2, Power
<1>4. 2 ^ DATA_WIDTH \in Nat \ {0} /\ 2 ^ (DATA_WIDTH + 1) = 2 * 2 ^ DATA_WIDTH
  BY <1>2, Power
<1> QED BY <1>1, <1>2, <1>3, <1>4

-----------------------------------------------------------------------------
(* Types.                                                                  *)

\* Everything has its type after the power-on reset.
LEMMA TypeInit == Init => TypeOK
<1> SUFFICES ASSUME Init PROVE TypeOK
  OBVIOUS
<1>1. 0 \in Value
  BY ValueAssumption, Widths
<1>2. UartTypeOK
  <2>1. UartInit
    BY DEF Init
  <2>2. FifoTypeOK
    BY <1>1, <2>1, DepthAssumption DEF UartInit, FifoInit, FifoTypeOK, Slot
  <2>3. 0 \in 0 .. 2 ^ DATA_WIDTH - 1
    BY Widths
  <2>4. wr \in BOOLEAN /\ rd \in BOOLEAN /\ ack_s \in BOOLEAN
    BY <2>1 DEF UartInit
  <2>5. rx_state \in {"IDDLE", "START", "BIT_S", "STOP"}
    BY <2>1 DEF UartInit
  <2>6. rx_delay \in 0 .. DELAY_CLOCKS /\ rx_shamnt \in 0 .. DATA_WIDTH - 1
    BY <2>1, FrameAssumption DEF UartInit
  <2>7. data \in 0 .. 2 ^ DATA_WIDTH - 1
    BY <2>1, <2>3 DEF UartInit
  <2> QED BY <2>2, <2>4, <2>5, <2>6, <2>7 DEF UartTypeOK
<1>3. console!ConsoleTypeOK
  <2> USE DEF Init, console!ConsoleInit
  <2>1. console!FifoTypeOK
    BY <1>1, ConsoleAssumption DEF console!FifoInit, console!FifoTypeOK, console!Slot
  <2>2. con_wr \in BOOLEAN /\ ACK_S \in BOOLEAN /\ con_rd \in BOOLEAN
    OBVIOUS
  <2>3. wb_states \in {"IDDLE_WB", "TAKE_WB"} /\ tx_state \in console!LineState
    BY DEF console!LineState
  <2>4. /\ tx_delay \in 0 .. CONSOLE_DELAY /\ tx_shamnt \in 0 .. DATA_WIDTH - 1
        /\ tx_data \in console!DataByte /\ tx \in console!Bit
    BY FrameAssumption, ConsoleAssumption, Widths DEF console!DataByte, console!Bit
  <2> QED BY <2>1, <2>2, <2>3, <2>4 DEF console!ConsoleTypeOK
<1>4. 0 \in DataWord
  BY DEF DataWord
<1>5. << >> \in Seq(Value)
  OBVIOUS
<1>6. {stale, sent, heard, framed, got, taken} \subseteq Seq(Value)
  BY <1>5 DEF Init
<1>8. /\ rst_held \in 0 .. RESET_CLOCKS /\ ear_bit \in 0 .. DATA_WIDTH + 2
      /\ ear_clk \in 0 .. LISTEN_CLOCKS - 1 /\ ear_byte \in Value
      /\ ear_bit = DATA_WIDTH + 2 => ear_clk <= LISTEN_CLOCKS \div 2
  BY <1>1, FrameAssumption, TerminalAssumption DEF Init
<1>7. /\ clk \in BOOLEAN /\ rst \in BOOLEAN
      /\ busy \in BOOLEAN /\ CYC \in BOOLEAN /\ available \in BOOLEAN
  BY DEF Init
<1> QED BY <1>2, <1>3, <1>4, <1>6, <1>7, <1>8 DEF Init, TypeOK, Register

\* A FIFO keeps its types at a rising edge.
LEMMA UartFifoTyped ==
  ASSUME FifoTypeOK, NEW r \in BOOLEAN, NEW w \in BOOLEAN, NEW d \in BOOLEAN,
         FifoPosedge(r, w, d)
  PROVE  FifoTypeOK'
<1> USE DepthAssumption DEF FifoTypeOK, Slot
<1>1. CASE FifoReset
  BY <1>1 DEF FifoReset
<1>2. CASE FifoCount(w, d)
  BY <1>2 DEF FifoCount, Pushing, Popping, full, empty, Inc
<1> QED BY <1>1, <1>2 DEF FifoPosedge

\* Likewise the console's.
LEMMA ConsoleFifoTyped ==
  ASSUME console!FifoTypeOK, NEW r \in BOOLEAN, NEW w \in BOOLEAN, NEW d \in BOOLEAN,
         console!FifoPosedge(r, w, d)
  PROVE  console!FifoTypeOK'
<1> USE ConsoleAssumption DEF console!FifoTypeOK, console!Slot
<1>1. CASE console!FifoReset
  BY <1>1 DEF console!FifoReset
<1>2. CASE console!FifoCount(w, d)
  BY <1>2 DEF console!FifoCount, console!Pushing, console!Popping, console!full,
    console!empty, console!Inc
<1> QED BY <1>1, <1>2 DEF console!FifoPosedge

\* The receiver keeps its types; the bit it takes is put above the shifted others.
LEMMA ReceiverTyped ==
  ASSUME UartTypeOK, NEW rx \in {0, 1}, Receive(rst, rx)
  PROVE  /\ rx_state' \in {"IDDLE", "START", "BIT_S", "STOP"} /\ wr' \in BOOLEAN
         /\ rx_delay' \in 0 .. DELAY_CLOCKS /\ rx_shamnt' \in 0 .. DATA_WIDTH - 1
         /\ data' \in 0 .. 2 ^ DATA_WIDTH - 1
<1> DEFINE N == 2 ^ (DATA_WIDTH - 1)
           M == 2 ^ DATA_WIDTH
<1>1. N \in Nat /\ M \in Nat /\ M = 2 * N
  BY Widths
<1>2. data \in 0 .. M - 1
  BY DEF UartTypeOK
<1>3. data' = data \/ data' = rx * N + data \div 2
  BY DEF Receive, RxReset, RxIdle, RxStart, RxBits, RxStop
<1> HIDE DEF N, M
<1>4. data \div 2 \in 0 .. N - 1
  BY <1>1, <1>2
<1>5. data' \in 0 .. M - 1
  <2>1. CASE rx = 0
    BY <1>1, <1>2, <1>3, <1>4, <2>1
  <2>2. CASE rx = 1
    BY <1>1, <1>2, <1>3, <1>4, <2>2
  <2> QED BY <2>1, <2>2
<1> USE DEF Receive, RxReset, RxIdle, RxStart, RxBits, RxStop, RxDelay, RxBitDone, UartTypeOK
<1>6. rx_state' \in {"IDDLE", "START", "BIT_S", "STOP"}
  OBVIOUS
<1>7. wr' \in BOOLEAN
  OBVIOUS
<1>8. rx_delay' \in 0 .. DELAY_CLOCKS
  BY FrameAssumption
<1>9. rx_shamnt' \in 0 .. DATA_WIDTH - 1
  BY FrameAssumption
<1>10. data' \in 0 .. 2 ^ DATA_WIDTH - 1
  BY <1>5 DEF M
<1> QED BY <1>6, <1>7, <1>8, <1>9, <1>10

\* The transmitter keeps its types.
LEMMA TransmitterTyped ==
  ASSUME console!ConsoleTypeOK, console!Transmit(rst)
  PROVE  /\ tx_state' \in {"IDDLE", "START", "BIT_S", "STOP"} /\ con_rd' \in BOOLEAN
         /\ tx_delay' \in 0 .. CONSOLE_DELAY /\ tx_shamnt' \in 0 .. DATA_WIDTH - 1
         /\ tx_data' \in console!DataByte /\ tx' \in {0, 1}
<1> USE DEF console!ConsoleTypeOK, console!Transmit, console!TxReset, console!TxIdle,
            console!TxStart, console!TxBits, console!TxStop, console!TxDelay,
            console!TxBitDone
<1>1. tx_state' \in {"IDDLE", "START", "BIT_S", "STOP"}
  BY DEF console!LineState
<1>2. con_rd' \in BOOLEAN
  OBVIOUS
<1>3. tx_delay' \in 0 .. CONSOLE_DELAY
  BY ConsoleAssumption
<1>4. tx_shamnt' \in 0 .. DATA_WIDTH - 1
  BY FrameAssumption
<1>5. tx_data' \in console!DataByte
  <2>1. tx_data' = tx_data \/ tx_data' = tx_dout
    OBVIOUS
  <2>2. tx_data \in console!DataByte /\ tx_dout \in console!DataByte
    BY ValueAssumption DEF console!FifoTypeOK, console!DataByte
  <2> QED BY <2>1, <2>2
<1>6. tx' \in {0, 1}
  <2> DEFINE p == 2 ^ tx_shamnt
             M == 2 ^ DATA_WIDTH
  <2>1. p \in Nat \ {0} /\ M \in Nat
    <3>1. tx_shamnt \in Nat
      BY FrameAssumption
    <3> QED BY <3>1, Power, Widths
  <2>2. tx_data \in 0 .. M - 1
    BY DEF console!DataByte
  <2>3. tx' \in {0, 1} \/ tx' = (tx_data \div p) % 2
    OBVIOUS
  <2> HIDE DEF p, M
  <2>4. tx_data \div p \in Nat
    BY <2>1, <2>2
  <2> QED BY <2>3, <2>4
<1> QED BY <1>1, <1>2, <1>3, <1>4, <1>5, <1>6

\* The console takes a byte from the data bus.
LEMMA DinTyped ==
  ASSUME NEW word \in DataWord
  PROVE  console!din(word) \in Value
<1> DEFINE M == 2 ^ DATA_WIDTH
<1>1. word \in Nat /\ M \in Nat \ {0}
  BY Widths, InputsAssumption DEF DataWord
<1> HIDE DEF M
<1>2. word % M \in 0 .. M - 1
  BY <1>1
<1> QED BY <1>2, ValueAssumption DEF M, console!din

\* The terminal keeps its types; the bit it takes is put above the shifted others.
LEMMA TerminalTyped ==
  ASSUME TypeOK, Terminal
  PROVE  /\ ear_bit' \in 0 .. DATA_WIDTH + 2
         /\ ear_clk' \in 0 .. LISTEN_CLOCKS - 1
         /\ ear_bit' = DATA_WIDTH + 2 => ear_clk' <= LISTEN_CLOCKS \div 2
         /\ ear_byte' \in Value
<1> DEFINE N == 2 ^ (DATA_WIDTH - 1)
           M == 2 ^ DATA_WIDTH
<1>1. N \in Nat /\ M \in Nat /\ M = 2 * N
  BY Widths
<1>2. /\ ear_bit \in 0 .. DATA_WIDTH + 2 /\ ear_clk \in 0 .. LISTEN_CLOCKS - 1
      /\ ear_byte \in 0 .. M - 1 /\ tx \in {0, 1}
  BY ValueAssumption DEF TypeOK, console!ConsoleTypeOK, console!Bit
<1>3. ear_byte' = ear_byte \/ ear_byte' = tx * N + ear_byte \div 2
  BY DEF Terminal, EarQuiet, EarFrame, EarFrameOver
<1> HIDE DEF N, M
<1>4. ear_byte \div 2 \in 0 .. N - 1
  BY <1>1, <1>2
<1>5. ear_byte' \in 0 .. M - 1
  <2>1. CASE tx = 0
    BY <1>1, <1>2, <1>3, <1>4, <2>1
  <2>2. CASE tx = 1
    BY <1>1, <1>2, <1>3, <1>4, <2>2
  <2> QED BY <1>2, <2>1, <2>2
<1>6. LISTEN_CLOCKS \in Nat /\ LISTEN_CLOCKS >= 2 /\ DATA_WIDTH \in Nat
  BY TerminalAssumption, FrameAssumption
<1>7. LISTEN_CLOCKS \div 2 \in Nat /\ LISTEN_CLOCKS \div 2 <= LISTEN_CLOCKS - 1
  BY <1>6
<1>8. /\ ear_bit' \in 0 .. DATA_WIDTH + 2
      /\ ear_clk' \in 0 .. LISTEN_CLOCKS - 1
      /\ ear_bit' = DATA_WIDTH + 2 => ear_clk' <= LISTEN_CLOCKS \div 2
  <2>1. CASE EarQuiet
    BY <1>2, <1>6, <2>1 DEF EarQuiet
  <2>2. CASE EarFrame
    <3> DEFINE h == LISTEN_CLOCKS \div 2
    <3>1. /\ ear_bit # 0 /\ ~(ear_bit = DATA_WIDTH + 2 /\ ear_clk = h)
          /\ ear_bit = DATA_WIDTH + 2 => ear_clk <= h
          /\ h \in Nat /\ h <= LISTEN_CLOCKS - 1
      BY <1>7, <2>2 DEF EarFrame, EarStop, EarMiddle, TypeOK
    <3> HIDE DEF h
    <3>2. CASE ear_clk = LISTEN_CLOCKS - 1
      <4>1. ear_bit' = ear_bit + 1 /\ ear_clk' = 0
        BY <2>2, <3>2 DEF EarFrame
      <4> QED BY <1>2, <1>6, <3>1, <3>2, <4>1
    <3>3. CASE ear_clk # LISTEN_CLOCKS - 1
      <4>1. ear_bit' = ear_bit /\ ear_clk' = ear_clk + 1
        BY <2>2, <3>3 DEF EarFrame
      <4>2. ear_clk + 1 \in 0 .. LISTEN_CLOCKS - 1
        BY <1>2, <1>6, <3>3
      <4>3. ear_bit = DATA_WIDTH + 2 => ear_clk + 1 <= h
        BY <1>2, <3>1
      <4> QED BY <1>2, <4>1, <4>2, <4>3 DEF h
    <3> QED BY <3>2, <3>3 DEF h
  <2>3. CASE EarFrameOver
    BY <1>6, <2>3 DEF EarFrameOver
  <2> QED BY <2>1, <2>2, <2>3 DEF Terminal
<1> QED BY <1>5, <1>8, ValueAssumption DEF M

\* Every step keeps the types, a reset included.
LEMMA TypeStep == TypeOK /\ [Next]_vars => TypeOK'
<1> SUFFICES ASSUME TypeOK, [Next]_vars PROVE TypeOK'
  OBVIOUS
<1>1. CASE Posedge
  <2>1. UartTypeOK'
    <3>1. PICK rx \in {0, 1} :
            UartBus(UartCYC, reg) /\ Receive(rst, rx) /\ FifoPosedge(rst, wr, rd)
      BY <1>1 DEF Posedge, UartPosedge, PinLevel
    <3>2. FifoTypeOK'
      BY <3>1, UartFifoTyped DEF TypeOK, UartTypeOK
    <3>4. rd' \in BOOLEAN /\ ack_s' \in BOOLEAN
      BY <3>1 DEF UartBus, UartCYC, TypeOK
    <3> QED BY <3>1, <3>2, <3>4, ReceiverTyped DEF TypeOK, UartTypeOK
  <2>2. console!ConsoleTypeOK'
    <3>1. /\ console!ConsoleBus(rst, ConsoleCYC) /\ console!Transmit(rst)
          /\ console!FifoPosedge(rst, con_wr, con_rd)
      BY <1>1 DEF Posedge, console!ConsolePosedge
    <3>2. console!FifoTypeOK'
      BY <3>1, ConsoleFifoTyped DEF TypeOK, console!ConsoleTypeOK
    <3>3. wb_states' \in {"IDDLE_WB", "TAKE_WB"} /\ con_wr' \in BOOLEAN /\ ACK_S' \in BOOLEAN
      BY <3>1 DEF TypeOK, console!ConsoleTypeOK, console!ConsoleBus, console!ConsoleBusReset,
        console!ConsoleTake, console!ConsoleBusIdle
    <3>4. console!ConsoleTypeOK
      BY DEF TypeOK
    <3> QED BY <3>1, <3>2, <3>3, <3>4, TransmitterTyped
        DEF console!ConsoleTypeOK, console!LineState, console!Bit
  <2>3. /\ busy' \in BOOLEAN /\ CYC' \in BOOLEAN /\ target' \in {"console", "uart"}
        /\ reg' \in Register /\ DAT_O' \in DataWord /\ available' \in BOOLEAN
    <3>1. 0 \in DataWord /\ Words \subseteq DataWord
      BY DEF DataWord
    <3>2. Master
      BY <1>1 DEF Posedge
    <3> USE <3>1 DEF TypeOK, Register
    <3>3. CASE MasterReset
      BY <3>3 DEF MasterReset
    <3>4. CASE MasterIdle
      BY <3>4 DEF MasterIdle
    <3>5. CASE AcceptStore
      BY <3>5 DEF AcceptStore
    <3>6. CASE AcceptLoad
      BY <3>6 DEF AcceptLoad
    <3>7. CASE MasterDrive
      BY <3>7 DEF MasterDrive
    <3>8. CASE MasterDone
      BY <3>8 DEF MasterDone
    <3> QED BY <3>2, <3>3, <3>4, <3>5, <3>6, <3>7, <3>8 DEF Master
  <2>4. {stale, sent, heard, framed, got, taken}' \subseteq Seq(Value)
    <3>1. {stale, sent, heard, framed, got, taken} \subseteq Seq(Value)
      BY DEF TypeOK
    <3>2. data \in Value /\ dout \in Value /\ ear_byte \in Value
      BY ValueAssumption DEF TypeOK, UartTypeOK, FifoTypeOK
    <3> DEFINE byte == console!din(DAT_O)
               next == console!din(DAT_O')
    <3>3. byte \in Value /\ next \in Value
      BY <2>3, DinTyped DEF TypeOK
    <3>4. Record
      BY <1>1 DEF Posedge
    <3>5. /\ stale' \in {<< >>, <<byte>>, stale, Append(stale, next)}
          /\ sent' \in {<< >>, sent, Append(sent, byte)}
          /\ heard' \in {<< >>, heard, Append(heard, ear_byte)}
          /\ framed' \in {<< >>, <<data>>, framed, Append(framed, data)}
          /\ got' \in {<< >>, got, Append(got, data)}
          /\ taken' \in {<< >>, taken, Append(taken, dout)}
      BY <3>4 DEF Record, RecordReset, RecordStep
    <3> HIDE DEF byte, next
    <3>6. \A q \in Seq(Value), v \in Value : Append(q, v) \in Seq(Value)
      BY AppendProperties
    <3>7. << >> \in Seq(Value) /\ \A v \in Value : <<v>> \in Seq(Value)
      BY EmptySeq
    <3> QED BY <3>1, <3>2, <3>3, <3>5, <3>6, <3>7
  <2>5. clk' \in BOOLEAN /\ rst' \in BOOLEAN /\ rst_held' \in 0 .. RESET_CLOCKS
    BY <1>1, InputsAssumption, TerminalAssumption DEF Posedge, Debounce, TypeOK
  <2>6. /\ ear_bit' \in 0 .. DATA_WIDTH + 2 /\ ear_clk' \in 0 .. LISTEN_CLOCKS - 1
        /\ ear_bit' = DATA_WIDTH + 2 => ear_clk' <= LISTEN_CLOCKS \div 2
        /\ ear_byte' \in Value
    BY <1>1, TerminalTyped DEF Posedge
  <2> QED BY <2>1, <2>2, <2>3, <2>4, <2>5, <2>6 DEF TypeOK
<1>2. CASE Negedge
  <2>1. UartTypeOK'
    BY <1>2, ValueAssumption
    DEF Negedge, UartNegedge, FifoNegedge, TypeOK, UartTypeOK, FifoTypeOK, ptrVars,
        receiverVars, Slot
  <2>2. console!ConsoleTypeOK'
    <3>1. console!din(DAT_O) \in Value
      BY DinTyped DEF TypeOK
    <3> QED BY <1>2, <3>1
      DEF Negedge, console!ConsoleNegedge, console!FifoNegedge, TypeOK,
        console!ConsoleTypeOK, console!FifoTypeOK, console!ptrVars, console!consoleBusVars,
        console!txVars, console!Slot
  <2> QED BY <1>2, <2>1, <2>2 DEF Negedge, TypeOK, masterVars, resetVars, terminalVars, historyVars
<1>3. CASE UNCHANGED vars
  BY <1>3 DEF vars, uartVars, fifoVars, receiverVars, console!consoleVars, console!fifoVars,
    console!consoleBusVars, console!txVars, masterVars, resetVars, terminalVars, historyVars,
    TypeOK, UartTypeOK,
    FifoTypeOK, console!ConsoleTypeOK, console!FifoTypeOK
<1> QED BY <1>1, <1>2, <1>3 DEF Next

\* All state of the serial devices and of the terminal stays well typed, over resets.
THEOREM TypeCorrect == Spec => []TypeOK
<1>1. Init => TypeOK
  BY TypeInit
<1>2. TypeOK /\ [Next]_vars => TypeOK'
  BY TypeStep
<1> QED BY <1>1, <1>2, PTL DEF Spec

-----------------------------------------------------------------------------
(* From the program to the console's FIFO.                                 *)

\* The bytes to be heard.
Due == stale \o sent

\* A write the program is waiting for; any other is left over from before a reset.
Awaited == busy /\ CYC

\* A byte left over that is in Due already, and not in the console's FIFO yet.
Pending == IF con_wr /\ ~Awaited THEN 1 ELSE 0

\* As many of the bytes in Due have left the console's FIFO.
Popped == Len(Due) - Pending - tx_buff_cnt

\* The slot of the console's FIFO that holds its byte number i, from 0.
At(i) == IF tx_read_ptr + i < CONSOLE_DEPTH THEN tx_read_ptr + i
         ELSE tx_read_ptr + i - CONSOLE_DEPTH

BusInv ==
  /\ con_wr = ACK_S
  /\ wb_states = "TAKE_WB" => con_wr
  /\ con_wr /\ wb_states = "IDDLE_WB" => ~busy
  /\ con_wr /\ Awaited => target = "console"
  /\ con_wr /\ ~Awaited => Len(Due) > 0 /\ Due[Len(Due)] = console!din(DAT_O)
  /\ (con_wr \/ CYC) /\ ~Awaited => sent = << >>
  /\ CYC /\ ~busy => wb_states = "IDDLE_WB" /\ tx_buff_cnt = 0

ContentInv ==
  /\ tx_write_ptr = At(tx_buff_cnt)
  /\ \A i \in 0 .. tx_buff_cnt - 1 : tx_buffer[At(i)] = Due[Popped + 1 + i]
  /\ ~clk /\ con_wr => tx_buffer[tx_write_ptr] = console!din(DAT_O)

-----------------------------------------------------------------------------
(* From the console's FIFO to the line.                                    *)

SentBit(k) == (tx_data \div 2 ^ k) % 2

TakenInv ==
  /\ Popped \in Nat
  /\ con_rd <=> tx_state = "START" /\ tx_delay = 0
  /\ con_rd => tx_buff_cnt > 0
  /\ con_rd /\ ~clk => tx_dout = Due[Popped + 1]
  /\ tx_state = "START" /\ tx_delay > 0 => tx_dout = tx_data
  /\ Popped > 0 => tx_data = Due[Popped]

\* tx is a register: the line is a clock behind the state.
LineInv ==
  /\ tx_state = "IDDLE" => tx = 1
  /\ tx_state = "START" => tx = IF tx_delay = 0 THEN 1 ELSE 0
  /\ tx_state = "BIT_S" => tx = IF tx_delay > 0 THEN SentBit(tx_shamnt)
                                ELSE IF tx_shamnt = 0 THEN 0 ELSE SentBit(tx_shamnt - 1)
  /\ tx_state = "STOP" => tx = IF tx_delay > 0 THEN 1 ELSE SentBit(DATA_WIDTH - 1)

-----------------------------------------------------------------------------
(* From the line to the terminal.                                          *)

\* In a frame the terminal is a clock behind the line, until the middle of the stop bit.
StepInv ==
  /\ tx_state = "IDDLE" => ear_bit = 0 \/ EarStop
  /\ tx_state = "START" /\ tx_delay <= 1 => ear_bit = 0
  /\ tx_state = "START" /\ tx_delay > 1 => ear_bit = 1 /\ ear_clk = tx_delay - 1
  /\ tx_state = "BIT_S" /\ tx_delay = 0 => ear_bit = tx_shamnt + 1 /\ ear_clk = CONSOLE_DELAY
  /\ tx_state = "BIT_S" /\ tx_delay > 0 => ear_bit = tx_shamnt + 2 /\ ear_clk = tx_delay - 1
  /\ tx_state = "STOP" /\ tx_delay = 0 =>
       ear_bit = DATA_WIDTH + 1 /\ ear_clk = CONSOLE_DELAY
  /\ tx_state = "STOP" /\ tx_delay > 0 =>
       ear_bit = 0 \/ (ear_bit = DATA_WIDTH + 2 /\ ear_clk = tx_delay - 1)

\* The bits the terminal has of the current byte.
EarBits == IF ear_clk <= LISTEN_CLOCKS \div 2 THEN ear_bit - 2 ELSE ear_bit - 1

\* They are the lowest of the byte sent, and the highest of ear_byte.
HasBits(n) ==
  /\ 2 ^ n * 2 ^ (DATA_WIDTH - n) = 2 ^ DATA_WIDTH
  /\ ear_byte \div 2 ^ (DATA_WIDTH - n) = tx_data % 2 ^ n

DataInv ==
  /\ ear_bit \in 2 .. DATA_WIDTH + 1 => HasBits(EarBits)
  /\ ear_bit = DATA_WIDTH + 2 => ear_byte = tx_data

\* A byte has left the FIFO and is not heard yet.
Hearing == IF ear_bit # 0 \/ (tx_state = "START" /\ tx_delay = 1) THEN 1 ELSE 0

HeardInv ==
  /\ Len(heard) + Hearing = Popped
  /\ \A j \in 1 .. Len(heard) : heard[j] = Due[j]

\* Terminal and transmitter are in step; in a reset, which nothing is heard in, they
\* need not be.
InStep ==
  \/ StepInv /\ DataInv /\ HeardInv
  \/ rst /\ heard = << >>

\* A reset outlasts the frame that it cuts off.
ResetInv ==
  /\ rst /\ rst_held > 0 => tx = 1
  /\ rst /\ ear_bit > 0 => LISTEN_CLOCKS * (ear_bit - 1) + ear_clk >= rst_held

PortInv == RoomInv /\ BusInv /\ ContentInv /\ TakenInv /\ LineInv /\ ResetInv /\ InStep

-----------------------------------------------------------------------------
(* A falling edge: bytes enter and leave the console's FIFO.               *)

\* The types that the arithmetic of the invariant needs.
LEMMA Typed ==
  ASSUME TypeOK
  PROVE  /\ tx_buff_cnt \in 0 .. CONSOLE_DEPTH - 1 /\ tx_read_ptr \in 0 .. CONSOLE_DEPTH - 1
         /\ tx_write_ptr \in 0 .. CONSOLE_DEPTH - 1
         /\ tx_buffer \in [0 .. CONSOLE_DEPTH - 1 -> Value]
         /\ heard \in Seq(Value) /\ Len(heard) \in Nat
         /\ tx_delay \in 0 .. CONSOLE_DELAY /\ tx_shamnt \in 0 .. DATA_WIDTH - 1
         /\ tx_state \in {"IDDLE", "START", "BIT_S", "STOP"} /\ tx \in {0, 1}
         /\ tx_data \in 0 .. 2 ^ DATA_WIDTH - 1
         /\ ear_bit \in 0 .. DATA_WIDTH + 2 /\ ear_clk \in 0 .. LISTEN_CLOCKS - 1
         /\ ear_byte \in 0 .. 2 ^ DATA_WIDTH - 1
  BY EmptySeq, LenProperties, ValueAssumption
  DEF TypeOK, console!ConsoleTypeOK, console!FifoTypeOK, console!Slot, console!LineState,
      console!DataByte, console!Bit

\* What is to be heard is a sequence of bytes.
LEMMA DueTyped ==
  ASSUME TypeOK
  PROVE  /\ stale \in Seq(Value) /\ sent \in Seq(Value)
         /\ Due \in Seq(Value) /\ Len(Due) \in Nat
         /\ console!din(DAT_O) \in Value
<1>1. stale \in Seq(Value) /\ sent \in Seq(Value) /\ DAT_O \in DataWord
  BY DEF TypeOK
<1>2. stale \o sent \in Seq(Value)
  BY <1>1, ConcatProperties
<1> QED BY <1>1, <1>2, LenProperties, DinTyped DEF Due

\* Different bytes are in different slots.
LEMMA AtFacts ==
  ASSUME TypeOK, NEW m \in 0 .. CONSOLE_DEPTH - 1, NEW n \in 0 .. CONSOLE_DEPTH - 1
  PROVE  /\ At(m) \in 0 .. CONSOLE_DEPTH - 1
         /\ At(0) = tx_read_ptr
         /\ m # n => At(m) # At(n)
<1>1. tx_read_ptr \in 0 .. CONSOLE_DEPTH - 1
  BY Typed
<1>2. At(m) \in 0 .. CONSOLE_DEPTH - 1
  BY <1>1, ConsoleAssumption DEF At
<1>3. At(0) = tx_read_ptr
  BY <1>1, ConsoleAssumption DEF At
<1>4. m # n => At(m) # At(n)
  BY <1>1, ConsoleAssumption DEF At
<1> QED BY <1>2, <1>3, <1>4

\* A falling edge keeps the invariant.
LEMMA PortNegedge ==
  ASSUME TypeOK, PortInv, Negedge
  PROVE  PortInv'
<1>1. /\ clk /\ clk' = FALSE
      /\ UNCHANGED <<wb_states, con_wr, ACK_S, tx_state, con_rd, tx_delay, tx_shamnt, tx_data,
                     tx, tx_write_ptr, tx_read_ptr, tx_buff_cnt>>
      /\ UNCHANGED <<busy, CYC, target, DAT_O, rst, rst_held, stale, sent, heard>>
      /\ UNCHANGED <<ear_bit, ear_clk, ear_byte>>
      /\ tx_buffer' = IF console!Pushing(con_wr)
                      THEN [tx_buffer EXCEPT ![tx_write_ptr] = console!din(DAT_O)]
                      ELSE tx_buffer
      /\ tx_dout' = IF console!Popping(con_rd) THEN tx_buffer[tx_read_ptr] ELSE tx_dout
  BY DEF Negedge, console!ConsoleNegedge, console!FifoNegedge, console!consoleBusVars,
    console!txVars, console!ptrVars, masterVars, resetVars, terminalVars, historyVars
<1>2. /\ Awaited' = Awaited /\ Due' = Due /\ Pending' = Pending /\ Popped' = Popped
      /\ console!full' = console!full /\ console!din(DAT_O)' = console!din(DAT_O)
      /\ \A i : At(i)' = At(i)
  BY <1>1 DEF Awaited, Due, Pending, Popped, console!full, console!din, At
<1> USE DEF PortInv
<1>3. RoomInv' /\ BusInv'
  BY <1>1, <1>2 DEF RoomInv, BusInv
<1>4. ContentInv'
  <2>1. tx_write_ptr' = At(tx_buff_cnt)'
    BY <1>1 DEF ContentInv, At
  <2>2. ASSUME NEW i \in 0 .. tx_buff_cnt - 1
        PROVE  (tx_buffer[At(i)] = Due[Popped + 1 + i])'
    <3>1. At(i) # tx_write_ptr /\ At(i) \in 0 .. CONSOLE_DEPTH - 1
      <4>1. tx_buff_cnt \in 0 .. CONSOLE_DEPTH - 1 /\ tx_write_ptr = At(tx_buff_cnt)
        BY Typed DEF ContentInv
      <4>2. i \in 0 .. CONSOLE_DEPTH - 1 /\ i # tx_buff_cnt
        BY <4>1, ConsoleAssumption
      <4> QED BY <4>1, <4>2, AtFacts
    <3>2. tx_buffer'[At(i)] = tx_buffer[At(i)]
      BY <1>1, <3>1, Typed
    <3>3. tx_buffer[At(i)] = Due[Popped + 1 + i]
      BY DEF ContentInv
    <3>4. At(i)' = At(i)
      BY <1>1 DEF At
    <3> QED BY <1>2, <3>2, <3>3, <3>4
  <2>3. con_wr => tx_buffer'[tx_write_ptr] = console!din(DAT_O)
    <3>1. con_wr => console!Pushing(con_wr)
      BY DEF RoomInv, console!Pushing, console!full
    <3> QED BY <1>1, <3>1, Typed
  <2> QED BY <1>1, <1>2, <2>1, <2>2, <2>3 DEF ContentInv
<1>5. TakenInv'
  <2>1. con_rd => tx_dout' = tx_buffer[At(0)]
    <3>1. At(0) = tx_read_ptr
      BY AtFacts, ConsoleAssumption
    <3>2. con_rd => console!Popping(con_rd)
      BY Typed DEF TakenInv, console!Popping, console!empty
    <3> QED BY <1>1, <3>1, <3>2
  <2>2. con_rd => tx_buffer[At(0)] = Due[Popped + 1 + 0]
    <3>1. tx_buff_cnt \in Nat
      BY Typed
    <3> QED BY <3>1 DEF ContentInv, TakenInv
  <2>3. con_rd => tx_dout' = Due[Popped + 1]
    <3>1. Popped + 1 + 0 = Popped + 1
      BY DEF TakenInv
    <3> QED BY <2>1, <2>2, <3>1
  <2>4. tx_state = "START" /\ tx_delay > 0 => tx_dout' = tx_data
    BY <1>1, Typed DEF TakenInv, console!Popping
  <2> QED BY <1>1, <1>2, <2>3, <2>4 DEF TakenInv
<1>6. LineInv' /\ ResetInv'
  BY <1>1 DEF LineInv, ResetInv, SentBit
<1>7. InStep'
  <2>1. StepInv => StepInv'
    BY <1>1 DEF StepInv, EarStop, EarMiddle
  <2>2. DataInv => DataInv'
    BY <1>1 DEF DataInv, HasBits, EarBits
  <2>3. HeardInv => HeardInv'
    BY <1>1, <1>2 DEF HeardInv, Hearing
  <2> QED BY <1>1, <2>1, <2>2, <2>3 DEF InStep
<1> QED BY <1>3, <1>4, <1>5, <1>6, <1>7

-----------------------------------------------------------------------------
(* A rising edge without reset.                                            *)

\* What a rising edge adds to the bytes to be heard, and who moves the bus.
LEMMA DuePosedge ==
  ASSUME TypeOK, BusInv, Posedge, ~rst
  PROVE  /\ MasterIdle \/ AcceptStore \/ AcceptLoad \/ MasterDrive \/ MasterDone
         /\ con_wr /\ Awaited =>
              sent' = Append(sent, console!din(DAT_O)) /\ Due' = Append(Due, console!din(DAT_O))
         /\ ~(con_wr /\ Awaited) => sent' = sent
         /\ ~busy /\ ConsoleCYC => Due' = Append(Due, console!din(DAT_O'))
         /\ ~(con_wr /\ Awaited) /\ ~(~busy /\ ConsoleCYC) => Due' = Due
         /\ DAT_O' \in DataWord
<1>1. Record /\ Master
  BY DEF Posedge
<1>2. MasterIdle \/ AcceptStore \/ AcceptLoad \/ MasterDrive \/ MasterDone
  BY <1>1 DEF Master
<1>3. RecordStep
  BY <1>1 DEF Record
<1>4. Acked("console") <=> con_wr /\ Awaited
  BY DEF Acked, ACK, console!ConsoleACK, ConsoleCYC, UartACK, UartCYC, BusInv, Awaited
<1> DEFINE byte == console!din(DAT_O)
           next == console!din(DAT_O')
<1>5. DAT_O' \in DataWord
  BY TypeStep DEF TypeOK, Next
<1>6. stale \in Seq(Value) /\ sent \in Seq(Value) /\ byte \in Value /\ next \in Value
  BY <1>5, DueTyped, DinTyped
<1>7. /\ sent' = IF con_wr /\ Awaited THEN Append(sent, byte) ELSE sent
      /\ stale' = IF ~busy /\ ConsoleCYC THEN Append(stale, next) ELSE stale
  BY <1>3, <1>4 DEF RecordStep
<1> HIDE DEF byte, next
<1>8. ~busy /\ ConsoleCYC => sent = << >> /\ ~(con_wr /\ Awaited)
  BY DEF BusInv, Awaited, ConsoleCYC
<1>9. CASE con_wr /\ Awaited
  <2>1. sent' = sent \o <<byte>> /\ stale' = stale
    BY <1>6, <1>7, <1>8, <1>9, AppendIsConcat
  <2>2. <<byte>> \in Seq(Value) /\ stale \o sent \in Seq(Value)
    BY <1>6, ConcatProperties
  <2>3. stale \o (sent \o <<byte>>) = (stale \o sent) \o <<byte>>
    BY <1>6, <2>2, ConcatAssociative
  <2>4. Append(stale \o sent, byte) = (stale \o sent) \o <<byte>>
    BY <1>6, <2>2, AppendIsConcat
  <2>5. Due' = Append(Due, byte)
    BY <2>1, <2>3, <2>4 DEF Due
  <2> QED BY <1>2, <1>5, <1>7, <1>8, <1>9, <2>5 DEF byte
<1>10. CASE ~busy /\ ConsoleCYC
  <2>1. sent' = << >> /\ sent = << >> /\ stale' = Append(stale, next)
    BY <1>7, <1>8, <1>10
  <2>2. Append(stale, next) \in Seq(Value)
    BY <1>6, AppendProperties
  <2>3. Append(stale, next) \o << >> = Append(stale, next) /\ stale \o << >> = stale
    BY <1>6, <2>2, ConcatEmptySeq
  <2>4. Due' = Append(Due, next)
    BY <2>1, <2>3 DEF Due
  <2> QED BY <1>2, <1>5, <1>8, <1>10, <2>1, <2>4 DEF next
<1>11. CASE ~(con_wr /\ Awaited) /\ ~(~busy /\ ConsoleCYC)
  <2>1. sent' = sent /\ stale' = stale
    BY <1>7, <1>11
  <2>2. Due' = Due
    BY <2>1 DEF Due
  <2> QED BY <1>2, <1>5, <1>11, <2>1, <2>2
<1> QED BY <1>9, <1>10, <1>11

\* The bytes there were stay where they are.
LEMMA DueKept ==
  ASSUME TypeOK, BusInv, Posedge, ~rst
  PROVE  /\ \A i \in 1 .. Len(Due) : Due'[i] = Due[i]
         /\ Len(Due') = Len(Due) + (IF (con_wr /\ Awaited) \/ (~busy /\ ConsoleCYC)
                                    THEN 1 ELSE 0)
<1> DEFINE byte == console!din(DAT_O)
           next == console!din(DAT_O')
<1>1. Due \in Seq(Value) /\ Len(Due) \in Nat /\ byte \in Value /\ next \in Value
  BY DueTyped, DuePosedge, DinTyped
<1>2. /\ con_wr /\ Awaited => Due' = Append(Due, byte)
      /\ ~busy /\ ConsoleCYC => Due' = Append(Due, next)
      /\ ~(con_wr /\ Awaited) /\ ~(~busy /\ ConsoleCYC) => Due' = Due
  BY DuePosedge
<1> HIDE DEF byte, next
<1>3. /\ Len(Append(Due, byte)) = Len(Due) + 1 /\ Len(Append(Due, next)) = Len(Due) + 1
      /\ \A i \in 1 .. Len(Due) : Append(Due, byte)[i] = Due[i]
      /\ \A i \in 1 .. Len(Due) : Append(Due, next)[i] = Due[i]
  BY <1>1, AppendProperties
<1>4. CASE con_wr /\ Awaited
  BY <1>2, <1>3, <1>4
<1>5. CASE ~busy /\ ConsoleCYC
  BY <1>2, <1>3, <1>5
<1>6. CASE ~(con_wr /\ Awaited) /\ ~(~busy /\ ConsoleCYC)
  BY <1>1, <1>2, <1>6
<1> QED BY <1>4, <1>5, <1>6

\* What the console takes from the bus.
LEMMA TakePosedge ==
  ASSUME TypeOK, BusInv, Posedge, ~rst
  PROVE  /\ con_wr' = ACK_S' /\ (con_wr' <=> wb_states' = "TAKE_WB")
         /\ ~busy /\ ConsoleCYC => con_wr' /\ ~Awaited'
         /\ con_wr' /\ ~(~busy /\ ConsoleCYC) => ~con_wr /\ Awaited' /\ target' = "console"
         /\ CYC' => busy' /\ Awaited'
         /\ con_wr /\ Awaited => ~con_wr'
<1>1. /\ console!ConsoleTake(ConsoleCYC) \/ console!ConsoleBusIdle(ConsoleCYC)
      /\ MasterIdle \/ AcceptStore \/ AcceptLoad \/ MasterDrive \/ MasterDone
  BY DEF Posedge, console!ConsolePosedge, console!ConsoleBus, Master
<1>2. /\ con_wr \in BOOLEAN /\ ACK_S \in BOOLEAN /\ wb_states \in {"IDDLE_WB", "TAKE_WB"}
      /\ con_wr = ACK_S
  BY DEF TypeOK, console!ConsoleTypeOK, BusInv
<1>3. CYC' => MasterDrive
  BY <1>1 DEF MasterIdle, AcceptStore, AcceptLoad, MasterDone
<1>4. MasterDrive => busy /\ busy' /\ Awaited' /\ target' = target
  BY DEF MasterDrive, Awaited
<1>5. con_wr' <=> console!ConsoleTake(ConsoleCYC)
  BY <1>1 DEF console!ConsoleBusIdle, console!ConsoleTake
<1>6. con_wr' = ACK_S' /\ (con_wr' <=> wb_states' = "TAKE_WB")
  BY <1>1 DEF console!ConsoleTake, console!ConsoleBusIdle
<1>7. ~busy /\ ConsoleCYC => con_wr' /\ ~Awaited'
  <2> SUFFICES ASSUME ~busy, ConsoleCYC PROVE con_wr' /\ ~Awaited'
    OBVIOUS
  <2>1. wb_states = "IDDLE_WB" /\ tx_buff_cnt = 0
    BY DEF BusInv, ConsoleCYC
  <2>2. ~console!full
    BY <2>1, ConsoleAssumption DEF console!full
  <2>3. ~console!ConsoleBusIdle(ConsoleCYC)
    BY <2>1, <2>2 DEF console!ConsoleBusIdle
  <2>4. ~Awaited'
    BY <1>3, <1>4 DEF Awaited
  <2> QED BY <1>1, <1>5, <2>3, <2>4
<1>8. con_wr' /\ ~(~busy /\ ConsoleCYC) => ~con_wr /\ Awaited' /\ target' = "console"
  <2> SUFFICES ASSUME con_wr', ~(~busy /\ ConsoleCYC)
               PROVE  ~con_wr /\ Awaited' /\ target' = "console"
    OBVIOUS
  <2>1. wb_states = "IDDLE_WB" /\ ConsoleCYC /\ busy
    BY <1>5 DEF console!ConsoleTake
  <2>2. ~con_wr
    BY <2>1 DEF BusInv
  <2>3. ~ACK
    BY <1>2, <2>1, <2>2 DEF ACK, console!ConsoleACK, UartACK, UartCYC, ConsoleCYC
  <2>4. MasterDrive
    BY <1>1, <2>1, <2>3 DEF MasterIdle, AcceptStore, AcceptLoad, MasterDone
  <2> QED BY <1>4, <2>1, <2>2, <2>4 DEF ConsoleCYC
<1>9. con_wr /\ Awaited => ~con_wr'
  BY <1>5, <1>2 DEF console!ConsoleTake, BusInv, Awaited
<1> QED BY <1>3, <1>4, <1>6, <1>7, <1>8, <1>9

\* The console takes a byte only for a write the program is waiting for, or for one left
\* over.
LEMMA BusPosedge ==
  ASSUME TypeOK, BusInv, Posedge, ~rst
  PROVE  BusInv'
<1>1. con_wr' /\ ~Awaited' => ~busy /\ ConsoleCYC
  BY TakePosedge
<1>2. con_wr' /\ ~Awaited' => Len(Due') > 0 /\ Due'[Len(Due')] = console!din(DAT_O')
  <2> SUFFICES ASSUME con_wr', ~Awaited'
               PROVE  Len(Due') > 0 /\ Due'[Len(Due')] = console!din(DAT_O')
    OBVIOUS
  <2> DEFINE next == console!din(DAT_O')
  <2>1. Due' = Append(Due, next)
    BY <1>1, DuePosedge
  <2>2. next \in Value
    BY DuePosedge, DinTyped
  <2> HIDE DEF next
  <2>3. Due \in Seq(Value) /\ Len(Due) \in Nat
    BY DueTyped
  <2>4. Len(Append(Due, next)) = Len(Due) + 1 /\ Append(Due, next)[Len(Due) + 1] = next
    BY <2>2, <2>3, AppendProperties
  <2> QED BY <2>1, <2>3, <2>4 DEF next
<1>3. (con_wr' \/ CYC') /\ ~Awaited' => sent' = << >>
  <2> SUFFICES ASSUME con_wr', ~Awaited' PROVE sent' = << >>
    BY TakePosedge
  <2>1. ~busy /\ CYC /\ ~Awaited
    BY <1>1 DEF Awaited, ConsoleCYC
  <2> QED BY <2>1, DuePosedge DEF BusInv
<1>4. con_wr' /\ Awaited' => target' = "console"
  BY TakePosedge DEF Awaited
<1>5. console!din(DAT_O)' = console!din(DAT_O')
  BY DEF console!din
<1>6. con_wr' /\ wb_states' = "IDDLE_WB" => ~busy'
  BY TakePosedge
<1>7. CYC' /\ ~busy' => wb_states' = "IDDLE_WB" /\ tx_buff_cnt' = 0
  BY TakePosedge
<1>8. con_wr' = ACK_S' /\ (wb_states' = "TAKE_WB" => con_wr')
  BY TakePosedge
<1> QED BY <1>2, <1>3, <1>4, <1>5, <1>6, <1>7, <1>8 DEF BusInv

\* What a rising edge does to the console's FIFO, and to the bytes that have left it.
LEMMA StreamPosedge ==
  ASSUME TypeOK, RoomInv, BusInv, TakenInv, Posedge, ~rst
  PROVE  /\ tx_buff_cnt' = tx_buff_cnt + (IF con_wr THEN 1 ELSE 0) - (IF con_rd THEN 1 ELSE 0)
         /\ tx_read_ptr' = IF con_rd THEN At(1) ELSE tx_read_ptr
         /\ tx_write_ptr' = IF con_wr THEN console!Inc(tx_write_ptr) ELSE tx_write_ptr
         /\ UNCHANGED <<tx_buffer, tx_dout>>
         /\ clk' = TRUE
         /\ Popped' = Popped + (IF con_rd THEN 1 ELSE 0)
<1>1. console!FifoCount(con_wr, con_rd) /\ clk' = TRUE
  BY DEF Posedge, console!ConsolePosedge, console!FifoPosedge
<1>2. console!Pushing(con_wr) <=> con_wr
  BY DEF RoomInv, console!Pushing, console!full
<1>3. console!Popping(con_rd) <=> con_rd
  BY Typed DEF TakenInv, console!Popping, console!empty
<1>4. tx_read_ptr' = IF con_rd THEN At(1) ELSE tx_read_ptr
  <2>1. tx_read_ptr \in 0 .. CONSOLE_DEPTH - 1
    BY Typed
  <2>2. console!Inc(tx_read_ptr) = At(1)
    BY <2>1, ConsoleAssumption DEF console!Inc, At
  <2> QED BY <1>1, <1>3, <2>2 DEF console!FifoCount
<1>5. tx_buff_cnt' = tx_buff_cnt + (IF con_wr THEN 1 ELSE 0) - (IF con_rd THEN 1 ELSE 0)
  <2>1. tx_buff_cnt \in Nat
    BY Typed
  <2>2. con_rd \in BOOLEAN /\ con_wr \in BOOLEAN
    BY DEF TypeOK, console!ConsoleTypeOK
  <2>3. console!Pushing(con_wr) = con_wr /\ console!Popping(con_rd) = con_rd
    BY <1>2, <1>3, <2>2 DEF console!Pushing, console!Popping
  <2>4. tx_buff_cnt' = IF con_wr = con_rd THEN tx_buff_cnt
                       ELSE IF con_wr THEN tx_buff_cnt + 1 ELSE tx_buff_cnt - 1
    BY <1>1, <2>3 DEF console!FifoCount
  <2>5. CASE con_wr /\ con_rd
    BY <2>1, <2>2, <2>4, <2>5
  <2>6. CASE con_wr /\ ~con_rd
    <3>1. con_wr # con_rd /\ con_wr
      BY <2>6
    <3>2. tx_buff_cnt' = tx_buff_cnt + 1
      BY <2>4, <3>1, Zenon
    <3> QED BY <2>1, <2>6, <3>2
  <2>7. CASE ~con_wr /\ con_rd
    <3>1. con_wr # con_rd /\ ~con_wr
      BY <2>7
    <3>2. tx_buff_cnt' = tx_buff_cnt - 1
      BY <2>4, <3>1, Zenon
    <3> QED BY <2>1, <2>7, <3>2
  <2>8. CASE ~con_wr /\ ~con_rd
    BY <2>1, <2>2, <2>4, <2>8
  <2> QED BY <2>5, <2>6, <2>7, <2>8
<1> DEFINE r == IF con_rd THEN 1 ELSE 0
           w == IF con_wr THEN 1 ELSE 0
           p == IF ~busy /\ ConsoleCYC THEN 1 ELSE 0
           a == IF con_wr /\ Awaited THEN 1 ELSE 0
<1>6. Pending' = p
  BY TakePosedge DEF Pending
<1>7. Len(Due') = Len(Due) + a + p
  <2>1. ~(con_wr /\ Awaited /\ ~busy)
    BY DEF Awaited
  <2>2. Len(Due) \in Nat
    BY DueTyped
  <2>3. Len(Due') = Len(Due) + (IF (con_wr /\ Awaited) \/ (~busy /\ ConsoleCYC)
                                THEN 1 ELSE 0)
    BY DueKept
  <2>4. CASE con_wr /\ Awaited
    BY <2>1, <2>2, <2>3, <2>4
  <2>5. CASE ~(con_wr /\ Awaited)
    <3>1. a = 0 /\ Len(Due) + 0 = Len(Due)
      BY <2>2, <2>5
    <3>2. CASE ~busy /\ ConsoleCYC
      BY <2>2, <2>3, <3>1, <3>2
    <3>3. CASE ~(~busy /\ ConsoleCYC)
      <4>1. Len(Due') = Len(Due) + 0
        BY <2>3, <2>5, <3>3, Zenon
      <4>2. p = 0
        BY <3>3
      <4> QED BY <2>2, <3>1, <4>1, <4>2
    <3> QED BY <3>2, <3>3
  <2> QED BY <2>4, <2>5
<1>8. Pending = w - a
  BY DEF Pending
<1>9. r \in Int /\ w \in Int /\ p \in Int /\ a \in Int /\ Len(Due) \in Int /\ tx_buff_cnt \in Int
  BY DueTyped, Typed
<1> HIDE DEF r, w, p, a
<1>10. Popped' = Len(Due') - Pending' - tx_buff_cnt'
  BY DEF Popped
<1>11. tx_buff_cnt' = tx_buff_cnt + w - r
  BY <1>5 DEF w, r
<1>12. Popped' = Popped + r
  BY <1>6, <1>7, <1>8, <1>9, <1>10, <1>11 DEF Popped
<1> QED BY <1>1, <1>2, <1>4, <1>5, <1>12 DEF console!FifoCount, r

\* The bytes that have left the console's FIFO are among those to be heard, and so are
\* those in it.
LEMMA PoppedBound ==
  ASSUME TypeOK, BusInv, TakenInv
  PROVE  /\ Len(Due) = Popped + Pending + tx_buff_cnt
         /\ Popped \in Nat /\ Pending \in {0, 1} /\ Len(Due) \in Nat /\ tx_buff_cnt \in Nat
         /\ Popped + tx_buff_cnt <= Len(Due)
<1>1. Popped \in Nat /\ Pending \in {0, 1} /\ Len(Due) \in Nat /\ tx_buff_cnt \in Nat
  BY DueTyped, Typed DEF Pending, TakenInv
<1>2. Len(Due) = Popped + Pending + tx_buff_cnt
  BY <1>1 DEF Popped
<1> QED BY <1>1, <1>2

\* The bytes in the console's FIFO stay those to be heard, in order.
LEMMA ContentPosedge ==
  ASSUME TypeOK, RoomInv, BusInv, TakenInv, ContentInv, Posedge, ~rst
  PROVE  ContentInv'
<1> DEFINE r == IF con_rd THEN 1 ELSE 0
           w == IF con_wr THEN 1 ELSE 0
           c == tx_buff_cnt
<1>1. /\ c \in 0 .. CONSOLE_DEPTH - 1 /\ tx_read_ptr \in 0 .. CONSOLE_DEPTH - 1
      /\ tx_write_ptr \in 0 .. CONSOLE_DEPTH - 1
      /\ CONSOLE_DEPTH \in Nat /\ CONSOLE_DEPTH >= 2
  BY Typed, ConsoleAssumption
<1>2. /\ tx_read_ptr' = IF con_rd THEN At(1) ELSE tx_read_ptr
      /\ tx_buff_cnt' = c + w - r
      /\ tx_buffer' = tx_buffer /\ clk' = TRUE /\ ~clk
      /\ tx_write_ptr' = IF con_wr THEN console!Inc(tx_write_ptr) ELSE tx_write_ptr
      /\ Popped' = Popped + r
  BY StreamPosedge DEF Posedge
<1>3. r \in {0, 1} /\ r <= c /\ w \in {0, 1} /\ (con_wr => w = 1 /\ c < CONSOLE_DEPTH - 1)
      /\ (~con_wr => w = 0) /\ (con_rd => r = 1) /\ (~con_rd => r = 0)
  BY <1>1 DEF TakenInv, RoomInv
<1> HIDE DEF r, w, c
<1>4. ASSUME NEW i \in Nat, i + r < CONSOLE_DEPTH
      PROVE  At(i)' = At(i + r)
  <2>1. CASE con_rd
    BY <1>1, <1>2, <1>3, <1>4, <2>1 DEF At
  <2>2. CASE ~con_rd
    BY <1>1, <1>2, <1>3, <1>4, <2>2 DEF At
  <2> QED BY <2>1, <2>2
<1>5. tx_write_ptr' = At(tx_buff_cnt)'
  <2>1. tx_write_ptr = At(c)
    BY DEF ContentInv, c
  <2>2. tx_write_ptr' = At(c + w)
    <3>1. CASE con_wr
      BY <1>1, <1>2, <1>3, <2>1, <3>1 DEF console!Inc, At
    <3>2. CASE ~con_wr
      BY <1>1, <1>2, <1>3, <2>1, <3>2
    <3> QED BY <3>1, <3>2
  <2>3. PICK n \in Nat : n = c + w - r
    BY <1>1, <1>3
  <2>4. n + r < CONSOLE_DEPTH /\ n + r = c + w
    BY <1>1, <1>3, <2>3
  <2>5. At(n)' = At(n + r)
    BY <2>4, <1>4
  <2>6. At(tx_buff_cnt)' = At(n)'
    BY <1>2, <2>3 DEF At
  <2> QED BY <2>2, <2>4, <2>5, <2>6
<1>6. ASSUME NEW i \in 0 .. tx_buff_cnt' - 1
      PROVE  (tx_buffer[At(i)] = Due[Popped + 1 + i])'
  <2> DEFINE n == i + r
             byte == tx_buffer[At(n)]
             m == Popped + 1 + n
  <2>1. i \in Nat /\ n \in Nat /\ n < CONSOLE_DEPTH /\ (n < c \/ (n = c /\ con_wr))
    BY <1>1, <1>2, <1>3
  <2>2. At(i)' = At(n) /\ tx_buffer'[At(i)'] = byte
    BY <1>2, <1>4, <2>1
  <2>3. /\ Len(Due) = Popped + Pending + c
        /\ Popped \in Nat /\ Pending \in {0, 1} /\ Len(Due) \in Nat
    BY PoppedBound DEF c
  <2>4. Popped' + 1 + i = m
    BY <1>2, <1>3, <2>1, <2>3
  <2>5. byte = Due'[m]
    <3>1. CASE n < c
      <4>1. n \in 0 .. tx_buff_cnt - 1 /\ m \in 1 .. Len(Due)
        BY <1>1, <2>1, <2>3, <3>1 DEF c
      <4>2. byte = Due[m]
        BY <4>1 DEF ContentInv
      <4> HIDE DEF m, byte
      <4> QED BY <4>1, <4>2, DueKept
    <3>2. CASE n = c /\ con_wr
      <4>1. byte = console!din(DAT_O)
        BY <1>2, <3>2 DEF ContentInv, c
      <4> HIDE DEF byte
      <4>2. CASE Awaited
        <5>1. Due' = Append(Due, console!din(DAT_O)) /\ Pending = 0
          BY <3>2, <4>2, DuePosedge DEF Pending
        <5>2. Append(Due, console!din(DAT_O))[Len(Due) + 1] = console!din(DAT_O)
          BY DueTyped, AppendProperties
        <5>3. m = Len(Due) + 1
          BY <1>1, <2>3, <3>2, <5>1
        <5> QED BY <4>1, <5>1, <5>2, <5>3
      <4>3. CASE ~Awaited
        <5>1. Pending = 1 /\ Len(Due) > 0 /\ Due[Len(Due)] = console!din(DAT_O)
          BY <3>2, <4>3 DEF Pending, BusInv
        <5>2. m = Len(Due) /\ m \in 1 .. Len(Due)
          BY <1>1, <2>3, <3>2, <5>1
        <5> HIDE DEF m
        <5> QED BY <4>1, <5>1, <5>2, DueKept
      <4> QED BY <4>2, <4>3
    <3> QED BY <2>1, <3>1, <3>2
  <2> HIDE DEF m, byte
  <2>6. tx_buffer'[At(i)'] = Due'[Popped' + 1 + i]
    BY <2>2, <2>4, <2>5
  <2> QED BY <2>6
<1> QED BY <1>2, <1>5, <1>6 DEF ContentInv

\* How the transmitter moves.
LEMMA TxMoves ==
  ASSUME TypeOK, Posedge, ~rst
  PROVE  /\ tx_state = "IDDLE" => console!TxIdle
         /\ tx_state = "START" => console!TxStart
         /\ tx_state = "BIT_S" => console!TxBits
         /\ tx_state = "STOP" => console!TxStop
         /\ tx_state # "START" => tx_data' = tx_data
<1>1. console!TxIdle \/ console!TxStart \/ console!TxBits \/ console!TxStop
  BY DEF Posedge, console!ConsolePosedge, console!Transmit
<1> QED BY <1>1 DEF console!TxIdle, console!TxStart, console!TxBits, console!TxStop

\* The line follows the transmitter.
LEMMA LinePosedge ==
  ASSUME TypeOK, Posedge, ~rst
  PROVE  LineInv'
<1>1. /\ tx_delay \in 0 .. CONSOLE_DELAY /\ tx_shamnt \in 0 .. DATA_WIDTH - 1
      /\ tx_state \in {"IDDLE", "START", "BIT_S", "STOP"}
  BY Typed
<1> USE TxMoves, <1>1, FrameAssumption, ConsoleAssumption
<1>2. CASE tx_state = "IDDLE"
  BY <1>2 DEF console!TxIdle, LineInv
<1>3. CASE tx_state = "START"
  BY <1>3 DEF console!TxStart, console!TxDelay, console!TxBitDone, LineInv
<1>4. CASE tx_state = "BIT_S"
  <2>1. tx' = SentBit(tx_shamnt) /\ tx_data' = tx_data
    BY <1>4 DEF console!TxBits, SentBit
  <2>2. CASE tx_delay = CONSOLE_DELAY /\ tx_shamnt = DATA_WIDTH - 1
    <3>1. tx_state' = "STOP" /\ tx_delay' = 0
      BY <1>4, <2>2 DEF console!TxBits, console!TxDelay, console!TxBitDone
    <3>2. tx' = SentBit(DATA_WIDTH - 1)'
      BY <2>1, <2>2, Zenon DEF SentBit
    <3> QED BY <3>1, <3>2 DEF LineInv
  <2>3. CASE tx_delay = CONSOLE_DELAY /\ tx_shamnt # DATA_WIDTH - 1
    <3>1. tx_state' = "BIT_S" /\ tx_delay' = 0 /\ tx_shamnt' = tx_shamnt + 1
      BY <1>4, <2>3 DEF console!TxBits, console!TxDelay, console!TxBitDone
    <3>2. tx_shamnt' # 0 /\ tx_shamnt' - 1 = tx_shamnt
      BY <3>1
    <3>3. tx' = SentBit(tx_shamnt - 1)'
      BY <2>1, <3>2, Zenon DEF SentBit
    <3> QED BY <3>1, <3>2, <3>3 DEF LineInv
  <2>4. CASE tx_delay # CONSOLE_DELAY
    <3>1. tx_state' = "BIT_S" /\ tx_delay' = tx_delay + 1 /\ tx_shamnt' = tx_shamnt
      BY <1>4, <2>4 DEF console!TxBits, console!TxDelay, console!TxBitDone
    <3>2. tx' = SentBit(tx_shamnt)'
      BY <2>1, <3>1, Zenon DEF SentBit
    <3> QED BY <3>1, <3>2 DEF LineInv
  <2> QED BY <2>2, <2>3, <2>4
<1>5. CASE tx_state = "STOP"
  BY <1>5 DEF console!TxStop, console!TxDelay, console!TxBitDone, LineInv
<1> QED BY <1>2, <1>3, <1>4, <1>5

\* The transmitter changes its byte only when it takes one.
LEMMA DataKept ==
  ASSUME TypeOK, TakenInv, Posedge, ~rst, ~con_rd
  PROVE  tx_data' = tx_data
<1>1. tx_delay \in Nat
  BY Typed, ConsoleAssumption
<1>2. tx_state = "START" => tx_dout = tx_data
  BY <1>1 DEF TakenInv
<1> QED BY <1>2, TxMoves DEF console!TxStart

\* A byte the transmitter has taken is the one that was next.
LEMMA TakenPosedge ==
  ASSUME TypeOK, RoomInv, BusInv, TakenInv, Posedge, ~rst
  PROVE  TakenInv'
<1>1. /\ tx_delay \in 0 .. CONSOLE_DELAY /\ CONSOLE_DELAY >= 1 /\ CONSOLE_DELAY \in Nat
      /\ tx_state \in {"IDDLE", "START", "BIT_S", "STOP"}
  BY Typed, ConsoleAssumption
<1>2. /\ tx_buff_cnt' = tx_buff_cnt + (IF con_wr THEN 1 ELSE 0) - (IF con_rd THEN 1 ELSE 0)
      /\ tx_dout' = tx_dout /\ clk' = TRUE /\ ~clk
      /\ Popped' = Popped + (IF con_rd THEN 1 ELSE 0)
  BY StreamPosedge DEF Posedge
<1>3. /\ Popped \in Nat /\ Len(Due) \in Nat /\ tx_buff_cnt \in Nat
      /\ Popped + tx_buff_cnt <= Len(Due)
  BY PoppedBound
<1>4. /\ con_rd <=> tx_state = "START" /\ tx_delay = 0
      /\ con_rd => tx_dout = Due[Popped + 1] /\ tx_buff_cnt > 0
      /\ Popped > 0 => tx_data = Due[Popped]
  BY <1>2 DEF TakenInv
<1>5. con_rd' <=> tx_state' = "START" /\ tx_delay' = 0
  <2>1. CASE tx_state = "IDDLE"
    <3>1. console!TxIdle
      BY <2>1, TxMoves
    <3>2. CASE console!empty
      BY <3>1, <3>2 DEF console!TxIdle
    <3>3. CASE ~console!empty
      BY <3>1, <3>3 DEF console!TxIdle
    <3> QED BY <3>2, <3>3
  <2>2. CASE tx_state = "START"
    BY <1>1, <2>2, TxMoves DEF console!TxStart, console!TxDelay, console!TxBitDone
  <2>3. CASE tx_state = "BIT_S"
    BY <2>3, TxMoves DEF console!TxBits
  <2>4. CASE tx_state = "STOP"
    BY <2>4, TxMoves DEF console!TxStop
  <2> QED BY <1>1, <2>1, <2>2, <2>3, <2>4
<1>6. con_rd' => tx_buff_cnt' > 0
  <2>1. con_rd' => tx_state = "IDDLE"
    BY <1>1, TxMoves DEF console!TxStart, console!TxBits, console!TxStop
  <2>2. con_rd' => ~console!empty
    BY <2>1, TxMoves DEF console!TxIdle
  <2> QED BY <1>2, <1>3, <1>4, <2>1, <2>2 DEF console!empty
<1>7. tx_state' = "START" /\ tx_delay' > 0 => tx_dout' = tx_data'
  <2>1. CASE tx_state = "START"
    BY <1>2, <2>1, TxMoves DEF console!TxStart
  <2>2. CASE tx_state = "IDDLE"
    BY <2>2, TxMoves DEF console!TxIdle
  <2>3. CASE tx_state \in {"BIT_S", "STOP"}
    BY <2>3, TxMoves DEF console!TxBits, console!TxStop
  <2> QED BY <1>1, <2>1, <2>2, <2>3
<1>8. Popped' \in Nat
  BY <1>2, <1>3
<1>9. Popped' > 0 => tx_data' = Due'[Popped']
  <2>1. CASE con_rd
    <3>1. tx_data' = tx_dout
      BY <1>4, <2>1, TxMoves DEF console!TxStart
    <3>2. Popped' = Popped + 1 /\ Popped + 1 \in 1 .. Len(Due) /\ tx_dout = Due[Popped + 1]
      BY <1>2, <1>3, <1>4, <2>1
    <3> QED BY <3>1, <3>2, DueKept
  <2>2. CASE ~con_rd
    <3>1. tx_data' = tx_data
      BY <2>2, DataKept
    <3>2. Popped' = Popped
      BY <1>2, <1>3, <2>2
    <3>3. Popped > 0 => Popped \in 1 .. Len(Due)
      BY <1>3
    <3> QED BY <1>4, <3>1, <3>2, <3>3, DueKept
  <2> QED BY <2>1, <2>2
<1> QED BY <1>2, <1>5, <1>6, <1>7, <1>8, <1>9 DEF TakenInv

-----------------------------------------------------------------------------
(* A rising edge without reset: the terminal.  It is set to the console's  *)
(* speed.                                                                  *)

\* How the terminal moves.
LEMMA EarMoves ==
  ASSUME TypeOK, Posedge
  PROVE  /\ ear_bit = 0 =>
              /\ ear_byte' = ear_byte
              /\ IF tx = 0 THEN ear_bit' = 1 /\ ear_clk' = 1
                           ELSE ear_bit' = 0 /\ ear_clk' = ear_clk
         /\ EarStop => ear_bit' = 0 /\ ear_byte' = ear_byte
         /\ ear_bit # 0 /\ ~EarStop =>
              /\ IF ear_clk = LISTEN_CLOCKS - 1
                 THEN ear_bit' = ear_bit + 1 /\ ear_clk' = 0
                 ELSE ear_bit' = ear_bit /\ ear_clk' = ear_clk + 1
              /\ ear_byte' = IF EarMiddle /\ ear_bit \in 2 .. DATA_WIDTH + 1
                             THEN tx * 2 ^ (DATA_WIDTH - 1) + ear_byte \div 2
                             ELSE ear_byte
         /\ EarStop <=> ear_bit = DATA_WIDTH + 2 /\ ear_clk = LISTEN_CLOCKS \div 2
         /\ EarStop => ear_bit # 0
<1>1. EarQuiet \/ EarFrame \/ EarFrameOver
  BY DEF Posedge, Terminal
<1>2. EarStop <=> ear_bit = DATA_WIDTH + 2 /\ ear_clk = LISTEN_CLOCKS \div 2
  BY DEF EarStop, EarMiddle
<1>3. EarStop => ear_bit # 0
  BY FrameAssumption DEF EarStop
<1>4. CASE ear_bit = 0
  <2>1. EarQuiet
    BY <1>1, <1>3, <1>4 DEF EarFrame, EarFrameOver
  <2> QED BY <1>2, <1>3, <1>4, <2>1 DEF EarQuiet
<1>5. CASE EarStop
  <2>1. EarFrameOver
    BY <1>1, <1>3, <1>5 DEF EarQuiet, EarFrame
  <2> QED BY <1>2, <1>3, <1>5, <2>1 DEF EarFrameOver
<1>6. CASE ear_bit # 0 /\ ~EarStop
  <2>1. EarFrame
    BY <1>1, <1>6 DEF EarQuiet, EarFrameOver
  <2> QED BY <1>2, <1>6, <2>1 DEF EarFrame
<1> QED BY <1>4, <1>5, <1>6

\* The middle of a bit, in whole clocks.
LEMMA Middle ==
  ASSUME LISTEN_CLOCKS = CONSOLE_DELAY + 1
  PROVE  LET h == LISTEN_CLOCKS \div 2
         IN  /\ h \in Nat /\ 1 <= h /\ h <= CONSOLE_DELAY
             /\ CONSOLE_DELAY >= 2 => h <= CONSOLE_DELAY - 1
             /\ LISTEN_CLOCKS - 1 = CONSOLE_DELAY
<1>1. CONSOLE_DELAY \in Nat /\ CONSOLE_DELAY >= 1
  BY ConsoleAssumption
<1> QED BY <1>1

\* The terminal stays one clock behind the transmitter.
LEMMA StepPosedge ==
  ASSUME TypeOK, LineInv, StepInv, Posedge, ~rst, LISTEN_CLOCKS = CONSOLE_DELAY + 1
  PROVE  StepInv'
<1> DEFINE h == LISTEN_CLOCKS \div 2
<1>1. /\ tx_delay \in 0 .. CONSOLE_DELAY /\ tx_shamnt \in 0 .. DATA_WIDTH - 1
      /\ tx_state \in {"IDDLE", "START", "BIT_S", "STOP"}
      /\ ear_bit \in 0 .. DATA_WIDTH + 2 /\ ear_clk \in 0 .. LISTEN_CLOCKS - 1
      /\ ear_bit = DATA_WIDTH + 2 => ear_clk <= h
  BY Typed DEF TypeOK
<1>2. /\ CONSOLE_DELAY \in Nat /\ CONSOLE_DELAY >= 1 /\ DATA_WIDTH \in Nat /\ DATA_WIDTH >= 1
      /\ h \in Nat /\ 1 <= h /\ h <= CONSOLE_DELAY
      /\ CONSOLE_DELAY >= 2 => h <= CONSOLE_DELAY - 1
      /\ LISTEN_CLOCKS - 1 = CONSOLE_DELAY
  BY FrameAssumption, ConsoleAssumption, Middle
<1>3. /\ tx_state = "IDDLE" => tx = 1
      /\ tx_state = "START" => tx = IF tx_delay = 0 THEN 1 ELSE 0
      /\ tx_state = "STOP" /\ tx_delay > 0 => tx = 1
  BY DEF LineInv
<1>4. tx_state # "IDDLE" => tx_delay' = IF tx_delay = CONSOLE_DELAY THEN 0 ELSE tx_delay + 1
  BY <1>1, TxMoves
  DEF console!TxStart, console!TxBits, console!TxStop, console!TxDelay, console!TxBitDone
<1>5. /\ tx_state = "IDDLE" => tx_state' \in {"IDDLE", "START"} /\ tx_delay' = 0
      /\ tx_state = "START" =>
           tx_shamnt' = 0 /\ tx_state' = IF tx_delay = CONSOLE_DELAY THEN "BIT_S" ELSE "START"
      /\ tx_state = "BIT_S" =>
           IF tx_delay = CONSOLE_DELAY /\ tx_shamnt = DATA_WIDTH - 1
           THEN tx_state' = "STOP" /\ tx_shamnt' = 0
           ELSE /\ tx_state' = "BIT_S"
                /\ tx_shamnt' = IF tx_delay = CONSOLE_DELAY THEN tx_shamnt + 1 ELSE tx_shamnt
      /\ tx_state = "STOP" => tx_state' = IF tx_delay = CONSOLE_DELAY THEN "IDDLE" ELSE "STOP"
  BY TxMoves
  DEF console!TxIdle, console!TxStart, console!TxBits, console!TxStop, console!TxBitDone
<1>6. /\ ear_bit = 0 => IF tx = 0 THEN ear_bit' = 1 /\ ear_clk' = 1
                                  ELSE ear_bit' = 0 /\ ear_clk' = ear_clk
      /\ EarStop => ear_bit' = 0
      /\ ear_bit # 0 /\ ~EarStop =>
           IF ear_clk = CONSOLE_DELAY
           THEN ear_bit' = ear_bit + 1 /\ ear_clk' = 0
           ELSE ear_bit' = ear_bit /\ ear_clk' = ear_clk + 1
      /\ EarStop <=> ear_bit = DATA_WIDTH + 2 /\ ear_clk = h
  BY <1>2, EarMoves
<1>7. EarStop' <=> ear_bit' = DATA_WIDTH + 2 /\ ear_clk' = h
  BY DEF EarStop, EarMiddle
<1> HIDE DEF h
<1>8. CASE tx_state = "IDDLE"
  BY <1>1, <1>2, <1>3, <1>5, <1>6, <1>7, <1>8 DEF StepInv
<1>9. CASE tx_state = "START"
  <2>1. CASE tx_delay = 0
    BY <1>1, <1>2, <1>3, <1>4, <1>5, <1>6, <1>9, <2>1 DEF StepInv
  <2>2. CASE tx_delay = 1
    BY <1>1, <1>2, <1>3, <1>4, <1>5, <1>6, <1>9, <2>2 DEF StepInv
  <2>3. CASE tx_delay > 1
    BY <1>1, <1>2, <1>3, <1>4, <1>5, <1>6, <1>9, <2>3 DEF StepInv
  <2> QED BY <1>1, <2>1, <2>2, <2>3
<1>10. CASE tx_state = "BIT_S"
  <2>1. CASE tx_delay = 0
    BY <1>1, <1>2, <1>4, <1>5, <1>6, <1>10, <2>1 DEF StepInv
  <2>2. CASE tx_delay > 0
    BY <1>1, <1>2, <1>4, <1>5, <1>6, <1>10, <2>2 DEF StepInv
  <2> QED BY <1>1, <2>1, <2>2
<1>11. CASE tx_state = "STOP"
  <2>1. CASE tx_delay = 0
    BY <1>1, <1>2, <1>4, <1>5, <1>6, <1>11, <2>1 DEF StepInv
  <2>2. CASE tx_delay > 0
    BY <1>1, <1>2, <1>3, <1>4, <1>5, <1>6, <1>7, <1>11, <2>2 DEF StepInv
  <2> QED BY <1>1, <2>1, <2>2
<1> QED BY <1>1, <1>8, <1>9, <1>10, <1>11

\* In the middle of a bit the line has that bit.
LEMMA SampledBit ==
  ASSUME TypeOK, LineInv, StepInv, LISTEN_CLOCKS = CONSOLE_DELAY + 1,
         EarMiddle, ear_bit \in 2 .. DATA_WIDTH + 1
  PROVE  tx = SentBit(ear_bit - 2)
<1>1. /\ tx_delay \in 0 .. CONSOLE_DELAY /\ tx_shamnt \in 0 .. DATA_WIDTH - 1
      /\ tx_state \in {"IDDLE", "START", "BIT_S", "STOP"}
      /\ DATA_WIDTH \in Nat /\ DATA_WIDTH >= 1
      /\ CONSOLE_DELAY \in Nat /\ CONSOLE_DELAY >= 1
  BY Typed, FrameAssumption, ConsoleAssumption
<1>2. /\ tx_state = "IDDLE" => ear_bit = 0 \/ ear_bit = DATA_WIDTH + 2
      /\ tx_state = "START" => ear_bit = 0 \/ ear_bit = 1
      /\ tx_state = "BIT_S" /\ tx_delay = 0 => ear_bit = tx_shamnt + 1
      /\ tx_state = "BIT_S" /\ tx_delay > 0 => ear_bit = tx_shamnt + 2
      /\ tx_state = "STOP" /\ tx_delay = 0 => ear_bit = DATA_WIDTH + 1
      /\ tx_state = "STOP" /\ tx_delay > 0 => ear_bit = 0 \/ ear_bit = DATA_WIDTH + 2
  BY <1>1 DEF StepInv, EarStop
<1>3. tx_state \in {"BIT_S", "STOP"}
  BY <1>1, <1>2
<1>4. CASE tx_state = "BIT_S" /\ tx_delay > 0
  <2>1. ear_bit - 2 = tx_shamnt
    BY <1>1, <1>2, <1>4
  <2> QED BY <1>4, <2>1 DEF LineInv
<1>5. CASE tx_state = "BIT_S" /\ tx_delay = 0
  <2>1. ear_bit - 2 = tx_shamnt - 1 /\ tx_shamnt # 0
    BY <1>1, <1>2, <1>5
  <2> QED BY <1>5, <2>1 DEF LineInv
<1>6. CASE tx_state = "STOP"
  <2>1. tx_delay = 0 /\ ear_bit - 2 = DATA_WIDTH - 1
    BY <1>1, <1>2, <1>6
  <2> QED BY <1>6, <2>1 DEF LineInv
<1> QED BY <1>1, <1>3, <1>4, <1>5, <1>6

\* The bit sampled joins the others.
LEMMA BitTaken ==
  ASSUME TypeOK, NEW n \in 0 .. DATA_WIDTH - 1, tx = SentBit(n), HasBits(n),
         ear_byte' = tx * 2 ^ (DATA_WIDTH - 1) + ear_byte \div 2, tx_data' = tx_data
  PROVE  HasBits(n + 1)'
<1> DEFINE Q == 2 ^ n
           R == 2 ^ (DATA_WIDTH - (n + 1))
           N == 2 ^ (DATA_WIDTH - 1)
           M == 2 ^ DATA_WIDTH
           d == ear_byte
           x == tx_data
<1>1. n \in Nat /\ DATA_WIDTH - (n + 1) \in Nat
  BY FrameAssumption
<1>2. Q \in Nat \ {0} /\ 2 ^ (n + 1) = 2 * Q
  BY <1>1, Power
<1>3. R \in Nat \ {0} /\ 2 ^ (DATA_WIDTH - n) = 2 * R
  <2>1. (DATA_WIDTH - (n + 1)) + 1 = DATA_WIDTH - n
    BY FrameAssumption
  <2>2. R \in Nat \ {0} /\ 2 ^ ((DATA_WIDTH - (n + 1)) + 1) = 2 * R
    BY <1>1, Power
  <2> QED BY <2>1, <2>2
<1>4. M = 2 * N /\ M \in Nat /\ N \in Nat \ {0}
  BY Widths
<1>5. d \in Nat /\ x \in Nat /\ d < M
  <2>1. d \in 0 .. M - 1 /\ x \in 0 .. M - 1
    BY Typed
  <2> HIDE DEF M, d, x
  <2> QED BY <1>4, <2>1
<1>6. Q * (2 * R) = M /\ d \div (2 * R) = x % Q
  BY <1>3 DEF HasBits
<1>7. tx = (x \div Q) % 2
  BY DEF SentBit
<1>8. ear_byte' = ((x \div Q) % 2) * N + d \div 2
  BY <1>7
<1> HIDE DEF Q, R, N, M, d, x
<1>9. N = R * Q
  <2>1. Q * (2 * R) = 2 * (R * Q)
    BY <1>2, <1>3
  <2>2. R * Q \in Nat
    BY <1>2, <1>3
  <2> QED BY <1>4, <1>6, <2>1, <2>2
<1>10. d < 2 * (R * Q)
  BY <1>4, <1>5, <1>9
<1>11. (((x \div Q) % 2) * (R * Q) + d \div 2) \div R = x % (2 * Q)
  <2>1. /\ Q \in Nat \ {0} /\ R \in Nat \ {0} /\ d \in Nat /\ x \in Nat
        /\ d \div (2 * R) = x % Q /\ d < 2 * (R * Q)
    BY <1>2, <1>3, <1>5, <1>6, <1>10
  <2> QED BY <2>1, Shifted, ZenonT(60)
<1>12. ear_byte' \div R = x % (2 * Q)
  BY <1>8, <1>9, <1>11
<1>13. (2 * Q) * R = M
  BY <1>2, <1>3, <1>6
<1> QED BY <1>2, <1>12, <1>13 DEF HasBits, R, M, x

\* The terminal has of the byte as many bits as it has sampled, and all of them in the stop
\* bit.
LEMMA DataPosedge ==
  ASSUME TypeOK, TakenInv, LineInv, StepInv, DataInv, Posedge, ~rst,
         LISTEN_CLOCKS = CONSOLE_DELAY + 1
  PROVE  DataInv'
<1> DEFINE h == LISTEN_CLOCKS \div 2
           W == DATA_WIDTH
<1>1. /\ tx_state \in {"IDDLE", "START", "BIT_S", "STOP"}
      /\ ear_bit \in 0 .. W + 2 /\ ear_clk \in 0 .. CONSOLE_DELAY
      /\ ear_byte \in 0 .. 2 ^ W - 1 /\ tx_data \in 0 .. 2 ^ W - 1
      /\ W \in Nat /\ W >= 1
      /\ h \in Nat /\ 1 <= h /\ h <= CONSOLE_DELAY /\ CONSOLE_DELAY \in Nat
      /\ LISTEN_CLOCKS - 1 = CONSOLE_DELAY
  BY Typed, FrameAssumption, ConsoleAssumption, Middle
<1>2. ear_bit # 0 => tx_data' = tx_data
  <2>1. con_rd => ear_bit = 0
    BY <1>1 DEF TakenInv, StepInv
  <2> QED BY <2>1, DataKept
<1>3. EarStop <=> ear_bit = W + 2 /\ ear_clk = h
  BY EarMoves
<1>4. EarMiddle <=> ear_clk = h
  BY DEF EarMiddle
<1> DEFINE last == ear_clk = CONSOLE_DELAY
<1>5. ear_bit # 0 /\ ~EarStop =>
        /\ last => ear_bit' = ear_bit + 1 /\ ear_clk' = 0
        /\ ~last => ear_bit' = ear_bit /\ ear_clk' = ear_clk + 1
        /\ ear_byte' = IF EarMiddle /\ ear_bit \in 2 .. W + 1
                       THEN tx * 2 ^ (W - 1) + ear_byte \div 2 ELSE ear_byte
  BY <1>1, EarMoves
<1>6. ear_bit = 0 => ear_bit' \in {0, 1}
  BY EarMoves
<1>7. EarStop => ear_bit' = 0
  BY EarMoves
<1>8. /\ ear_clk <= h => EarBits = ear_bit - 2
      /\ ear_clk > h => EarBits = ear_bit - 1
      /\ ear_clk' <= h => EarBits' = ear_bit' - 2
      /\ ear_clk' > h => EarBits' = ear_bit' - 1
  <2>2. ear_clk' \in 0 .. LISTEN_CLOCKS - 1
    BY TypeStep DEF TypeOK, Next
  <2> QED BY <1>1, <2>2 DEF EarBits
<1> HIDE DEF h
<1>9. /\ ear_byte' \in 0 .. 2 ^ W - 1
      /\ 2 ^ W \in Nat \ {0} /\ 2 ^ (W - W) = 1 /\ 2 ^ 0 = 1 /\ 2 ^ (W - 0) = 2 ^ W
  <2>1. TypeOK'
    BY TypeStep DEF Next
  <2>2. ear_byte' \in 0 .. 2 ^ W - 1
    BY <2>1, ValueAssumption DEF TypeOK
  <2>3. W - W = 0 /\ W - 0 = W
    BY <1>1
  <2> QED BY <2>2, <2>3, Widths
<1>10. CASE ear_bit \in 2 .. W + 1
  <2>1. ear_bit # 0 /\ ~EarStop /\ HasBits(EarBits) /\ tx_data' = tx_data
    BY <1>1, <1>2, <1>3, <1>10 DEF DataInv
  <2>2. PICK k \in 0 .. W : k = IF ear_clk >= h THEN ear_bit - 1 ELSE ear_bit - 2
    <3>1. (IF ear_clk >= h THEN ear_bit - 1 ELSE ear_bit - 2) \in 0 .. W
      BY <1>1, <1>10
    <3> QED BY <3>1
  <2>3. HasBits(k)'
    <3>1. CASE ear_clk = h
      <4>1. EarBits = ear_bit - 2 /\ k = ear_bit - 1
        BY <1>1, <1>8, <2>2, <3>1
      <4>2. ear_byte' = tx * 2 ^ (W - 1) + ear_byte \div 2
        BY <1>4, <1>5, <1>10, <2>1, <3>1
      <4>3. tx = SentBit(ear_bit - 2)
        BY <1>4, <1>10, <3>1, SampledBit
      <4>4. PICK n \in 0 .. W - 1 : n = ear_bit - 2
        BY <1>1, <1>10
      <4>5. tx = SentBit(n) /\ HasBits(n)
        BY <2>1, <4>1, <4>3, <4>4
      <4>6. HasBits(n + 1)'
        BY <2>1, <4>2, <4>5, BitTaken
      <4>7. k = n + 1
        BY <1>1, <1>10, <4>1, <4>4
      <4> QED BY <4>6, <4>7
    <3>2. CASE ear_clk # h
      <4>1. ear_byte' = ear_byte
        BY <1>4, <1>5, <2>1, <3>2
      <4>2. k = EarBits
        BY <1>1, <1>8, <2>2, <3>2
      <4>3. HasBits(k)
        BY <2>1, <4>2
      <4> QED BY <2>1, <4>1, <4>3 DEF HasBits
    <3> QED BY <3>1, <3>2
  <2>4. CASE last /\ ear_bit = W + 1
    <3>1. k = W /\ ear_bit' = W + 2
      BY <1>1, <1>5, <2>1, <2>2, <2>4
    <3>2. ear_byte' \div 1 = tx_data' % (2 ^ W)
      BY <1>9, <2>3, <3>1 DEF HasBits
    <3>3. ear_byte' = tx_data'
      <4> DEFINE M == 2 ^ W
      <4>1. M \in Nat \ {0} /\ ear_byte' \in 0 .. M - 1 /\ tx_data' \in 0 .. M - 1
        BY <1>1, <1>9, <2>1
      <4>2. ear_byte' \div 1 = tx_data' % M
        BY <3>2
      <4> HIDE DEF M
      <4>3. ear_byte' \div 1 = ear_byte'
        <5>1. \A x \in Nat : x \div 1 = x
          OBVIOUS
        <5>2. ear_byte' \in Nat
          BY <4>1
        <5> QED BY <5>1, <5>2
      <4>4. tx_data' \in Nat /\ tx_data' < M
        BY <4>1
      <4>5. tx_data' % M = tx_data'
        BY <4>1, <4>4, SmallQuotient
      <4> QED BY <4>2, <4>3, <4>5
    <3>4. ~(ear_bit' \in 2 .. W + 1)
      BY <1>1, <3>1
    <3> QED BY <3>3, <3>4 DEF DataInv
  <2>5. CASE ~(last /\ ear_bit = W + 1)
    <3>1. ear_bit' \in 2 .. W + 1 /\ EarBits' = k
      <4>1. CASE last
        BY <1>1, <1>5, <1>8, <1>10, <2>1, <2>2, <2>5, <4>1
      <4>2. CASE ~last
        BY <1>1, <1>5, <1>8, <1>10, <2>1, <2>2, <4>2
      <4> QED BY <4>1, <4>2
    <3>2. HasBits(EarBits)'
      BY <2>3, <3>1 DEF HasBits
    <3>3. ear_bit' # W + 2
      BY <1>1, <3>1
    <3> QED BY <3>2, <3>3 DEF DataInv
  <2> QED BY <2>4, <2>5
<1>11. CASE ear_bit = 1
  <2>1. ~EarStop /\ tx_data' = tx_data
    BY <1>1, <1>2, <1>3, <1>11
  <2>2. CASE last
    <3>1. ear_bit' = 2 /\ EarBits' = 0
      BY <1>1, <1>5, <1>8, <1>11, <2>1, <2>2
    <3>2. HasBits(0)'
      <4> DEFINE M == 2 ^ W
      <4>1. M \in Nat \ {0} /\ ear_byte' \in Nat /\ ear_byte' < M /\ tx_data' \in Nat
        <5>1. M \in Nat \ {0} /\ ear_byte' \in 0 .. M - 1 /\ tx_data' \in 0 .. M - 1
          BY <1>1, <1>9, <2>1
        <5> HIDE DEF M
        <5> QED BY <5>1
      <4>2. 2 ^ (W - 0) = M /\ 2 ^ 0 * 2 ^ (W - 0) = M
        BY <1>9, <4>1
      <4> HIDE DEF M
      <4>3. ear_byte' \div M = 0
        BY <4>1, SmallQuotient
      <4>4. tx_data' % 1 = 0
        <5>1. \A x \in Nat : x % 1 = 0
          OBVIOUS
        <5> QED BY <4>1, <5>1
      <4>5. ear_byte' \div 2 ^ (W - 0) = tx_data' % 2 ^ 0
        BY <1>9, <4>2, <4>3, <4>4
      <4> QED BY <4>2, <4>5 DEF HasBits, M
    <3>3. HasBits(EarBits)'
      BY <3>1, <3>2 DEF HasBits
    <3> QED BY <1>1, <3>1, <3>3 DEF DataInv
  <2>3. CASE ~last
    BY <1>1, <1>5, <1>11, <2>1, <2>3 DEF DataInv
  <2> QED BY <2>2, <2>3
<1>12. CASE ear_bit = 0
  BY <1>1, <1>6, <1>12 DEF DataInv
<1>13. CASE ear_bit = W + 2
  <2>1. CASE EarStop
    BY <1>1, <1>7, <2>1 DEF DataInv
  <2>2. CASE ~EarStop
    <3>1. ear_clk <= h
      BY <1>13 DEF TypeOK, h
    <3>2. ~last /\ ear_bit # 0 /\ ~(ear_bit \in 2 .. W + 1)
      BY <1>1, <1>3, <1>13, <2>2, <3>1
    <3>3. ear_bit' = ear_bit /\ ear_byte' = ear_byte /\ tx_data' = tx_data
      BY <1>2, <1>5, <2>2, <3>2
    <3> QED BY <1>13, <3>2, <3>3 DEF DataInv
  <2> QED BY <2>1, <2>2
<1> QED BY <1>1, <1>10, <1>11, <1>12, <1>13

\* What the terminal has heard stays what was to be heard.
LEMMA HeardPosedge ==
  ASSUME TypeOK, RoomInv, BusInv, TakenInv, LineInv, StepInv, DataInv, HeardInv,
         Posedge, ~rst, LISTEN_CLOCKS = CONSOLE_DELAY + 1
  PROVE  HeardInv'
<1> DEFINE W == DATA_WIDTH
<1>1. /\ tx_delay \in 0 .. CONSOLE_DELAY /\ CONSOLE_DELAY \in Nat /\ CONSOLE_DELAY >= 1
      /\ tx_shamnt \in 0 .. W - 1
      /\ tx_state \in {"IDDLE", "START", "BIT_S", "STOP"}
      /\ ear_bit \in 0 .. W + 2 /\ W \in Nat /\ W >= 1
      /\ heard \in Seq(Value) /\ Len(heard) \in Nat /\ ear_byte \in Value
  BY Typed, FrameAssumption, ConsoleAssumption DEF TypeOK
<1>2. /\ Popped \in Nat /\ Len(Due) \in Nat /\ Popped <= Len(Due)
      /\ Popped' = Popped + (IF con_rd THEN 1 ELSE 0)
  BY PoppedBound, StreamPosedge
<1>3. /\ tx_state = "START" /\ tx_delay = 0 => tx = 1 /\ ear_bit = 0
      /\ tx_state = "START" /\ tx_delay = 1 => tx = 0 /\ ear_bit = 0
      /\ tx_state = "START" /\ tx_delay > 1 => ear_bit = 1
      /\ tx_state = "IDDLE" => tx = 1 /\ (ear_bit = 0 \/ EarStop)
      /\ tx_state = "BIT_S" => ear_bit \in 1 .. W + 1
      /\ tx_state = "STOP" /\ tx_delay > 0 => tx = 1
      /\ tx_state = "STOP" /\ tx_delay = 0 => ear_bit = W + 1
  BY <1>1 DEF LineInv, StepInv
<1>4. EarStop => ear_bit = W + 2 /\ tx_state \in {"IDDLE", "STOP"} /\ tx = 1
  BY <1>1, <1>3 DEF EarStop
<1>5. con_rd <=> tx_state = "START" /\ tx_delay = 0
  BY DEF TakenInv
<1>6. tx_state' = "START" /\ tx_delay' = 1 <=> con_rd
  <2>1. CASE tx_state = "IDDLE"
    BY <1>5, <2>1, TxMoves DEF console!TxIdle
  <2>2. CASE tx_state = "START"
    BY <1>1, <1>5, <2>2, TxMoves DEF console!TxStart, console!TxDelay, console!TxBitDone
  <2>3. CASE tx_state = "BIT_S"
    BY <1>5, <2>3, TxMoves DEF console!TxBits
  <2>4. CASE tx_state = "STOP"
    BY <1>5, <2>4, TxMoves DEF console!TxStop
  <2> QED BY <1>1, <2>1, <2>2, <2>3, <2>4
<1>7. /\ ear_bit = 0 => ear_bit' = IF tx = 0 THEN 1 ELSE 0
      /\ EarStop => ear_bit' = 0
      /\ ear_bit # 0 /\ ~EarStop => ear_bit' # 0
  BY <1>1, EarMoves
<1>8. heard' = IF EarStop THEN Append(heard, ear_byte) ELSE heard
  BY <1>4 DEF Posedge, Record, RecordStep, Heard
<1>9. /\ Len(Append(heard, ear_byte)) = Len(heard) + 1
      /\ Append(heard, ear_byte)[Len(heard) + 1] = ear_byte
      /\ \A j \in 1 .. Len(heard) : Append(heard, ear_byte)[j] = heard[j]
  BY <1>1, AppendProperties
<1>10. Len(heard) + Hearing = Popped /\ \A j \in 1 .. Len(heard) : heard[j] = Due[j]
  BY DEF HeardInv
<1>11. CASE con_rd
  <2>1. ear_bit = 0 /\ tx = 1 /\ ~(tx_state = "START" /\ tx_delay = 1) /\ ~EarStop
    BY <1>1, <1>3, <1>4, <1>5, <1>11
  <2>2. Hearing = 0 /\ Hearing' = 1 /\ heard' = heard
    BY <1>6, <1>8, <1>11, <2>1 DEF Hearing
  <2>3. Len(heard) + 1 = Popped + 1
    BY <1>1, <1>10, <2>2
  <2>4. Popped' = Popped + 1
    BY <1>2, <1>11
  <2>5. \A j \in 1 .. Len(heard) : heard[j] = Due'[j]
    BY <1>1, <1>2, <1>10, <2>2, DueKept
  <2> QED BY <2>2, <2>3, <2>4, <2>5 DEF HeardInv
<1>12. CASE EarStop
  <2>1. ~con_rd /\ Hearing = 1 /\ Hearing' = 0
    BY <1>4, <1>5, <1>6, <1>7, <1>12, <1>1 DEF Hearing
  <2>2. Len(heard) + 1 = Popped /\ Popped' = Popped /\ Len(heard') = Len(heard) + 1
    BY <1>1, <1>2, <1>8, <1>9, <1>10, <1>12, <2>1
  <2>3. ear_byte = Due[Popped]
    <3>1. ear_byte = tx_data
      BY <1>4, <1>12 DEF DataInv
    <3>2. Popped > 0
      BY <1>1, <2>2
    <3> QED BY <3>1, <3>2 DEF TakenInv
  <2>4. \A j \in 1 .. Len(heard') : heard'[j] = Due[j]
    BY <1>1, <1>8, <1>9, <1>10, <1>12, <2>2, <2>3
  <2>5. \A j \in 1 .. Len(heard') : heard'[j] = Due'[j]
    BY <1>1, <1>2, <2>2, <2>4, DueKept
  <2>6. Len(heard') + 0 = Popped'
    BY <1>1, <2>2
  <2> QED BY <2>1, <2>5, <2>6 DEF HeardInv
<1>13. CASE ~con_rd /\ ~EarStop
  <2>1. Hearing' = Hearing
    <3>1. CASE ear_bit # 0
      BY <1>7, <1>13, <3>1 DEF Hearing
    <3>2. CASE ear_bit = 0
      <4>1. CASE tx_state = "START"
        BY <1>1, <1>3, <1>5, <1>6, <1>7, <1>13, <3>2, <4>1 DEF Hearing
      <4>2. CASE tx_state # "START"
        BY <1>1, <1>3, <1>6, <1>7, <1>13, <3>2, <4>2 DEF Hearing
      <4> QED BY <4>1, <4>2
    <3> QED BY <3>1, <3>2
  <2>2. heard' = heard /\ Popped' = Popped
    BY <1>2, <1>8, <1>13
  <2>3. Len(heard) <= Popped
    BY <1>1, <1>2, <1>10 DEF Hearing
  <2>4. \A j \in 1 .. Len(heard) : heard[j] = Due'[j]
    BY <1>1, <1>2, <1>10, <2>3, DueKept
  <2> QED BY <1>10, <2>1, <2>2, <2>4 DEF HeardInv
<1> QED BY <1>11, <1>12, <1>13

\* A rising edge without reset.
LEMMA PortPosedge ==
  ASSUME TypeOK, PortInv, Posedge, ~rst,
         LISTEN_CLOCKS = CONSOLE_DELAY + 1, CONSOLE_DEPTH >= 3
  PROVE  PortInv'
<1> USE DEF PortInv
<1>1. RoomInv'
  BY RoomStep, ConsoleAssumption DEF Next
<1>2. BusInv' /\ ContentInv' /\ TakenInv' /\ LineInv'
  BY BusPosedge, ContentPosedge, TakenPosedge, LinePosedge
<1>3. ResetInv'
  <2>1. rst_held' = 0
    BY DEF Posedge, Debounce
  <2>2. TypeOK'
    BY TypeStep DEF Next
  <2>3. ear_bit' > 0 => LISTEN_CLOCKS * (ear_bit' - 1) + ear_clk' >= 0
    <3>1. ear_bit' \in Nat /\ ear_clk' \in Nat /\ LISTEN_CLOCKS \in Nat
      BY <2>2, TerminalAssumption, FrameAssumption DEF TypeOK
    <3> QED BY <3>1
  <2> QED BY <2>1, <2>3 DEF ResetInv
<1>4. StepInv' /\ DataInv' /\ HeardInv'
  <2>1. StepInv /\ DataInv /\ HeardInv
    BY DEF InStep
  <2> QED BY <2>1, StepPosedge, DataPosedge, HeardPosedge
<1> QED BY <1>1, <1>2, <1>3, <1>4 DEF InStep

-----------------------------------------------------------------------------
(* Resets.                                                                 *)

\* While rst is up, the line is high from its second clock on, and the terminal is through
\* with its frame before rst goes down.
LEMMA ResetOutlasts ==
  ASSUME TypeOK, ResetInv, Posedge, rst
  PROVE  ResetInv' /\ (~rst' => ear_bit' = 0)
<1> DEFINE L == LISTEN_CLOCKS
<1>1. /\ L \in Nat /\ L >= 2 /\ RESET_CLOCKS \in Nat /\ RESET_CLOCKS >= L * (DATA_WIDTH + 2)
      /\ DATA_WIDTH \in Nat
      /\ ear_bit \in 0 .. DATA_WIDTH + 2 /\ ear_clk \in 0 .. L - 1
      /\ rst_held \in 0 .. RESET_CLOCKS /\ tx \in {0, 1}
  BY TerminalAssumption, FrameAssumption, Typed DEF TypeOK
<1>2. tx' = 1
  BY DEF Posedge, console!ConsolePosedge, console!Transmit, console!TxReset
<1>3. /\ rst_held > 0 => tx = 1
      /\ ear_bit > 0 => L * (ear_bit - 1) + ear_clk >= rst_held
  BY DEF ResetInv
<1>4. rst_held' \in {0, rst_held + 1} /\ (~rst' => rst_held = RESET_CLOCKS)
  BY DEF Posedge, Debounce
<1>5. /\ ear_bit = 0 => IF tx = 0 THEN ear_bit' = 1 /\ ear_clk' = 1
                                  ELSE ear_bit' = 0 /\ ear_clk' = ear_clk
      /\ EarStop => ear_bit' = 0
      /\ ear_bit # 0 /\ ~EarStop =>
           IF ear_clk = L - 1
           THEN ear_bit' = ear_bit + 1 /\ ear_clk' = 0
           ELSE ear_bit' = ear_bit /\ ear_clk' = ear_clk + 1
  BY EarMoves
<1> HIDE DEF L
<1>6. \A m, n \in Int : m >= n => L * m >= L * n
  BY <1>1
<1>7. ear_bit' > 0 => L * (ear_bit' - 1) + ear_clk' >= rst_held'
  <2> SUFFICES ASSUME ear_bit' > 0 PROVE L * (ear_bit' - 1) + ear_clk' >= rst_held'
    OBVIOUS
  <2>1. CASE ear_bit = 0
    <3>1. tx = 0 /\ ear_bit' = 1 /\ ear_clk' = 1
      BY <1>5, <2>1
    <3>2. rst_held = 0
      BY <1>1, <1>3, <3>1
    <3>3. rst_held' \in {0, 1}
      BY <1>4, <3>2
    <3>4. L * (1 - 1) = 0
      BY <1>1
    <3> QED BY <3>1, <3>3, <3>4
  <2>2. CASE ear_bit # 0
    <3> DEFINE p == L * (ear_bit - 1)
    <3>1. p \in Nat /\ L * ear_bit = p + L
      BY <1>1, <2>2
    <3>2. L * (ear_bit' - 1) + ear_clk' = p + ear_clk + 1
      <4>1. ~EarStop
        BY <1>5
      <4>2. CASE ear_clk = L - 1
        <5>1. ear_bit' - 1 = ear_bit /\ ear_clk' = 0
          BY <1>1, <1>5, <2>2, <4>1, <4>2
        <5>2. L * (ear_bit' - 1) = L * ear_bit
          BY <5>1
        <5> HIDE DEF p
        <5>3. L * ear_bit + 0 = p + ear_clk + 1
          BY <1>1, <3>1, <4>2
        <5> QED BY <5>1, <5>2, <5>3
      <4>3. CASE ear_clk # L - 1
        <5>1. ear_bit' = ear_bit /\ ear_clk' = ear_clk + 1
          BY <1>5, <2>2, <4>1, <4>3
        <5>2. L * (ear_bit' - 1) = p
          BY <5>1
        <5> HIDE DEF p
        <5> QED BY <1>1, <3>1, <5>1, <5>2
      <4> QED BY <4>2, <4>3
    <3>3. p + ear_clk >= rst_held
      BY <1>1, <1>3, <2>2
    <3>4. rst_held' <= rst_held + 1
      BY <1>1, <1>4
    <3>5. rst_held' \in Int
      BY <1>1, <1>4
    <3> HIDE DEF p
    <3> QED BY <1>1, <3>1, <3>2, <3>3, <3>4, <3>5
  <2> QED BY <2>1, <2>2
<1>8. ~rst' => ear_bit' = 0
  <2> SUFFICES ASSUME ~rst' PROVE ear_bit' = 0
    OBVIOUS
  <2>1. rst_held = RESET_CLOCKS
    BY <1>4
  <2>2. L * (DATA_WIDTH + 2) >= 1
    <3>1. L * (DATA_WIDTH + 2) >= L * 1
      BY <1>1, <1>6
    <3> QED BY <1>1, <3>1
  <2>3. tx = 1
    BY <1>1, <1>3, <2>1, <2>2
  <2>4. ear_bit = 0
    <3> SUFFICES ASSUME ear_bit # 0 PROVE FALSE
      OBVIOUS
    <3>1. L * (ear_bit - 1) + ear_clk >= L * (DATA_WIDTH + 2)
      BY <1>1, <1>3, <2>1
    <3>2. L * (DATA_WIDTH + 1) >= L * (ear_bit - 1)
      BY <1>1, <1>6
    <3>3. L * (DATA_WIDTH + 2) = L * (DATA_WIDTH + 1) + L
      BY <1>1
    <3>4. L * (DATA_WIDTH + 1) \in Nat /\ L * (ear_bit - 1) \in Nat
      BY <1>1
    <3> QED BY <1>1, <3>1, <3>2, <3>3, <3>4
  <2> QED BY <1>5, <2>3, <2>4
<1>9. ResetInv'
  BY <1>2, <1>7 DEF ResetInv, L
<1> QED BY <1>8, <1>9

\* A reset leaves what is in con_wr and in the CYC of the master.
LEMMA PortReset ==
  ASSUME TypeOK, PortInv, Posedge, rst, CONSOLE_DEPTH >= 3
  PROVE  PortInv'
<1> USE DEF PortInv
<1>1. /\ busy' = FALSE /\ CYC' = CYC /\ DAT_O' = DAT_O
      /\ con_wr' = con_wr /\ ACK_S' = ACK_S /\ wb_states' = "IDDLE_WB"
      /\ tx_state' = "IDDLE" /\ tx_delay' = 0 /\ con_rd' = FALSE /\ tx' = 1
      /\ tx_write_ptr' = 0 /\ tx_read_ptr' = 0 /\ tx_buff_cnt' = 0 /\ clk' = TRUE
  BY DEF Posedge, Master, MasterReset, console!ConsolePosedge, console!ConsoleBus,
    console!ConsoleBusReset, console!Transmit, console!TxReset, console!FifoPosedge,
    console!FifoReset
<1> DEFINE byte == console!din(DAT_O)
<1>2. /\ sent' = << >> /\ heard' = << >>
      /\ stale' = IF con_wr THEN <<byte>> ELSE << >>
  BY DEF Posedge, Record, RecordReset
<1>3. console!din(DAT_O)' = byte
  BY <1>1 DEF console!din
<1> HIDE DEF byte
<1>4. byte \in Value
  BY DueTyped DEF byte
<1>5. Due' = stale'
  <2>1. stale' \in Seq(Value)
    BY <1>2, <1>4, EmptySeq
  <2> QED BY <1>2, <2>1, ConcatEmptySeq DEF Due
<1>6. /\ con_wr => Due' = <<byte>> /\ Len(Due') = 1 /\ Due'[1] = byte
      /\ ~con_wr => Due' = << >> /\ Len(Due') = 0
  <2>1. Len(<<byte>>) = 1 /\ <<byte>>[1] = byte /\ Len(<< >>) = 0
    BY <1>4, EmptySeq
  <2> QED BY <1>2, <1>5, <2>1
<1>7. Popped' = 0
  <2>1. Pending' = IF con_wr THEN 1 ELSE 0
    BY <1>1 DEF Pending, Awaited
  <2> QED BY <1>1, <1>6, <2>1 DEF Popped
<1>8. RoomInv'
  BY RoomStep, ConsoleAssumption DEF Next
<1>9. BusInv'
  <2>1. con_wr' /\ ~Awaited' => Len(Due') > 0 /\ Due'[Len(Due')] = console!din(DAT_O)'
    <3> SUFFICES ASSUME con_wr' PROVE Len(Due') > 0 /\ Due'[Len(Due')] = byte
      BY <1>3
    <3>1. Len(Due') = 1 /\ Due'[1] = byte
      BY <1>1, <1>6
    <3> QED BY <3>1
  <2> QED BY <1>1, <1>2, <2>1 DEF BusInv, Awaited
<1>10. ContentInv'
  BY <1>1, ConsoleAssumption DEF ContentInv, At
<1>11. TakenInv' /\ LineInv'
  BY <1>1, <1>7 DEF TakenInv, LineInv
<1>12. ResetInv' /\ (~rst' => ear_bit' = 0)
  BY ResetOutlasts
<1>13. InStep'
  <2>1. CASE rst'
    BY <1>2, <2>1 DEF InStep
  <2>2. CASE ~rst'
    <3>1. ear_bit' = 0
      BY <1>12, <2>2
    <3>2. StepInv'
      BY <1>1, <3>1 DEF StepInv
    <3>3. DataInv'
      BY <3>1, FrameAssumption DEF DataInv
    <3>4. HeardInv'
      <4>1. Len(heard') = 0 /\ Hearing' = 0
        BY <1>1, <1>2, <3>1, EmptySeq DEF Hearing
      <4> QED BY <1>7, <4>1 DEF HeardInv
    <3> QED BY <3>2, <3>3, <3>4 DEF InStep
  <2> QED BY <2>1, <2>2
<1> QED BY <1>8, <1>9, <1>10, <1>11, <1>12, <1>13

-----------------------------------------------------------------------------
(* Every step, and what follows.                                           *)

\* The invariant holds after the power-on reset.
LEMMA PortInit ==
  ASSUME Init, CONSOLE_DEPTH >= 3
  PROVE  PortInv
<1>1. /\ busy = FALSE /\ CYC = FALSE /\ con_wr = FALSE /\ ACK_S = FALSE /\ wb_states = "IDDLE_WB"
      /\ tx_state = "IDDLE" /\ tx_delay = 0 /\ con_rd = FALSE /\ tx = 1
      /\ tx_write_ptr = 0 /\ tx_read_ptr = 0 /\ tx_buff_cnt = 0 /\ clk = TRUE
      /\ stale = << >> /\ sent = << >> /\ heard = << >> /\ rst = FALSE /\ ear_bit = 0
  BY DEF Init, console!ConsoleInit, console!FifoInit
<1>2. RoomInv
  BY RoomInit, ConsoleAssumption
<1>3. Popped = 0
  <2>1. Due = << >> /\ Len(Due) = 0
    <3>1. << >> \o << >> = << >>
      BY EmptySeq, ConcatEmptySeq
    <3> QED BY <1>1, <3>1, EmptySeq DEF Due
  <2> QED BY <1>1, <2>1 DEF Popped, Pending
<1>4. BusInv
  BY <1>1 DEF BusInv
<1>5. ContentInv
  BY <1>1, ConsoleAssumption DEF ContentInv, At
<1>6. TakenInv /\ LineInv /\ ResetInv
  BY <1>1, <1>3 DEF TakenInv, LineInv, ResetInv
<1>7. InStep
  <2>1. StepInv /\ DataInv
    BY <1>1, FrameAssumption DEF StepInv, DataInv
  <2>2. Len(heard) = 0 /\ Hearing = 0
    BY <1>1, EmptySeq DEF Hearing
  <2>3. HeardInv
    BY <1>3, <2>2 DEF HeardInv
  <2> QED BY <2>1, <2>3 DEF InStep
<1> QED BY <1>2, <1>4, <1>5, <1>6, <1>7 DEF PortInv

\* A step that changes nothing.
LEMMA PortStutter ==
  ASSUME PortInv, UNCHANGED vars
  PROVE  PortInv'
<1>1. /\ UNCHANGED <<wb_states, con_wr, ACK_S, tx_state, con_rd, tx_delay, tx_shamnt, tx_data,
                     tx, tx_write_ptr, tx_read_ptr, tx_buff_cnt, tx_buffer, tx_dout>>
      /\ UNCHANGED <<clk, rst, rst_held, busy, CYC, target, DAT_O, stale, sent, heard>>
      /\ UNCHANGED <<ear_bit, ear_clk, ear_byte>>
  BY DEF vars, console!consoleVars, console!fifoVars, console!consoleBusVars,
    console!txVars, masterVars, resetVars, terminalVars, historyVars
<1>2. /\ Awaited' = Awaited /\ Due' = Due /\ Pending' = Pending /\ Popped' = Popped
      /\ console!din(DAT_O)' = console!din(DAT_O)
  BY <1>1 DEF Awaited, Due, Pending, Popped, console!din
<1> USE DEF PortInv
<1>3. RoomInv' /\ BusInv' /\ ResetInv'
  BY <1>1, <1>2 DEF RoomInv, BusInv, ResetInv
<1>4. ContentInv' /\ TakenInv'
  BY <1>1, <1>2 DEF ContentInv, At, TakenInv
<1>5. LineInv'
  BY <1>1 DEF LineInv, SentBit
<1>6. InStep'
  <2>1. StepInv => StepInv'
    BY <1>1 DEF StepInv, EarStop, EarMiddle
  <2>2. DataInv => DataInv'
    BY <1>1 DEF DataInv, HasBits, EarBits
  <2>3. HeardInv => HeardInv'
    BY <1>1, <1>2 DEF HeardInv, Hearing
  <2> QED BY <1>1, <2>1, <2>2, <2>3 DEF InStep
<1> QED BY <1>3, <1>4, <1>5, <1>6

\* Every step keeps the invariant, a reset included.
LEMMA PortStep ==
  ASSUME LISTEN_CLOCKS = CONSOLE_DELAY + 1, CONSOLE_DEPTH >= 3
  PROVE  TypeOK /\ PortInv /\ [Next]_vars => PortInv'
  BY PortPosedge, PortReset, PortNegedge, PortStutter DEF Next

\* Equal up to its end, one sequence is a prefix of another.
LEMMA PrefixByBytes ==
  ASSUME NEW p \in Seq(Value), NEW q \in Seq(Value), Len(p) <= Len(q),
         \A i \in 1 .. Len(p) : p[i] = q[i]
  PROVE  IsPrefix(p, q)
<1> DEFINE n == Len(p)
           u == SubSeq(p, 1, n)
           v == SubSeq(q, 1, n)
<1>1. n \in Nat /\ Len(q) \in Nat /\ n <= Len(q)
  BY LenProperties
<1>2. /\ \A i \in 1 .. n : p[i] \in Value
      /\ \A i \in 1 .. n : q[i] \in Value
  BY <1>1, ElementOfSeq
<1> HIDE DEF n
<1>3. u \in Seq(Value) /\ Len(u) = n /\ \A i \in 1 .. n : u[i] = p[i]
  <2>1. /\ u \in Seq(Value) /\ Len(u) = IF 1 <= n THEN n - 1 + 1 ELSE 0
        /\ \A i \in 1 .. n - 1 + 1 : u[i] = p[1 + i - 1]
    BY <1>1, <1>2, SubSeqProperties
  <2> HIDE DEF u
  <2> QED BY <1>1, <2>1
<1>4. v \in Seq(Value) /\ Len(v) = n /\ \A i \in 1 .. n : v[i] = q[i]
  <2>1. /\ v \in Seq(Value) /\ Len(v) = IF 1 <= n THEN n - 1 + 1 ELSE 0
        /\ \A i \in 1 .. n - 1 + 1 : v[i] = q[1 + i - 1]
    BY <1>1, <1>2, SubSeqProperties
  <2> HIDE DEF v
  <2> QED BY <1>1, <2>1
<1>5. \A i \in 1 .. n : p[i] = q[i]
  BY DEF n
<1> HIDE DEF u, v
<1>6. u = v
  <2>1. Len(u) = Len(v) /\ \A i \in 1 .. Len(u) : u[i] = v[i]
    BY <1>3, <1>4, <1>5
  <2> QED BY <1>3, <1>4, <2>1, SeqEqual
<1> QED BY <1>1, <1>6 DEF IsPrefix, n, u, v

\* What the terminal has heard is the beginning of what was to be heard.
LEMMA HeardIsPrefix ==
  ASSUME TypeOK, PortInv
  PROVE  IsPrefix(heard, Due)
<1>1. CASE HeardInv
  <2>1. heard \in Seq(Value) /\ Due \in Seq(Value) /\ Len(heard) \in Nat
    BY Typed, DueTyped
  <2>2. /\ Popped + tx_buff_cnt <= Len(Due) /\ tx_buff_cnt \in Nat /\ Popped \in Nat
        /\ Len(Due) \in Nat
    BY PoppedBound DEF PortInv
  <2>3. Len(heard) + Hearing = Popped /\ Hearing \in {0, 1}
    BY <1>1 DEF HeardInv, Hearing
  <2>4. Len(heard) <= Len(Due)
    BY <2>1, <2>2, <2>3
  <2>5. \A j \in 1 .. Len(heard) : heard[j] = Due[j]
    BY <1>1 DEF HeardInv
  <2> QED BY <2>1, <2>4, <2>5, PrefixByBytes
<1>2. CASE heard = << >>
  <2>1. << >> \in Seq(Value) /\ Len(<< >>) = 0 /\ Due \in Seq(Value) /\ Len(Due) \in Nat
    BY DueTyped, EmptySeq
  <2>2. Len(<< >>) <= Len(Due) /\ \A i \in 1 .. Len(<< >>) : << >>[i] = Due[i]
    BY <2>1
  <2>3. IsPrefix(<< >>, Due)
    <3> DEFINE none == << >>
    <3>1. none \in Seq(Value) /\ Len(none) <= Len(Due) /\ \A i \in 1 .. Len(none) : none[i] = Due[i]
      BY <2>1, <2>2
    <3> HIDE DEF none
    <3>2. IsPrefix(none, Due)
      BY <2>1, <3>1, PrefixByBytes
    <3> QED BY <3>2 DEF none
  <2> QED BY <1>2, <2>3
<1> QED BY <1>1, <1>2 DEF PortInv, InStep

\* With resets at any time, a terminal at the console's speed hears, after what the reset
\* left, what was written since: in order, without gap or repetition, and no garbled byte.
THEOREM HeardAfterResetCorrect ==
  ASSUME LISTEN_CLOCKS = CONSOLE_DELAY + 1, CONSOLE_DEPTH >= 3
  PROVE  Spec => []HeardAfterReset
<1>1. Init => PortInv
  BY PortInit
<1>2. TypeOK /\ PortInv /\ [Next]_vars => PortInv'
  BY PortStep
<1>3. TypeOK /\ PortInv => HeardAfterReset
  BY HeardIsPrefix DEF HeardAfterReset, Due
<1> QED BY <1>1, <1>2, <1>3, TypeCorrect, PTL DEF Spec

\* Without a reset nothing is left over.
CleanInv ==
  /\ ~rst
  /\ stale = << >>
  /\ ~(CYC /\ ~busy)

\* Every step keeps this.
LEMMA CleanStep ==
  ASSUME ResetInputs = {FALSE}
  PROVE  TypeOK /\ BusInv /\ CleanInv /\ [Next]_vars => CleanInv'
<1> SUFFICES ASSUME TypeOK, BusInv, CleanInv, [Next]_vars PROVE CleanInv'
  OBVIOUS
<1>1. CASE Posedge
  <2>1. ~rst'
    BY <1>1 DEF Posedge, Debounce, CleanInv
  <2>2. stale' = << >>
    BY <1>1 DEF Posedge, Record, RecordStep, ConsoleCYC, CleanInv
  <2>3. ~(CYC' /\ ~busy')
    BY <1>1, TakePosedge DEF CleanInv
  <2> QED BY <2>1, <2>2, <2>3 DEF CleanInv
<1>2. CASE Negedge
  BY <1>2 DEF Negedge, masterVars, resetVars, historyVars, CleanInv
<1>3. CASE UNCHANGED vars
  BY <1>3 DEF vars, masterVars, resetVars, historyVars, CleanInv
<1> QED BY <1>1, <1>2, <1>3 DEF Next

\* Without resets, a terminal at the console's speed hears what was written to the console,
\* in order and without gap or repetition, whatever the pauses.
THEOREM HeardCorrect ==
  ASSUME LISTEN_CLOCKS = CONSOLE_DELAY + 1, CONSOLE_DEPTH >= 3, ResetInputs = {FALSE}
  PROVE  Spec => []HeardInOrder
<1>1. Init => PortInv /\ CleanInv
  BY PortInit DEF Init, CleanInv
<1>2. TypeOK /\ PortInv /\ CleanInv /\ [Next]_vars => PortInv' /\ CleanInv'
  BY PortStep, CleanStep DEF PortInv
<1>3. TypeOK /\ PortInv /\ CleanInv => HeardInOrder
  <2> SUFFICES ASSUME TypeOK, PortInv, CleanInv PROVE HeardInOrder
    OBVIOUS
  <2>1. Due = sent
    <3>1. << >> \o sent = sent
      BY DueTyped, ConcatEmptySeq
    <3> QED BY <3>1 DEF Due, CleanInv
  <2> QED BY <2>1, HeardIsPrefix DEF HeardInOrder
<1> QED BY <1>1, <1>2, <1>3, TypeCorrect, PTL DEF Spec

-----------------------------------------------------------------------------
(* The receiver, whatever is on its pin.                                   *)

\* At the end of a frame the FIFO has room: the program reads in time.
Drained == rx_state = "STOP" /\ RxBitDone => ~full

\* A byte is stored a clock after its frame is over.
FrameInv ==
  /\ framed = IF wr THEN Append(got, data) ELSE got
  /\ wr => rx_state = "IDDLE" /\ ~full

\* How the receiver moves.
LEMMA RxMoves ==
  ASSUME Posedge, ~rst
  PROVE  \E rx \in PinLevel : /\ rx_state = "IDDLE" => RxIdle(rx)
                              /\ rx_state = "START" => RxStart
                              /\ rx_state = "BIT_S" => RxBits(rx)
                              /\ rx_state = "STOP" => RxStop
<1>1. PICK rx \in PinLevel : RxIdle(rx) \/ RxStart \/ RxBits(rx) \/ RxStop
  BY DEF Posedge, UartPosedge, Receive
<1> QED BY <1>1 DEF RxIdle, RxStart, RxBits, RxStop

\* Every step stores the byte of a frame once, a reset included.
LEMMA FrameStep == TypeOK /\ Drained /\ FrameInv /\ [Next]_vars => FrameInv'
<1> SUFFICES ASSUME TypeOK, Drained, FrameInv, [Next]_vars PROVE FrameInv'
  OBVIOUS
<1>1. /\ rx_state \in {"IDDLE", "START", "BIT_S", "STOP"} /\ wr \in BOOLEAN
      /\ buff_cnt \in 0 .. MEMORY_DEPTH - 1
  BY DEF TypeOK, UartTypeOK, FifoTypeOK, Slot
<1>2. CASE Posedge /\ rst
  <2>1. /\ rx_state' = "IDDLE" /\ wr' = wr /\ data' = data /\ buff_cnt' = 0
        /\ framed' = (IF wr THEN <<data>> ELSE << >>) /\ got' = << >>
    BY <1>2 DEF Posedge, UartPosedge, Receive, RxReset, FifoPosedge, FifoReset, Record,
      RecordReset
  <2>2. Append(<< >>, data) = <<data>>
    OBVIOUS
  <2>3. ~full'
    BY <2>1, DepthAssumption DEF full
  <2> QED BY <2>1, <2>2, <2>3 DEF FrameInv
<1>3. CASE Posedge /\ ~rst
  <2>1. /\ framed' = IF rx_state = "STOP" /\ RxBitDone /\ ~wr THEN Append(framed, data) ELSE framed
        /\ got' = IF Pushing(wr) THEN Append(got, data) ELSE got
        /\ FifoCount(wr, rd)
    BY <1>3 DEF Posedge, Record, RecordStep, UartPosedge, FifoPosedge
  <2>2. PICK rx \in PinLevel : /\ rx_state = "IDDLE" => RxIdle(rx)
                               /\ rx_state = "START" => RxStart
                               /\ rx_state = "BIT_S" => RxBits(rx)
                               /\ rx_state = "STOP" => RxStop
    BY <1>3, RxMoves
  <2>3. CASE wr
    <3>1. rx_state = "IDDLE" /\ Pushing(wr) /\ framed = Append(got, data)
      BY <2>3 DEF FrameInv, Pushing
    <3>2. wr' = FALSE /\ framed' = framed /\ got' = Append(got, data)
      BY <2>1, <2>2, <3>1 DEF RxIdle
    <3> QED BY <3>1, <3>2 DEF FrameInv
  <2>4. CASE ~wr
    <3>1. framed = got /\ got' = got
      BY <2>1, <2>4 DEF FrameInv, Pushing
    <3>2. CASE rx_state = "STOP" /\ RxBitDone
      <4>1. ~full /\ wr' = TRUE /\ rx_state' = "IDDLE" /\ data' = data
        BY <2>2, <3>2 DEF RxStop, Drained
      <4>2. framed' = Append(got, data)
        BY <2>1, <2>4, <3>1, <3>2
      <4>3. ~full'
        <5>1. buff_cnt' \in {buff_cnt, buff_cnt - 1}
          BY <2>1, <2>4 DEF FifoCount, Pushing
        <5> QED BY <1>1, <4>1, <5>1, DepthAssumption DEF full
      <4> QED BY <3>1, <4>1, <4>2, <4>3 DEF FrameInv
    <3>3. CASE ~(rx_state = "STOP" /\ RxBitDone)
      <4>1. wr' = FALSE
        BY <1>1, <2>2, <2>4, <3>3 DEF RxIdle, RxStart, RxBits, RxStop
      <4> QED BY <2>1, <3>1, <3>3, <4>1 DEF FrameInv
    <3> QED BY <3>2, <3>3
  <2> QED BY <2>3, <2>4
<1>4. CASE Negedge
  BY <1>4 DEF Negedge, UartNegedge, FifoNegedge, ptrVars, receiverVars, historyVars,
    FrameInv, full
<1>5. CASE UNCHANGED vars
  BY <1>5 DEF vars, uartVars, fifoVars, receiverVars, historyVars, FrameInv, full
<1> QED BY <1>2, <1>3, <1>4, <1>5 DEF Next

\* No frame is over after the power-on reset.
LEMMA FrameInit == Init => FrameInv
  BY DEF Init, UartInit, FrameInv

\* What is stored is the beginning of what was received.
LEMMA FrameIsPrefix == TypeOK /\ FrameInv => StoredOnce
<1> SUFFICES ASSUME TypeOK, FrameInv PROVE IsPrefix(got, framed)
  BY DEF StoredOnce
<1>1. got \in Seq(Value) /\ data \in Value /\ Len(got) \in Nat
  BY ValueAssumption, LenProperties DEF TypeOK, UartTypeOK
<1>2. /\ Append(got, data) \in Seq(Value) /\ Len(Append(got, data)) = Len(got) + 1
      /\ \A i \in 1 .. Len(got) : Append(got, data)[i] = got[i]
  BY <1>1, AppendProperties
<1>3. /\ framed \in Seq(Value) /\ Len(got) <= Len(framed)
      /\ \A i \in 1 .. Len(got) : got[i] = framed[i]
  BY <1>1, <1>2 DEF FrameInv
<1> QED BY <1>1, <1>3, PrefixByBytes

\* Over resets, and whatever is on the pin, the receiver stores the byte of every frame once
\* and nothing else: as long as the program reads so that the FIFO has room at the end of a
\* frame.
THEOREM StoredCorrect == Spec /\ []Drained => []StoredOnce
<1> QED BY FrameInit, FrameStep, FrameIsPrefix, TypeCorrect, PTL DEF Spec

\* The FIFO holds no more than was stored, and no more frames begin than MaxTyped.
FewInv ==
  /\ FrameInv
  /\ buff_cnt <= Len(got)
  /\ rx_state # "IDDLE" => Len(framed) < MaxTyped

\* With so few frames the FIFO has room.
LEMMA FewDrained ==
  ASSUME MaxTyped < MEMORY_DEPTH
  PROVE  TypeOK /\ FewInv => Drained
<1> SUFFICES ASSUME TypeOK, FewInv, rx_state = "STOP" PROVE ~full
  BY DEF Drained
<1>1. ~wr /\ framed = got
  BY DEF FewInv, FrameInv
<1>2. Len(got) \in Nat /\ buff_cnt \in Nat /\ MaxTyped \in Nat /\ MEMORY_DEPTH \in Nat
  BY LenProperties, InputsAssumption, DepthAssumption
  DEF TypeOK, UartTypeOK, FifoTypeOK, Slot
<1>3. buff_cnt < MEMORY_DEPTH - 1
  BY <1>1, <1>2 DEF FewInv
<1> QED BY <1>2, <1>3 DEF full

\* Every step keeps this, a reset included.
LEMMA FewStep ==
  ASSUME MaxTyped < MEMORY_DEPTH
  PROVE  TypeOK /\ FewInv /\ [Next]_vars => FewInv'
<1> SUFFICES ASSUME TypeOK, FewInv, [Next]_vars PROVE FewInv'
  OBVIOUS
<1>1. FrameInv'
  BY FewDrained, FrameStep DEF FewInv
<1>2. /\ rx_state \in {"IDDLE", "START", "BIT_S", "STOP"}
      /\ buff_cnt \in Nat /\ Len(got) \in Nat /\ got \in Seq(Value) /\ data \in Value
      /\ Len(framed) \in Nat
  BY LenProperties, ValueAssumption, DepthAssumption
  DEF TypeOK, UartTypeOK, FifoTypeOK, Slot
<1>3. CASE Posedge /\ rst
  <2>1. rx_state' = "IDDLE" /\ buff_cnt' = 0 /\ got' = << >>
    BY <1>3 DEF Posedge, UartPosedge, Receive, RxReset, FifoPosedge, FifoReset, Record,
      RecordReset
  <2>2. Len(got') = 0
    BY <2>1, EmptySeq
  <2> QED BY <1>1, <2>1, <2>2 DEF FewInv
<1>4. CASE Posedge /\ ~rst
  <2>1. /\ framed' = IF rx_state = "STOP" /\ RxBitDone /\ ~wr THEN Append(framed, data) ELSE framed
        /\ got' = IF Pushing(wr) THEN Append(got, data) ELSE got
        /\ FifoCount(wr, rd)
    BY <1>4 DEF Posedge, Record, RecordStep, UartPosedge, FifoPosedge
  <2>2. PICK rx \in PinLevel : /\ rx_state = "IDDLE" => RxIdle(rx)
                               /\ rx_state = "START" => RxStart
                               /\ rx_state = "BIT_S" => RxBits(rx)
                               /\ rx_state = "STOP" => RxStop
    BY <1>4, RxMoves
  <2>3. Len(Append(got, data)) = Len(got) + 1
    BY <1>2, AppendProperties
  <2>4. buff_cnt' <= Len(got')
    <3>1. CASE Pushing(wr)
      <4>1. Len(got') = Len(got) + 1
        BY <2>1, <2>3, <3>1
      <4>2. buff_cnt' \in {buff_cnt, buff_cnt + 1}
        BY <2>1, <3>1 DEF FifoCount
      <4> QED BY <1>2, <4>1, <4>2 DEF FewInv
    <3>2. CASE ~Pushing(wr)
      <4>1. got' = got
        BY <2>1, <3>2
      <4>2. buff_cnt' = buff_cnt \/ (buff_cnt' = buff_cnt - 1)
        BY <2>1, <3>2 DEF FifoCount
      <4> QED BY <1>2, <4>1, <4>2 DEF FewInv
    <3> QED BY <3>1, <3>2
  <2>5. rx_state' # "IDDLE" => Len(framed') < MaxTyped
    <3> SUFFICES ASSUME rx_state' # "IDDLE" PROVE Len(framed') < MaxTyped
      OBVIOUS
    <3>1. ~(rx_state = "STOP" /\ RxBitDone)
      BY <2>2, FewDrained DEF RxStop, Drained
    <3>2. framed' = framed
      BY <2>1, <3>1
    <3>3. rx_state = "IDDLE" => Len(framed) < MaxTyped
      BY <2>2 DEF RxIdle, PinLevel
    <3> QED BY <3>2, <3>3 DEF FewInv
  <2> QED BY <1>1, <2>4, <2>5 DEF FewInv
<1>5. CASE Negedge
  BY <1>1, <1>5 DEF Negedge, UartNegedge, FifoNegedge, ptrVars, receiverVars, historyVars,
    FewInv
<1>6. CASE UNCHANGED vars
  BY <1>1, <1>6 DEF vars, uartVars, fifoVars, receiverVars, historyVars, FewInv
<1> QED BY <1>3, <1>4, <1>5, <1>6 DEF Next

\* With fewer frames since the last reset than the FIFO has slots, the receiver stores the
\* byte of each once, whether the program reads or not.
THEOREM StoredAllCorrect ==
  ASSUME MaxTyped < MEMORY_DEPTH
  PROVE  Spec => []StoredOnce
<1>1. Init => FewInv
  BY FrameInit, EmptySeq DEF Init, UartInit, FifoInit, FewInv
<1>2. TypeOK /\ FewInv /\ [Next]_vars => FewInv'
  BY FewStep
<1>3. TypeOK /\ FewInv => StoredOnce
  BY FrameIsPrefix DEF FewInv
<1> QED BY <1>1, <1>2, <1>3, TypeCorrect, PTL DEF Spec
=============================================================================
