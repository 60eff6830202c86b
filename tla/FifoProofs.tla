----------------------------- MODULE FifoProofs -----------------------------
(***************************************************************************)
(* FifoClient implements BoundedQueue, for every depth and every set of    *)
(* values.                                                                 *)
(***************************************************************************)
EXTENDS FifoClient, SequenceTheorems, TLAPS

USE DEF Slot

FifoInv == TypeOK /\ PointersAgree

-----------------------------------------------------------------------------
(* Slots.  SlotAt(n) is read_ptr + n modulo MEMORY_DEPTH.                  *)

\* The n-th slot is a slot, and the next slot is the one after it.
LEMMA SlotAtFacts ==
  ASSUME TypeOK, NEW n \in Slot
  PROVE  /\ SlotAt(n) \in Slot
         /\ n # MEMORY_DEPTH - 1 => SlotAt(n + 1) = Inc(SlotAt(n))
  BY DepthAssumption DEF TypeOK, FifoTypeOK, SlotAt, Inc

\* Different distances lead to different slots.
LEMMA SlotAtInjective ==
  ASSUME TypeOK, NEW m \in Slot, NEW n \in Slot, m # n
  PROVE  SlotAt(m) # SlotAt(n)
  BY DepthAssumption DEF TypeOK, FifoTypeOK, SlotAt

-----------------------------------------------------------------------------
(* The invariant.                                                          *)

\* The invariant holds after a reset.
LEMMA InvInit == Init => FifoInv
  BY DepthAssumption DEF Init, FifoInit, FifoInv, TypeOK, FifoTypeOK, PointersAgree, SlotAt

\* Every edge keeps it.
LEMMA InvStep == FifoInv /\ [Next]_vars => FifoInv'
<1> SUFFICES ASSUME FifoInv, [Next]_vars PROVE FifoInv'
  OBVIOUS
<1> USE DepthAssumption DEF FifoInv, TypeOK, FifoTypeOK, PointersAgree, SlotAt
<1>1. CASE Posedge
  <2>1. CASE rst
    BY <1>1, <2>1 DEF Posedge, FifoPosedge, FifoReset
  <2>2. CASE ~rst
    <3>1. FifoCount(wr, rd)
      BY <1>1, <2>2 DEF Posedge, FifoPosedge
    <3>2. CASE Pushing(wr) /\ Popping(rd)
      BY <1>1, <3>1, <3>2 DEF Posedge, FifoCount, Pushing, Popping, full, empty, Inc
    <3>3. CASE Pushing(wr) /\ ~Popping(rd)
      BY <1>1, <3>1, <3>3 DEF Posedge, FifoCount, Pushing, Popping, full, empty, Inc
    <3>4. CASE ~Pushing(wr) /\ Popping(rd)
      BY <1>1, <3>1, <3>4 DEF Posedge, FifoCount, Pushing, Popping, full, empty, Inc
    <3>5. CASE ~Pushing(wr) /\ ~Popping(rd)
      BY <1>1, <3>1, <3>5 DEF Posedge, FifoCount, Pushing, Popping, full, empty, Inc
    <3> QED BY <3>2, <3>3, <3>4, <3>5
  <2> QED BY <2>1, <2>2
<1>2. CASE Negedge
  BY <1>2 DEF Negedge, FifoNegedge, inputs, ptrVars
<1>3. CASE UNCHANGED vars
  BY <1>3 DEF vars, fifoVars, inputs
<1> QED BY <1>1, <1>2, <1>3 DEF Next

\* The state is well typed: in particular the counter never overflows.
THEOREM FifoTypeCorrect == Spec => []TypeOK
<1>1. FifoInv => TypeOK
  BY DEF FifoInv
<1> QED BY <1>1, InvInit, InvStep, PTL DEF Spec

\* The pointers, which are counted separately, agree with the counter at every edge.
THEOREM PointersCorrect == Spec => []PointersAgree
<1>1. FifoInv => PointersAgree
  BY DEF FifoInv
<1> QED BY <1>1, InvInit, InvStep, PTL DEF Spec

-----------------------------------------------------------------------------
(* The refinement.                                                         *)

\* The FIFO starts as an empty queue.
LEMMA RefinementInit == Init => Abstract!Init
<1> SUFFICES ASSUME Init PROVE Abstract!Init
  OBVIOUS
<1>1. buff_cnt - pops + pushes = 0
  BY DEF Init, FifoInit, pops, pushes
<1>2. Queue = << >>
  BY <1>1 DEF Queue
<1> QED BY <1>2 DEF Init, FifoInit, Abstract!Init

\* At a falling edge the requests take effect on the queue.
LEMMA NegedgeRefines == FifoInv /\ Negedge => [Abstract!Next]_<<Queue, dout>>
<1> SUFFICES ASSUME FifoInv, Negedge PROVE [Abstract!Next]_<<Queue, dout>>
  OBVIOUS
<1> USE DepthAssumption DEF FifoInv, TypeOK, FifoTypeOK
<1>1. /\ clk /\ clk' = FALSE
      /\ UNCHANGED <<write_ptr, read_ptr, buff_cnt, rst, wr, rd, din>>
      /\ buffer' = IF Pushing(wr) THEN [buffer EXCEPT ![write_ptr] = din] ELSE buffer
      /\ dout' = IF Popping(rd) THEN buffer[read_ptr] ELSE dout
  BY DEF Negedge, FifoNegedge, inputs, ptrVars
<1>2. Queue = [i \in 1 .. buff_cnt |-> buffer[SlotAt(i - 1)]]
  BY <1>1 DEF Queue, pops, pushes
<1>3. /\ pops' = IF Popping(rd) THEN 1 ELSE 0
      /\ pushes' = IF Pushing(wr) THEN 1 ELSE 0
      /\ \A n : SlotAt(n)' = SlotAt(n)
  BY <1>1 DEF pops, pushes, Popping, Pushing, full, empty, SlotAt
<1>4. Queue' = [i \in 1 .. buff_cnt - pops' + pushes' |-> buffer'[SlotAt(i - 1 + pops')]]
  BY <1>1, <1>3 DEF Queue
<1>5. \A n \in Slot : SlotAt(n) \in Slot
  BY SlotAtFacts
<1>6. Queue \in Seq(Value) /\ Len(Queue) = buff_cnt
  <2>1. \A i \in 1 .. buff_cnt : i - 1 \in Slot
    OBVIOUS
  <2>2. \A i \in 1 .. buff_cnt : buffer[SlotAt(i - 1)] \in Value
    BY <2>1, <1>5
  <2> QED BY <1>2, <2>2
<1>7. \A i \in 1 .. buff_cnt - pops' :
        buffer'[SlotAt(i - 1 + pops')] = buffer[SlotAt(i - 1 + pops')]
  <2> SUFFICES ASSUME NEW i \in 1 .. buff_cnt - pops'
               PROVE  buffer'[SlotAt(i - 1 + pops')] = buffer[SlotAt(i - 1 + pops')]
    OBVIOUS
  <2>1. i - 1 + pops' \in Slot /\ i - 1 + pops' # buff_cnt /\ buff_cnt \in Slot
    BY <1>3
  <2>2. SlotAt(i - 1 + pops') # write_ptr
    BY <2>1, SlotAtInjective DEF PointersAgree
  <2> QED BY <1>1, <2>1, <2>2, <1>5
<1>8. /\ Queue' \in Seq(Value)
      /\ Len(Queue') = buff_cnt - pops' + pushes'
      /\ \A i \in 1 .. buff_cnt - pops' : Queue'[i] = buffer[SlotAt(i - 1 + pops')]
      /\ Pushing(wr) => Queue'[buff_cnt - pops' + 1] = din
  <2>1. Pushing(wr) => buffer'[SlotAt(buff_cnt)] = din
    BY <1>1 DEF PointersAgree
  <2>2. \A i \in 1 .. buff_cnt - pops' + pushes' :
          \/ i \in 1 .. buff_cnt - pops'
          \/ Pushing(wr) /\ i = buff_cnt - pops' + 1 /\ i - 1 + pops' = buff_cnt
    BY <1>3
  <2>3. buff_cnt - pops' + pushes' \in Nat
    BY <1>3 DEF Popping, empty
  <2>4. \A i \in 1 .. buff_cnt - pops' : i - 1 + pops' \in Slot
    BY <1>3
  <2>5. \A i \in 1 .. buff_cnt - pops' + pushes' : buffer'[SlotAt(i - 1 + pops')] \in Value
    BY <2>1, <2>2, <2>4, <1>5, <1>7
  <2>6. Queue' \in Seq(Value) /\ Len(Queue') = buff_cnt - pops' + pushes'
    BY <2>3, <2>5, <1>4
  <2>7. \A i \in 1 .. buff_cnt - pops' : Queue'[i] = buffer[SlotAt(i - 1 + pops')]
    <3> SUFFICES ASSUME NEW i \in 1 .. buff_cnt - pops'
                 PROVE  Queue'[i] = buffer[SlotAt(i - 1 + pops')]
      OBVIOUS
    <3>1. i \in 1 .. buff_cnt - pops' + pushes'
      BY <1>3
    <3> QED BY <3>1, <1>4, <1>7
  <2>8. Pushing(wr) => Queue'[buff_cnt - pops' + 1] = din
    <3> SUFFICES ASSUME Pushing(wr) PROVE Queue'[buff_cnt - pops' + 1] = din
      OBVIOUS
    <3>1. /\ buff_cnt - pops' + 1 \in 1 .. buff_cnt - pops' + pushes'
          /\ (buff_cnt - pops' + 1) - 1 + pops' = buff_cnt
      <4>1. buff_cnt \in Nat
        OBVIOUS
      <4>2. pops' \in {0, 1} /\ pushes' = 1
        BY <1>3
      <4> HIDE DEF FifoInv
      <4>3. CASE pops' = 0
        BY <4>1, <4>2, <4>3
      <4>4. CASE pops' = 1
        <5>1. buff_cnt > 0
          BY <4>1, <4>4, <1>3 DEF Popping, empty
        <5> QED BY <4>1, <4>2, <4>4, <5>1
      <4> QED BY <4>2, <4>3, <4>4
    <3> QED BY <2>1, <3>1, <1>4
  <2> QED BY <2>6, <2>7, <2>8
<1>9. Popping(rd) => /\ Queue # << >>
                     /\ dout' = Head(Queue)
                     /\ Tail(Queue) \in Seq(Value)
                     /\ Len(Tail(Queue)) = buff_cnt - 1
                     /\ \A i \in 1 .. buff_cnt - 1 : Tail(Queue)[i] = buffer[SlotAt(i)]
  <2> SUFFICES ASSUME Popping(rd)
               PROVE  /\ Queue # << >>
                      /\ dout' = Head(Queue)
                      /\ Tail(Queue) \in Seq(Value)
                      /\ Len(Tail(Queue)) = buff_cnt - 1
                      /\ \A i \in 1 .. buff_cnt - 1 : Tail(Queue)[i] = buffer[SlotAt(i)]
    OBVIOUS
  <2>1. buff_cnt \in Nat \ {0} /\ Queue # << >>
    BY <1>6 DEF Popping, empty
  <2>2. Head(Queue) = buffer[read_ptr]
    BY <2>1, <1>2, <1>6 DEF SlotAt
  <2>3. /\ Tail(Queue) \in Seq(Value)
        /\ Len(Tail(Queue)) = buff_cnt - 1
        /\ \A i \in 1 .. buff_cnt - 1 : Tail(Queue)[i] = Queue[i + 1]
    BY <2>1, <1>6, HeadTailProperties
  <2>4. \A i \in 1 .. buff_cnt - 1 : Queue[i + 1] = buffer[SlotAt(i)]
    BY <1>2
  <2> QED BY <2>1, <2>2, <2>3, <2>4, <1>1
<1>10. Pushing(wr) => Len(Queue) < MEMORY_DEPTH - 1
  BY <1>6 DEF Pushing, full
<1>11. CASE Popping(rd) /\ Pushing(wr)
  <2>1. Queue' = Append(Tail(Queue), din)
    <3>1. /\ Append(Tail(Queue), din) \in Seq(Value)
          /\ Len(Append(Tail(Queue), din)) = buff_cnt
          /\ \A i \in 1 .. buff_cnt - 1 : Append(Tail(Queue), din)[i] = buffer[SlotAt(i)]
          /\ Append(Tail(Queue), din)[buff_cnt] = din
      BY <1>9, <1>11, AppendProperties
    <3>2. /\ Len(Queue') = buff_cnt
          /\ \A i \in 1 .. buff_cnt - 1 : Queue'[i] = buffer[SlotAt(i)]
          /\ Queue'[buff_cnt] = din
      BY <1>3, <1>8, <1>11
    <3>3. \A i \in 1 .. buff_cnt : Queue'[i] = Append(Tail(Queue), din)[i]
      BY <3>1, <3>2
    <3> QED BY <1>8, <3>1, <3>2, <3>3, SeqEqual
  <2> QED BY <2>1, <1>9, <1>10, <1>11 DEF Abstract!Next, Abstract!Exchange
<1>12. CASE Popping(rd) /\ ~Pushing(wr)
  <2>1. /\ Len(Queue') = buff_cnt - 1
        /\ \A i \in 1 .. buff_cnt - 1 : Queue'[i] = buffer[SlotAt(i)]
    BY <1>3, <1>8, <1>12
  <2>2. Queue' = Tail(Queue)
    BY <2>1, <1>8, <1>9, <1>12, SeqEqual
  <2> QED BY <2>2, <1>9, <1>12 DEF Abstract!Next, Abstract!Take
<1>13. CASE ~Popping(rd) /\ Pushing(wr)
  <2>1. Queue' = Append(Queue, din)
    <3>1. /\ Append(Queue, din) \in Seq(Value)
          /\ Len(Append(Queue, din)) = buff_cnt + 1
          /\ \A i \in 1 .. buff_cnt : Append(Queue, din)[i] = buffer[SlotAt(i - 1)]
          /\ Append(Queue, din)[buff_cnt + 1] = din
      BY <1>2, <1>6, AppendProperties
    <3>2. /\ Len(Queue') = buff_cnt + 1
          /\ \A i \in 1 .. buff_cnt : Queue'[i] = buffer[SlotAt(i - 1)]
          /\ Queue'[buff_cnt + 1] = din
      BY <1>3, <1>8, <1>13
    <3>3. \A i \in 1 .. buff_cnt + 1 : Queue'[i] = Append(Queue, din)[i]
      BY <3>1, <3>2
    <3> QED BY <1>8, <3>1, <3>2, <3>3, SeqEqual
  <2>2. dout' = dout
    BY <1>1, <1>13
  <2> QED BY <2>1, <2>2, <1>10, <1>13 DEF Abstract!Next, Abstract!Put
<1>14. CASE ~Popping(rd) /\ ~Pushing(wr)
  BY <1>14, <1>1, <1>2, <1>3, <1>4
<1> QED BY <1>11, <1>12, <1>13, <1>14

\* At a rising edge the requests of the cycle are counted, which the queue has already
\* seen; a reset clears it.
LEMMA PosedgeRefines == FifoInv /\ Posedge => [Abstract!Next]_<<Queue, dout>>
<1> SUFFICES ASSUME FifoInv, Posedge PROVE [Abstract!Next]_<<Queue, dout>>
  OBVIOUS
<1> USE DepthAssumption DEF FifoInv, TypeOK, FifoTypeOK
<1>1. ~clk /\ clk' /\ FifoPosedge(rst, wr, rd) /\ pops' = 0 /\ pushes' = 0
  BY DEF Posedge, pops, pushes
<1>2. CASE rst
  <2>1. buff_cnt' = 0 /\ dout' = dout
    BY <1>1, <1>2 DEF FifoPosedge, FifoReset
  <2>2. Queue' = << >>
    BY <2>1, <1>1 DEF Queue
  <2> QED BY <2>1, <2>2 DEF Abstract!Next, Abstract!Clear
<1>3. CASE ~rst
  <2>1. FifoCount(wr, rd)
    BY <1>1, <1>3 DEF FifoPosedge
  <2>2. buff_cnt' = buff_cnt - pops + pushes
    <3>1. CASE Pushing(wr) /\ Popping(rd)
      BY <1>1, <2>1, <3>1 DEF FifoCount, pops, pushes
    <3>2. CASE Pushing(wr) /\ ~Popping(rd)
      BY <1>1, <2>1, <3>2 DEF FifoCount, pops, pushes, Pushing, Popping
    <3>3. CASE ~Pushing(wr) /\ Popping(rd)
      BY <1>1, <2>1, <3>3 DEF FifoCount, pops, pushes, Pushing, Popping
    <3>4. CASE ~Pushing(wr) /\ ~Popping(rd)
      BY <1>1, <2>1, <3>4 DEF FifoCount, pops, pushes, Pushing, Popping
    <3> QED BY <3>1, <3>2, <3>3, <3>4
  <2>3. \A i \in 1 .. buff_cnt' : SlotAt(i - 1)' = SlotAt(i - 1 + pops)
    <3>1. pops = (IF Popping(rd) THEN 1 ELSE 0)
          /\ read_ptr' = (IF Popping(rd) THEN Inc(read_ptr) ELSE read_ptr)
      BY <1>1, <2>1 DEF FifoCount, pops
    <3> QED BY <3>1, <2>2, InvStep DEF SlotAt, Inc, Next
  <2>4. buffer' = buffer /\ dout' = dout
    BY <2>1 DEF FifoCount
  <2>5. Queue' = Queue
    BY <1>1, <2>2, <2>3, <2>4 DEF Queue
  <2> QED BY <2>4, <2>5
<1> QED BY <1>2, <1>3

\* The FIFO is a bounded queue for every depth: pushes and pops at once, at both limits,
\* across the wrap of the pointers, over resets at any time.
THEOREM QueueRefined == Spec => ImplementsQueue
<1>1. FifoInv /\ [Next]_vars => [Abstract!Next]_<<Queue, dout>>
  <2>1. UNCHANGED vars => UNCHANGED <<Queue, dout>>
    BY DEF vars, fifoVars, inputs, Queue, SlotAt, pops, pushes, Popping, Pushing, full, empty
  <2> QED BY <2>1, NegedgeRefines, PosedgeRefines DEF Next
<1> QED BY <1>1, InvInit, InvStep, RefinementInit, PTL DEF Spec, ImplementsQueue, Abstract!Spec
=============================================================================
