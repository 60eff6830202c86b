----------------------------- MODULE FifoClient -----------------------------
(***************************************************************************)
(* The FIFO with a client that does anything a client clocked by the       *)
(* rising edge can do: its requests, its data and the reset change there.  *)
(***************************************************************************)
EXTENDS Fifo, Sequences

VARIABLES
  clk,
  rst, wr, rd, din     \* registers of the client

inputs == <<rst, wr, rd, din>>
vars   == <<fifoVars, clk, inputs>>

TypeOK ==
  /\ FifoTypeOK
  /\ clk \in BOOLEAN
  /\ rst \in BOOLEAN
  /\ wr \in BOOLEAN
  /\ rd \in BOOLEAN
  /\ din \in Value

\* The registers of the client are not reset with the FIFO.
Init ==
  /\ FifoInit
  /\ clk = TRUE
  /\ rst \in BOOLEAN
  /\ wr \in BOOLEAN
  /\ rd \in BOOLEAN
  /\ din \in Value

Posedge ==
  /\ ~clk
  /\ clk' = TRUE
  /\ FifoPosedge(rst, wr, rd)
  /\ rst' \in BOOLEAN
  /\ wr' \in BOOLEAN
  /\ rd' \in BOOLEAN
  /\ din' \in Value

Negedge ==
  /\ clk
  /\ clk' = FALSE
  /\ FifoNegedge(wr, rd, din)
  /\ UNCHANGED inputs

Next == Posedge \/ Negedge

Spec == Init /\ [][Next]_vars

-----------------------------------------------------------------------------
(* The refinement.  The requests of a cycle take effect for the client at  *)
(* its falling edge, where the output changes, although they are counted   *)
(* only at the rising edge that follows: while clk is low they are pending *)
(* and already part of the queue.  The rising edge is a stutter, or Clear. *)

pops   == IF ~clk /\ Popping(rd) THEN 1 ELSE 0
pushes == IF ~clk /\ Pushing(wr) THEN 1 ELSE 0

\* The slot n places after the oldest value.
SlotAt(n) == IF read_ptr + n < MEMORY_DEPTH THEN read_ptr + n
             ELSE read_ptr + n - MEMORY_DEPTH

Queue == [i \in 1 .. buff_cnt - pops + pushes |-> buffer[SlotAt(i - 1 + pops)]]

Abstract == INSTANCE BoundedQueue WITH
  q <- Queue, out <- dout, Capacity <- MEMORY_DEPTH - 1

\* The FIFO is a bounded queue, under pushes and pops at once, at empty, at full,
\* across the wrap of the pointers and over resets.
ImplementsQueue == Abstract!Spec

\* The pointers, kept apart from the counter, always agree with it.
PointersAgree == write_ptr = SlotAt(buff_cnt)
=============================================================================
