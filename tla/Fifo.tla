-------------------------------- MODULE Fifo --------------------------------
(***************************************************************************)
(* The FIFO of the serial devices (fifo.sv; ring_buffer.sv is the same     *)
(* text).  Count and pointers are clocked by the rising edge, the array    *)
(* and the output register by the falling edge: a value is stored at the   *)
(* falling edge at which wr is up and counted at the next rising edge.     *)
(* One of the MEMORY_DEPTH slots is never used: the counter has no bit for *)
(* it.                                                                     *)
(***************************************************************************)
EXTENDS Naturals

CONSTANTS
  Value,          \* of DATA_WIDTH bits
  MEMORY_DEPTH

\* The pointers wrap because $clog2(MEMORY_DEPTH) bits are their width, which is
\* modulo MEMORY_DEPTH for the powers of two that the devices use.
ASSUME DepthAssumption == MEMORY_DEPTH \in Nat /\ MEMORY_DEPTH >= 2

VARIABLES
  write_ptr, read_ptr,
  buff_cnt,       \* also the output count
  buffer,
  dout

ptrVars  == <<write_ptr, read_ptr, buff_cnt>>
fifoVars == <<write_ptr, read_ptr, buff_cnt, buffer, dout>>

Slot == 0 .. MEMORY_DEPTH - 1

FifoTypeOK ==
  /\ write_ptr \in Slot
  /\ read_ptr \in Slot
  /\ buff_cnt \in Slot
  /\ buffer \in [Slot -> Value]
  /\ dout \in Value

\* After a reset: the array and the output are not cleared.
FifoInit ==
  /\ write_ptr = 0
  /\ read_ptr = 0
  /\ buff_cnt = 0
  /\ buffer \in [Slot -> Value]
  /\ dout \in Value

empty == buff_cnt = 0

\* Mutant: full is noticed one value too late.
fullLate == buff_cnt = MEMORY_DEPTH

full == buff_cnt = MEMORY_DEPTH - 1

Inc(p) == IF p = MEMORY_DEPTH - 1 THEN 0 ELSE p + 1

\* What the requests at the inputs do, wherever they are looked at.
Pushing(wr) == wr /\ ~full
Popping(rd) == rd /\ ~empty

\* Mutant: the read pointer is not reset.
FifoResetReadKept ==
  /\ write_ptr' = 0
  /\ buff_cnt' = 0
  /\ UNCHANGED <<read_ptr, buffer, dout>>

FifoReset ==
  /\ write_ptr' = 0
  /\ read_ptr' = 0
  /\ buff_cnt' = 0
  /\ UNCHANGED <<buffer, dout>>

\* Mutant: a simultaneous push and pop is counted as a push.
FifoCountPushFirst(wr, rd) ==
  /\ write_ptr' = IF Pushing(wr) THEN Inc(write_ptr) ELSE write_ptr
  /\ read_ptr' = IF Popping(rd) THEN Inc(read_ptr) ELSE read_ptr
  /\ buff_cnt' = IF Pushing(wr) THEN buff_cnt + 1
                 ELSE IF Popping(rd) THEN buff_cnt - 1 ELSE buff_cnt
  /\ UNCHANGED <<buffer, dout>>

FifoCount(wr, rd) ==
  /\ write_ptr' = IF Pushing(wr) THEN Inc(write_ptr) ELSE write_ptr
  /\ read_ptr' = IF Popping(rd) THEN Inc(read_ptr) ELSE read_ptr
  /\ buff_cnt' = IF Pushing(wr) = Popping(rd) THEN buff_cnt
                 ELSE IF Pushing(wr) THEN buff_cnt + 1 ELSE buff_cnt - 1
  /\ UNCHANGED <<buffer, dout>>

FifoPosedge(rst, wr, rd) ==
  \/ rst /\ FifoReset
  \/ ~rst /\ FifoCount(wr, rd)

\* The falling edge has no reset.
FifoNegedge(wr, rd, din) ==
  /\ buffer' = IF Pushing(wr) THEN [buffer EXCEPT ![write_ptr] = din] ELSE buffer
  /\ dout' = IF Popping(rd) THEN buffer[read_ptr] ELSE dout
  /\ UNCHANGED ptrVars
=============================================================================
