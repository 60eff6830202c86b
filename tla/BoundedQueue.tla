---------------------------- MODULE BoundedQueue ----------------------------
(***************************************************************************)
(* What a FIFO promises to its client: a queue of at most Capacity values, *)
(* and the value taken last.                                               *)
(***************************************************************************)
EXTENDS Naturals, Sequences

CONSTANTS Value, Capacity

VARIABLES
  q,     \* the values stored, oldest first
  out    \* the value taken last

Init == q = << >> /\ out \in Value

Put(v) == Len(q) < Capacity /\ q' = Append(q, v) /\ UNCHANGED out

Take == q # << >> /\ out' = Head(q) /\ q' = Tail(q)

\* Both at once, neither at a limit: the value taken is the oldest one.
Exchange(v) ==
  /\ q # << >>
  /\ Len(q) < Capacity
  /\ out' = Head(q)
  /\ q' = Append(Tail(q), v)

Clear == q' = << >> /\ UNCHANGED out

Next == Take \/ Clear \/ \E v \in Value : Put(v) \/ Exchange(v)

Spec == Init /\ [][Next]_<<q, out>>
=============================================================================
