------------------------------- MODULE MCCore -------------------------------
(***************************************************************************)
(* Small instances of Core: the programs of each run.                      *)
(***************************************************************************)
EXTENDS Core

\* Two words of RAM, every byte different, half of them negative.
MCInitialRam == [w \in WordIndex |-> [i \in 0 .. 3 |-> 4 * w + i + 1 + 128 * (i % 2)]]
MCByte == {0, 255} \cup {4 * w + i + 1 + 128 * (i % 2) : w \in WordIndex, i \in 0 .. 3} \cup 100 .. 103
MCData == [i \in 0 .. 3 |-> 100 + i]

MCZero == ZeroInstr
Simple(op) == [ZeroInstr EXCEPT !.op = op]
JumpTo(op, a) == [ZeroInstr EXCEPT !.op = op, !.addr = a]
LoadFrom(f, a) == [ZeroInstr EXCEPT !.op = "LOAD", !.funct3 = f, !.addr = a]
StoreTo(f, a) == [ZeroInstr EXCEPT !.op = "STORE", !.funct3 = f, !.addr = a, !.data = MCData]
WriteTo(c, v) == [ZeroInstr EXCEPT !.op = "CSRRW", !.csr = c, !.rs1 = 1, !.value = v]

\* The alignments memory_access.sv supports: all but a word at byte 1 or 2.
Supported(f, a) == f = "W" => a % 4 \notin {1, 2}

Loads  == {LoadFrom(f, a) : f \in Funct3, a \in Addr}
Stores == {StoreTo(f, a) : f \in {"B", "H", "W"}, a \in Addr}
Accesses == {i \in Loads \cup Stores : Supported(i.funct3, i.addr)}

\* Every pair of accesses at supported alignments to the last two words and, past
\* them, the first, executed in a loop (PC wraps).
LastAccesses == {i \in Accesses : WordOf(i.addr) >= NWords - 2}
AccessPrograms ==
  {[w \in WordIndex |-> IF w % 2 = 0 THEN first ELSE second] : first, second \in LastAccesses}

-----------------------------------------------------------------------------
(* Programs with traps.  The first instruction, where an unwritten mtvec   *)
(* also points, enables interrupts and keeps MRET in machine mode.         *)

EnableInterrupts == WriteTo("mstatus", [ZeroCsr EXCEPT !.b3 = TRUE, !.mpp = M_MODE])

TrapInstrs ==
  {EnableInterrupts,
   WriteTo("mie", [ZeroCsr EXCEPT !.b3 = TRUE, !.b7 = TRUE]),
   WriteTo("mip", [ZeroCsr EXCEPT !.b3 = TRUE]),
   WriteTo("mip", ZeroCsr),
   WriteTo("mepc", [ZeroCsr EXCEPT !.adr = 8]),
   WriteTo("mtvec", [ZeroCsr EXCEPT !.adr = 8]),
   Simple("MRET"), JumpTo("JAL", 8), JumpTo("BRANCH", 4), Simple("ILLEGAL")}

\* A vectored table at 8: causes 3 and 7 go to 8 + 12 and 8 + 28, modulo 16.
VectoredInstrs ==
  (TrapInstrs \ {Simple("ILLEGAL")}) \cup {WriteTo("mtvec", [ZeroCsr EXCEPT !.adr = 9]),
                                           Simple("OP")}

StartsEnabled(p) == p[0] = EnableInterrupts

TrapPrograms ==
  {p \in [WordIndex -> TrapInstrs] \cup [WordIndex -> VectoredInstrs] : StartsEnabled(p)}

\* Loads that wait while traps do not happen, traps where nothing is loaded.
IsaPrograms == AccessPrograms \cup TrapPrograms

\* Interrupts and resets in the middle of loads, stores and everything else.
MixedInstrs ==
  {LoadFrom("H", 3), LoadFrom("BU", 4), StoreTo("H", 7), StoreTo("W", 0),
   WriteTo("mie", [ZeroCsr EXCEPT !.b7 = TRUE]), Simple("MRET"), Simple("ENV"),
   Simple("PRIV"), [ZeroInstr EXCEPT !.op = "CSRRS", !.csr = "readonly"],
   JumpTo("JARL", 4)}

MixedPrograms == {p \in [WordIndex -> MixedInstrs \cup {EnableInterrupts}] : StartsEnabled(p)}

-----------------------------------------------------------------------------
(* The programs of the interrupted load.                                   *)

\* Timer interrupts on, handler at 20; the instruction at 12 is interrupted, and
\* the handler begins with the one at 20.
InterruptProgram(interrupted, handler) ==
  [w \in WordIndex |->
     CASE w = 0 -> WriteTo("mie", [ZeroCsr EXCEPT !.b7 = TRUE])
       [] w = 1 -> WriteTo("mtvec", [ZeroCsr EXCEPT !.adr = 20])
       [] w = 2 -> EnableInterrupts
       [] w = 3 -> interrupted
       [] w = 5 -> handler
       [] w = 6 -> Simple("MRET")
       [] OTHER -> Simple("OP")]

LoadInterrupted  == {InterruptProgram(i, LoadFrom("BU", 12)) : i \in Accesses \cap Loads}
=============================================================================
