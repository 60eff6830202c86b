----------------------------- MODULE CoreDecode -----------------------------
(***************************************************************************)
(* How the core takes an instruction apart: decoder.sv's wires, and the    *)
(* extension to 32 bits where core.sv uses an immediate.  A vector is a    *)
(* function from its bit positions.                                        *)
(***************************************************************************)
EXTENDS Integers

\* v[hi:lo]
Slice(v, hi, lo) == [b \in 0 .. hi - lo |-> v[b + lo]]

\* 32'(signed'(v)), v of n bits.
SignExtended(v, n) == [b \in 0 .. 31 |-> IF b < n THEN v[b] ELSE v[n - 1]]

i_imm(IR) == Slice(IR, 31, 20)
s_imm(IR) == [b \in 0 .. 11 |-> IF b < 5 THEN IR[b + 7] ELSE IR[b + 20]]
b_imm(IR) == [b \in 0 .. 12 |-> CASE b = 0       -> 0
                                  [] b \in 1 .. 4  -> IR[b + 7]
                                  [] b \in 5 .. 10 -> IR[b + 20]
                                  [] b = 11      -> IR[7]
                                  [] b = 12      -> IR[31]]
u_imm(IR) == [b \in 0 .. 31 |-> IF b < 12 THEN 0 ELSE IR[b]]

\* Mutant: the eleven bits lose the lowest.
j_immUpper(IR) == [b \in 0 .. 20 |-> CASE b = 0        -> 0
                                       [] b \in 1 .. 10  -> IR[b + 21]
                                       [] b = 11       -> IR[20]
                                       [] b \in 12 .. 19 -> IR[b]
                                       [] b = 20       -> IR[31]]

\* j_imm[10:1] is assigned eleven bits, IR[31:21], and keeps the lower ten.
j_imm(IR) == [b \in 0 .. 20 |-> CASE b = 0        -> 0
                                  [] b \in 1 .. 10  -> IR[b + 20]
                                  [] b = 11       -> IR[20]
                                  [] b \in 12 .. 19 -> IR[b]
                                  [] b = 20       -> IR[31]]

\* The operands as the core uses them: named as in the emulator's decode.
Operands(IR) ==
  [rd |-> Slice(IR, 11, 7), rs1 |-> Slice(IR, 19, 15), rs2 |-> Slice(IR, 24, 20),
   imm12     |-> SignExtended(i_imm(IR), 12),
   imm12wr   |-> SignExtended(s_imm(IR), 12),
   broffset  |-> SignExtended(b_imm(IR), 13),
   upper20   |-> u_imm(IR),
   jmpoffset |-> SignExtended(j_imm(IR), 21)]
=============================================================================
