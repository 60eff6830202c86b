------------------------------ MODULE MCDecode ------------------------------
(***************************************************************************)
(* The instructions EmuDecode is checked with: every major opcode, every   *)
(* funct3, the funct7 in use and one that is not, and the immediates at    *)
(* which a field of the word is all zeros, all ones or a single bit.       *)
(***************************************************************************)
EXTENDS EmuDecode

Ins(major, f3, f7, rd, rs1, rs2, imm) ==
  [major |-> major, f3 |-> f3, f7 |-> f7, rd |-> rd, rs1 |-> rs1, rs2 |-> rs2, imm |-> imm]

F3 == 0 .. 7
Single(bits) == {2 ^ b : b \in bits}

Imm12 == {0, -1, -2048, 2047, 1023, 1055} \cup Single(0 .. 10)
ImmB  == {0, -2, -4096, 4094} \cup Single(1 .. 11)
ImmJ  == {0, -2, -(2 ^ 20), 2 ^ 20 - 2} \cup Single(1 .. 19)
ImmU  == {0, 2 ^ 20 - 1} \cup Single(0 .. 19)

MCInstructions ==
       {Ins("arith", f3, f7, rd, rs1, rs2, 0) :
          f3 \in F3, f7 \in {0, 1, 2, 32}, rd \in {0, 10, 31}, rs1 \in {5, 16}, rs2 \in {5, 16}}
  \cup {Ins(major, f3, 0, rd, rs1, 0, imm) :
          major \in {"jalr", "load", "opimm", "misc", "system"},
          f3 \in F3, rd \in {0, 21}, rs1 \in {0, 10}, imm \in Imm12}
  \cup {Ins("store", f3, 0, 0, 21, 10, imm) : f3 \in F3, imm \in Imm12}
  \cup {Ins("branch", f3, 0, 0, 21, 10, imm) : f3 \in F3, imm \in ImmB}
  \cup {Ins("jal", 0, 0, rd, 0, 0, imm) : rd \in {0, 31}, imm \in ImmJ}
  \cup {Ins(major, 0, 0, rd, 0, 0, imm) : major \in {"auipc", "lui"}, rd \in {0, 31}, imm \in ImmU}
=============================================================================
