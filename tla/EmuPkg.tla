------------------------------- MODULE EmuPkg -------------------------------
(***************************************************************************)
(* The values of the emulator (model_verify/*.c): unsigned words, which    *)
(* are numbers where the processor computes with them and four bytes where *)
(* the memory moves them, and decoded instructions.                        *)
(*                                                                         *)
(* Widths.  A byte has ByteBits bits (8 in the code) and a word four       *)
(* bytes, so words, addresses and counters all wrap at 2^(4 * ByteBits).   *)
(***************************************************************************)
EXTENDS Integers, Sequences

CONSTANTS
  ByteBits,   \* 8; a power of two, so that shift amounts are taken modulo XLEN
  NRegs       \* 32

ASSUME ByteBitsAssumption == ByteBits \in {2, 4, 8}
ASSUME NRegsAssumption == NRegs \in Nat \ {0}

XLEN     == 4 * ByteBits
BYTE     == 2 ^ ByteBits
WORD     == 2 ^ XLEN
WordNum  == 0 .. WORD - 1
Wrap(n)  == n % WORD

Lane      == 0 .. 3
WordBytes == [Lane -> 0 .. BYTE - 1]
NoBytes   == [i \in Lane |-> 0]

\* The same 32 bits as bytes, least significant first, and as a number.
Bytes(n)  == [i \in Lane |-> (n \div (BYTE ^ i)) % BYTE]
Number(b) == b[0] + BYTE * b[1] + BYTE ^ 2 * b[2] + BYTE ^ 3 * b[3]

\* uint32_t read as int32_t.
Signed(n) == IF n < WORD \div 2 THEN n ELSE n - WORD

Bit(n, i) == (n \div (2 ^ i)) % 2

\* The number whose bit i is f[i].
BitIndex  == 0 .. XLEN - 1
OfBits(f) ==
  LET from[i \in 0 .. XLEN] == IF i = XLEN THEN 0 ELSE f[i] + 2 * from[i + 1]
  IN from[0]

BitAnd(a, b) == OfBits([i \in BitIndex |-> Bit(a, i) * Bit(b, i)])
BitOr(a, b)  == OfBits([i \in BitIndex |-> IF Bit(a, i) + Bit(b, i) > 0 THEN 1 ELSE 0])
BitXor(a, b) == OfBits([i \in BitIndex |-> (Bit(a, i) + Bit(b, i)) % 2])
BitNot(a)    == WORD - 1 - a

-----------------------------------------------------------------------------
(* A decoded instruction: what decode() of riscv.c leaves in its statics,  *)
(* of which an opcode uses one immediate.  EmuDecode models the decoding.  *)

Reg == 0 .. NRegs - 1

\* The CSRs the emulator itself counts in, and one standing for the others.
Counter == {"RDCYCLE", "RDCYCLEH", "RDTIME", "RDTIMEH", "MCYCLE"}
CsrId   == Counter \cup {"OTHER"}

\* imm   imm12, imm12wr, upper20, broffset or jmpoffset
\* uimm  the rs1 field as a number
NoInstr == [op |-> "invalid", rd |-> 0, rs1 |-> 0, rs2 |-> 0,
            imm |-> 0, csr |-> "OTHER", uimm |-> 0]
=============================================================================
