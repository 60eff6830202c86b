------------------------------ MODULE CorePkg ------------------------------
(***************************************************************************)
(* The values the modules of the core exchange: byte addresses, memory     *)
(* words, decoded instructions and control/status register words.  What    *)
(* global_pkg.sv and the decode bus give the SystemVerilog modules.        *)
(*                                                                         *)
(* Widths.  The address space is 4 * NWords bytes and wraps, as the RAM    *)
(* wraps: ram.sv indexes with addr[ADDR_WIDTH+1:2] and drops what is above *)
(* (and the two low bits).                                                 *)
(***************************************************************************)
EXTENDS Integers

CONSTANTS
  NWords,   \* words of RAM; a power of two in the code (2**ADDR_WIDTH)
  Byte      \* the byte values the model tells apart

ASSUME NWordsAssumption == NWords \in Nat \ {0}
ASSUME ByteAssumption == Byte \subseteq 0 .. 255 /\ {0, 255} \subseteq Byte

WordIndex == 0 .. NWords - 1
AddrSize  == 4 * NWords
Addr      == 0 .. AddrSize - 1

\* A 32-bit memory word: four bytes, least significant first.
Word     == [0 .. 3 -> Byte]
ZeroWord == [i \in 0 .. 3 |-> 0]

\* Mutant: a sum keeps its carry.
PlusNoWrap(a, k) == a + k

\* Sums of addresses wrap.
Plus(a, k) == (a + k) % AddrSize

\* The word of the RAM an address selects, and the byte inside that word.
WordOf(a) == a \div 4
Offset(a) == a % 4

-----------------------------------------------------------------------------
(* Loads and stores: funct3 gives the size and the extension of a load.    *)

Funct3 == {"B", "H", "W", "BU", "HU"}

\* access_size, in bytes.
Size(funct3) ==
  IF funct3 \in {"B", "BU"} THEN 1 ELSE IF funct3 \in {"H", "HU"} THEN 2 ELSE 4

\* The loaded word made of Size(funct3) bytes and their extension: zeros for
\* BU and HU, copies of the sign bit for B and H.
Extend(funct3, bytes) ==
  LET n    == Size(funct3)
      fill == IF funct3 \in {"B", "H"} /\ bytes[n - 1] >= 128 THEN 255 ELSE 0
  IN [i \in 0 .. 3 |-> IF i < n THEN bytes[i] ELSE fill]

-----------------------------------------------------------------------------
(* Instructions, decoded and with their operands resolved.                 *)

\* The opcodes and, under SYSTEM, the cases control_unit.sv tells apart:
\*   OP     OP, OP_IMM, LUI and AUIPC: one cycle, a result for a register
\*   ENV    SYSTEM/PRIV with funct7 = 0 or SRET: ECALL, EBREAK, URET, SRET
\*   PRIV   SYSTEM/PRIV with any other funct7
\*   CSRRW  CSRRW and CSRRWI;  CSRRS  the set and clear forms
Op == {"OP", "JAL", "JARL", "BRANCH", "LOAD", "STORE",
       "MRET", "ENV", "PRIV", "CSRRW", "CSRRS", "ILLEGAL"}

Csr == {"mstatus", "mie", "mtvec", "mepc", "mcause", "mip", "other", "readonly"}

Mode == 0 .. 3
M_MODE == 3

\* A CSR word, projected on what some CSR uses of it: bits 3, 7 and 12:11
\* (mstatus, mie, mip), and the whole word as an address (mtvec, mepc, mcause).
CsrWord == [b3 : BOOLEAN, b7 : BOOLEAN, mpp : Mode, adr : Addr]
ZeroCsr == [b3 |-> FALSE, b7 |-> FALSE, mpp |-> 0, adr |-> 0]

\* addr    the load or store address, or the jump or branch target
\* data    rs2 of a store
\* rs1     the register number of a CSR instruction: 0 or another
\* value   rs1's value or the immediate of a CSR instruction
Instr == [op : Op, funct3 : Funct3, addr : Addr, data : Word,
          csr : Csr, rs1 : 0 .. 1, value : CsrWord]

\* The all-zero word is no RV32I instruction.
ZeroInstr == [op |-> "ILLEGAL", funct3 |-> "B", addr |-> 0, data |-> ZeroWord,
              csr |-> "other", rs1 |-> 0, value |-> ZeroCsr]
=============================================================================
