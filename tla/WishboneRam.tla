----------------------------- MODULE WishboneRam -----------------------------
(***************************************************************************)
(* The memory of the SoC as its two masters see it: wishbone_arbitrer.sv   *)
(* in front of ram_wb.sv, which wraps ram.sv.                              *)
(*                                                                         *)
(* The acknowledge is registered at the rising edge (ram_wb.sv), the array *)
(* and its read address at the falling edge (ram.sv), and the arbiter is   *)
(* combinational and grants by priority, with no memory of who asked: an   *)
(* acknowledge set for one master can be seen by the other.                *)
(***************************************************************************)
EXTENDS CorePkg

VARIABLES
  ack_s,      \* registered acknowledge
  addr_reg,   \* registered read address of the array
  ram

ramVars == <<ack_s, addr_reg, ram>>

RamTypeOK ==
  /\ ack_s \in BOOLEAN
  /\ addr_reg \in WordIndex
  /\ ram \in [WordIndex -> Word]

RamInit(contents) ==
  /\ ack_s = FALSE
  /\ addr_reg = 0
  /\ ram = contents

-----------------------------------------------------------------------------
(* The arbiter.  A master's CYC and STB are one signal.                    *)

\* The data bus has priority.
ArbCYC(data_CYC, inst_CYC) == data_CYC \/ inst_CYC

\* Mutant: the address is taken from the bus that lost.
ArbADRSwapped(data_CYC, data_ADR, inst_ADR) == IF data_CYC THEN inst_ADR ELSE data_ADR

ArbADR(data_CYC, data_ADR, inst_ADR) == IF data_CYC THEN data_ADR ELSE inst_ADR

ArbWE(data_CYC, data_WE) == data_CYC /\ data_WE

\* ram_wb drives ACK = ack_s & CYC; the arbiter hands it to the granted master.
DataACK(data_CYC) == data_CYC /\ ack_s

\* Mutant: the acknowledge is not masked by the grant.
InstACKUnmasked(data_CYC, inst_CYC) == inst_CYC /\ ack_s

InstACK(data_CYC, inst_CYC) == ~data_CYC /\ inst_CYC /\ ack_s

\* q = ram[addr_reg]
ReadData == ram[addr_reg]

-----------------------------------------------------------------------------

\* ram_wb.sv: acknowledge a request one edge after it is seen.
RamPosedge(rst, CYC) ==
  /\ ack_s' = (~rst /\ CYC)
  /\ UNCHANGED <<addr_reg, ram>>

\* ram.sv: write if asked to, and register the address.
RamNegedge(ADR, WE, DAT) ==
  /\ ram' = IF WE THEN [ram EXCEPT ![WordOf(ADR)] = DAT] ELSE ram
  /\ addr_reg' = WordOf(ADR)
  /\ UNCHANGED ack_s
=============================================================================
