---------------------------- MODULE MemoryAccess ----------------------------
(***************************************************************************)
(* The load/store unit (memory_access.sv).  It accepts a request of the    *)
(* control unit when idle, latches it, and performs it on the data bus:    *)
(* a load reads one or two words; a store of less than a word, or one that *)
(* crosses a word boundary, reads the words, merges the bytes and writes   *)
(* them back.  Stores are posted: the control unit goes on once accepted.  *)
(*                                                                         *)
(* Clocked by the rising edge.  CYC and STB are assigned together:         *)
(* data_CYC stands for both.                                               *)
(***************************************************************************)
EXTENDS CorePkg

VARIABLES
  data_bus_state,
  mem_ack, data_valid,                               \* to the control unit
  store_data_reg, address_reg, funct3_ff, unaligned_ff,   \* the latched request
  data_1, data_2,                                    \* the 64-bit access window
  data_CYC, data_WE, data_ADR, data_DAT_O            \* the data bus

requestVars == <<store_data_reg, address_reg, funct3_ff, unaligned_ff>>
memVars == <<data_bus_state, mem_ack, data_valid, requestVars, data_1, data_2,
             data_CYC, data_WE, data_ADR, data_DAT_O>>

ReadStates  == {"READ1", "READ2", "READ_W1", "READ_W2"}
WriteStates == {"UWRITE1", "UWRITE2"}
StoreStates == {"READ_W1", "READ_W2", "UWRITE1", "UWRITE2"}
DataBusState == {"NO_CMD"} \cup ReadStates \cup WriteStates

MemTypeOK ==
  /\ data_bus_state \in DataBusState
  /\ mem_ack \in BOOLEAN
  /\ data_valid \in BOOLEAN
  /\ store_data_reg \in Word
  /\ address_reg \in Addr
  /\ funct3_ff \in Funct3
  /\ unaligned_ff \in BOOLEAN
  /\ data_1 \in Word
  /\ data_2 \in Word
  /\ data_CYC \in BOOLEAN
  /\ data_WE \in BOOLEAN
  /\ data_ADR \in Addr
  /\ data_DAT_O \in Word

MemInit ==
  /\ data_bus_state = "NO_CMD"
  /\ mem_ack = FALSE
  /\ data_valid = FALSE
  /\ store_data_reg = ZeroWord
  /\ address_reg = 0
  /\ funct3_ff = "B"
  /\ unaligned_ff = FALSE
  /\ data_1 = ZeroWord
  /\ data_2 = ZeroWord
  /\ data_CYC = FALSE
  /\ data_WE = FALSE
  /\ data_ADR = 0
  /\ data_DAT_O = ZeroWord

-----------------------------------------------------------------------------
(* The datapath.                                                           *)

\* Mutant: off by one.
UnalignedNever(funct3, address) == Offset(address) > 3 /\ Size(funct3) # 1

\* Only an access at byte 3 of a word is treated as unaligned.
Unaligned(funct3, address) == Offset(address) >= 3 /\ Size(funct3) # 1

\* access_window, and the window with the bytes of the store merged in.
Window == [i \in 0 .. 7 |-> IF i < 4 THEN data_1[i] ELSE data_2[i - 4]]
ModifiedWindow ==
  LET off == Offset(address_reg)
  IN [i \in 0 .. 7 |-> IF i \in off .. off + Size(funct3_ff) - 1
                       THEN store_data_reg[i - off] ELSE Window[i]]
new_data_1 == [i \in 0 .. 3 |-> ModifiedWindow[i]]
new_data_2 == [i \in 0 .. 3 |-> ModifiedWindow[i + 4]]

\* load_data: the window from the address's byte on, extended.
LoadData ==
  Extend(funct3_ff, [i \in 0 .. 3 |-> Window[Offset(address_reg) + i]])

-----------------------------------------------------------------------------
(* The state machine.                                                      *)

\* Mutant: the bus is not released.
BusKept == UNCHANGED <<data_CYC, data_WE>>

BusIdle == data_CYC' = FALSE /\ data_WE' = FALSE

BusDrive(we) == data_CYC' = TRUE /\ data_WE' = we

\* The second word of an unaligned access is at address + 4.
AccessADR ==
  IF data_bus_state \in {"READ2", "READ_W2", "UWRITE2"}
  THEN Plus(address_reg, 4) ELSE address_reg

\* rst: the bus signals, the acknowledges and funct3_ff are not reset.
MemReset ==
  /\ data_bus_state' = "NO_CMD"
  /\ data_1' = ZeroWord
  /\ data_2' = ZeroWord
  /\ store_data_reg' = ZeroWord
  /\ address_reg' = 0
  /\ UNCHANGED <<mem_ack, data_valid, funct3_ff, unaligned_ff,
                 data_CYC, data_WE, data_ADR, data_DAT_O>>

\* Idle, no request.
MemIdle ==
  /\ data_bus_state = "NO_CMD"
  /\ mem_ack' = FALSE
  /\ data_valid' = FALSE
  /\ BusIdle
  /\ data_ADR' = address_reg
  /\ data_DAT_O' = ZeroWord
  /\ UNCHANGED <<data_bus_state, requestVars, data_1, data_2>>

\* Mutant: the address of the last request is kept.
LatchStale(funct3, address, store_data) ==
  /\ store_data_reg' = store_data
  /\ address_reg' = address_reg
  /\ funct3_ff' = funct3
  /\ unaligned_ff' = Unaligned(funct3, address)

LatchRequest(funct3, address, store_data) ==
  /\ store_data_reg' = store_data
  /\ address_reg' = address
  /\ funct3_ff' = funct3
  /\ unaligned_ff' = Unaligned(funct3, address)

\* Idle, and the control unit requests: acknowledge and latch the request.
MemAccept(operation, funct3, address, store_data) ==
  /\ data_bus_state = "NO_CMD"
  /\ mem_ack' = TRUE
  /\ data_valid' = FALSE
  /\ LatchRequest(funct3, address, store_data)
  /\ data_bus_state' =
       IF operation = "LOAD_DATA" THEN "READ1"
       ELSE IF operation # "STORE_DATA" THEN "NO_CMD"
       ELSE IF Unaligned(funct3, address) \/ Size(funct3) # 4 THEN "READ_W1"
       ELSE "UWRITE1"
  /\ BusIdle
  /\ data_ADR' = address_reg
  /\ data_DAT_O' = ZeroWord
  /\ UNCHANGED <<data_1, data_2>>

\* Mutant: the acknowledge of the request stays up.
MemStepAckKept ==
  /\ UNCHANGED mem_ack
  /\ data_ADR' = AccessADR
  /\ UNCHANGED requestVars

\* What every step of an access does.
MemStep ==
  /\ mem_ack' = FALSE
  /\ data_ADR' = AccessADR
  /\ UNCHANGED requestVars

\* A read state drives the bus until it is acknowledged.
MemReadRequest ==
  /\ data_bus_state \in ReadStates
  /\ MemStep
  /\ BusDrive(FALSE)
  /\ data_valid' = FALSE
  /\ data_DAT_O' = ZeroWord
  /\ UNCHANGED <<data_bus_state, data_1, data_2>>

\* The first word arrives.  An aligned load is done with it.
MemReadFirst(dat) ==
  /\ data_bus_state \in {"READ1", "READ_W1"}
  /\ MemStep
  /\ BusIdle
  /\ data_1' = dat
  /\ data_valid' = (data_bus_state = "READ1" /\ ~unaligned_ff)
  /\ data_bus_state' =
       IF data_bus_state = "READ1"
       THEN IF unaligned_ff THEN "READ2" ELSE "NO_CMD"
       ELSE IF unaligned_ff THEN "READ_W2" ELSE "UWRITE1"
  /\ data_DAT_O' = ZeroWord
  /\ UNCHANGED data_2

\* The second word arrives.
MemReadSecond(dat) ==
  /\ data_bus_state \in {"READ2", "READ_W2"}
  /\ MemStep
  /\ BusIdle
  /\ data_2' = dat
  /\ data_valid' = (data_bus_state = "READ2")
  /\ data_bus_state' = IF data_bus_state = "READ2" THEN "NO_CMD" ELSE "UWRITE1"
  /\ data_DAT_O' = ZeroWord
  /\ UNCHANGED data_1

\* A write state drives the bus until it is acknowledged.
MemWriteRequest ==
  /\ data_bus_state \in WriteStates
  /\ MemStep
  /\ BusDrive(TRUE)
  /\ data_valid' = FALSE
  /\ data_DAT_O' = IF data_bus_state = "UWRITE1" THEN new_data_1 ELSE new_data_2
  /\ UNCHANGED <<data_bus_state, data_1, data_2>>

MemWriteDone ==
  /\ data_bus_state \in WriteStates
  /\ MemStep
  /\ BusIdle
  /\ data_valid' = FALSE
  /\ data_bus_state' = IF data_bus_state = "UWRITE1" /\ unaligned_ff
                       THEN "UWRITE2" ELSE "NO_CMD"
  /\ data_DAT_O' = IF data_bus_state = "UWRITE1" THEN new_data_1 ELSE new_data_2
  /\ UNCHANGED <<data_1, data_2>>

MemPosedge(rst, cyc, operation, funct3, address, store_data, ACK, dat) ==
  \/ rst /\ MemReset
  \/ ~rst /\ ~cyc /\ MemIdle
  \/ ~rst /\ cyc /\ MemAccept(operation, funct3, address, store_data)
  \/ ~rst /\ ~ACK /\ (MemReadRequest \/ MemWriteRequest)
  \/ ~rst /\ ACK /\ (MemReadFirst(dat) \/ MemReadSecond(dat) \/ MemWriteDone)
=============================================================================
