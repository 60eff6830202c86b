----------------------------- MODULE EmuMemory -----------------------------
(***************************************************************************)
(* The emulator's memory: memory.c queues requests and serves one per      *)
(* memory_run, memorymap.c finds the region and splits unaligned accesses, *)
(* ram.c holds the bytes.  memorymap_initialise adds one region, at 0.     *)
(***************************************************************************)
EXTENDS EmuPkg

CONSTANTS
  RamSize,    \* bytes of the region: 0xfffff, one byte short of a whole word
  FifoSize    \* FIFO_SIZE, 8

ASSUME RamSizeAssumption == RamSize \in Nat /\ RamSize < WORD
ASSUME FifoSizeAssumption == FifoSize \in Nat \ {0}

VARIABLES
  ram,          \* the bytes of the region
  writeReq,     \* write_request_fifo
  readReq,      \* read_request_fifo
  readData,     \* read_data_fifo
  fetchReq,     \* fetch_request_fifo
  fetchData     \* fetch_data_fifo

queues  == <<writeReq, readReq, readData, fetchReq, fetchData>>
memVars == <<ram, queues>>

Location == 0 .. RamSize - 1

-----------------------------------------------------------------------------
(* The five queues are ring buffers of the same shape.                     *)

\* The statics are zero when the program starts.
NewFifo(zero) == [read_ptr |-> 0, write_ptr |-> 0, count |-> 0,
                  entry |-> [p \in 0 .. FifoSize - 1 |-> zero]]

Empty(q) == q.count = 0
Full(q)  == q.count = FifoSize
\* Mutant: wraps one place late.
AfterLate(p) == IF p = FifoSize THEN 0 ELSE p + 1
After(p) == IF p = FifoSize - 1 THEN 0 ELSE p + 1
Front(q) == q.entry[q.read_ptr]

Push(q, v) == [q EXCEPT !.entry[q.write_ptr] = v, !.count = @ + 1,
                        !.write_ptr = After(@)]
Pop(q)     == [q EXCEPT !.count = @ - 1, !.read_ptr = After(@)]
Clear(q)   == [q EXCEPT !.count = 0, !.read_ptr = 0, !.write_ptr = 0]

-----------------------------------------------------------------------------
(* ram.c and memorymap.c: one aligned word, then any access.               *)

\* memorymap_aligned_read with RAM_get: the word has to lie in the region.
\* The last three bytes of the region do not make a word.
Whole(a) == a < RamSize /\ a + 4 <= RamSize /\ a % 4 = 0

AlignedWord(m, a) == [i \in Lane |-> m[a + i]]

\* memorymap_aligned_write with RAM_set: the lanes of the mask are stored.
AlignedWrite(m, a, lanes, value) ==
  [l \in Location |-> IF l - a \in lanes THEN value[l - a] ELSE m[l]]

\* The first and, for what crosses into the next word, the second word of the
\* access; address arithmetic wraps.
FirstWord(address)  == address - (address % 4)
SecondWord(address) == Wrap(FirstWord(address) + 4)

\* value << 8 * k and value >> 8 * k
ShiftLeft(value, k)  == [i \in Lane |-> IF i < k THEN 0 ELSE value[i - k]]
ShiftRight(value, k) == [i \in Lane |-> IF i + k > 3 THEN 0 ELSE value[i + k]]

\* memorymap_read of four bytes; memory_run takes 0 for a read that fails.
ReadWord(m, address) ==
  LET o      == address % 4
      first  == FirstWord(address)
      second == SecondWord(address)
  IN IF ~Whole(first) \/ (o # 0 /\ ~Whole(second)) THEN NoBytes
     ELSE IF o = 0 THEN AlignedWord(m, first)
     ELSE LET low  == ShiftRight(AlignedWord(m, first), o)
              high == ShiftLeft(AlignedWord(m, second), 4 - o)
          IN [i \in Lane |-> low[i] + high[i]]     \* of disjoint lanes

\* The byte enables memorymap_write passes for each offset and width.
FirstLanes(o, width) ==
  CASE o = 0 -> 0 .. width - 1
    [] o = 1 -> IF width = 4 THEN {1, 2, 3} ELSE IF width = 2 THEN {1, 2} ELSE {1}
    [] o = 2 -> IF width = 1 THEN {2} ELSE {2, 3}
    [] o = 3 -> {3}

\* Mutant: a halfword never crosses into the second word.
SecondLanesOfWords(o, width) == IF width = 4 /\ o # 0 THEN 0 .. o - 1 ELSE {}
SecondLanes(o, width) ==
  CASE width = 4 /\ o # 0 -> 0 .. o - 1
    [] width = 2 /\ o = 3 -> {0}
    [] OTHER -> {}

\* memorymap_write: when the first word is refused, the second is not tried.
WriteWord(m, address, width, value) ==
  LET o      == address % 4
      second == SecondWord(address)
      m1     == AlignedWrite(m, FirstWord(address), FirstLanes(o, width),
                             ShiftLeft(value, o))
  IN IF ~Whole(FirstWord(address)) THEN m
     ELSE IF SecondLanes(o, width) = {} \/ ~Whole(second) THEN m1
     ELSE AlignedWrite(m1, second, SecondLanes(o, width), ShiftRight(value, 4 - o))

-----------------------------------------------------------------------------
(* memory.c.  The requests, made by riscv.c; each is refused when its      *)
(* queue is full, which the caller tests.                                  *)

MemoryReadRequest(address)  == readReq'  = Push(readReq, address)
MemoryFetchRequest(address) == fetchReq' = Push(fetchReq, address)
MemoryWriteRequest(address, width, value) ==
  writeReq' = Push(writeReq, [address |-> address, mask |-> width, data |-> value])

MemoryReadData  == readData'  = Pop(readData)
MemoryFetchData == fetchData' = Pop(fetchData)

\* memory_run serves one request: a write if there is one, else a read, else
\* a fetch.
Apply(m, w) == WriteWord(m, w.address, w.mask, w.data)

ServeWrite ==
  /\ ram' = Apply(ram, Front(writeReq))
  /\ writeReq' = Pop(writeReq)
  /\ UNCHANGED <<readReq, readData, fetchReq, fetchData>>

ServeRead ==
  /\ readData' = Push(readData, ReadWord(ram, Front(readReq)))
  /\ readReq' = Pop(readReq)
  /\ UNCHANGED <<ram, writeReq, fetchReq, fetchData>>

ServeFetch ==
  /\ fetchData' = Push(fetchData, ReadWord(ram, Front(fetchReq)))
  /\ fetchReq' = Pop(fetchReq)
  /\ UNCHANGED <<ram, writeReq, readReq, readData>>

CanWrite == ~Empty(writeReq)
\* Mutant: waits for data where it should wait for room.
CanReadSwapped == ~Empty(readReq) /\ ~Empty(readData)
CanRead  == ~Empty(readReq) /\ ~Full(readData)
CanFetch == ~Empty(fetchReq) /\ ~Full(fetchData)

MemoryRun ==
  \/ CanWrite /\ ServeWrite
  \/ ~CanWrite /\ CanRead /\ ServeRead
  \/ ~CanWrite /\ ~CanRead /\ CanFetch /\ ServeFetch
  \/ ~CanWrite /\ ~CanRead /\ ~CanFetch /\ UNCHANGED memVars

\* memory_reset clears every queue but the fetch requests.
MemoryReset ==
  /\ readData'  = Clear(readData)
  /\ fetchData' = Clear(fetchData)
  /\ writeReq'  = Clear(writeReq)
  /\ readReq'   = Clear(readReq)
  /\ UNCHANGED fetchReq

MemoryInit ==
  /\ ram = [l \in Location |-> 0]
  /\ writeReq = NewFifo([address |-> 0, mask |-> 0, data |-> NoBytes])
  /\ readReq = NewFifo(0) /\ fetchReq = NewFifo(0)
  /\ readData = NewFifo(NoBytes) /\ fetchData = NewFifo(NoBytes)
=============================================================================
