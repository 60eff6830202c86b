-------------------------- MODULE BootloaderProofs --------------------------
(***************************************************************************)
(* The boot loader's line buffer, for every size of buffer, set of         *)
(* characters and list of commands: it holds the characters of the line,   *)
(* whatever lay in memory before, so what is detected is what was typed.   *)
(***************************************************************************)
EXTENDS Bootloader, SequenceTheorems, TLAPS

\* The buffer begins with the characters of the line.  At a carriage return
\* they end with it, or the line has just been given up as too long.
LineInv ==
  /\ index = Len(line)
  /\ \A k \in 0 .. index - 1 : input_buffer[k] = line[k + 1]
  /\ at = "line" /\ index # 0 => line[index] = CR
  /\ at # "dump" => ~command_okay

Inv == TypeOK /\ LineInv

-----------------------------------------------------------------------------
(* Every action but Store and EndLine leaves the buffer and the line alone. *)

\* The invariant holds when the boot loader starts.
LEMMA InitInv == Init => Inv
<1> SUFFICES ASSUME Init PROVE Inv
  OBVIOUS
<1>1. received \in Seq(Char) /\ line \in Seq(Char) /\ Len(received) = 0
  BY EmptySeq DEF Init
<1>2. index \in 0 .. BufferSize /\ Len(received) <= Depth
  BY <1>1, BufferSizeAssumption, DepthAssumption DEF Init
<1>3. TypeOK
  BY <1>1, <1>2 DEF Init, TypeOK
<1>4. LineInv
  BY DEF Init, LineInv
<1> QED BY <1>3, <1>4 DEF Inv

\* What the receiver holds stays a bounded queue of characters.
LEMMA ReceivedTyped ==
  ASSUME TypeOK, Arrive \/ Read
  PROVE  received' \in Seq(Char) /\ Len(received') <= Depth
<1>1. CASE Arrive
  <2>1. PICK c \in Char : received' = Append(received, c)
    BY <1>1 DEF Arrive
  <2> QED BY <1>1, <2>1, DepthAssumption DEF Arrive, TypeOK
<1>2. CASE Read
  <2>1. PICK n \in {1, 2} : n <= Len(received) /\ received' = SubSeq(received, n + 1, Len(received))
    BY <1>2 DEF Read
  <2>2. received' \in Seq(Char) /\ Len(received') = Len(received) - n
    BY <2>1, SMTT(30) DEF TypeOK
  <2> QED BY <2>1, <2>2, DepthAssumption DEF TypeOK
<1> QED BY <1>1, <1>2

\* Storing a character keeps it, the one that goes past the end included.
LEMMA StoreInv ==
  ASSUME Inv, Store
  PROVE  Inv'
<1> DEFINE stored == [input_buffer EXCEPT ![index] = data_c]
<1> USE BufferSizeAssumption, CharAssumption
<1>1. /\ at = "store" /\ at' = (IF data_c = CR THEN "line" ELSE "dump")
      /\ UNCHANGED <<received, data_c, command_okay, detected>>
  BY DEF Store
<1>2. stored \in [Cell -> Char] /\ index \in Cell
  BY DEF Inv, TypeOK, Cell
<1>3. CASE TooLong(index + 1)
  <2>1. /\ input_buffer' = [k \in Cell |-> IF k < BufferSize THEN NUL ELSE stored[k]]
        /\ index' = 0 /\ line' = <<>>
    BY <1>3 DEF Store
  <2>2. input_buffer' \in [Cell -> Char]
    BY <1>2, <2>1
  <2> QED BY <1>1, <2>1, <2>2 DEF Inv, TypeOK, LineInv
<1>4. CASE ~TooLong(index + 1)
  <2>1. input_buffer' = stored /\ index' = index + 1 /\ line' = Append(line, data_c)
    BY <1>4 DEF Store
  <2>2. index' \in 0 .. BufferSize
    BY <1>4, <2>1 DEF TooLong, Inv, TypeOK
  <2>3. /\ line' \in Seq(Char) /\ Len(line') = Len(line) + 1
        /\ line'[Len(line) + 1] = data_c
        /\ \A k \in 1 .. Len(line) : line'[k] = line[k]
    BY <2>1 DEF Inv, TypeOK
  <2>4. \A k \in 0 .. index' - 1 : input_buffer'[k] = line'[k + 1]
    BY <1>2, <2>1, <2>2, <2>3 DEF Inv, TypeOK, LineInv, Cell
  <2>5. index' = Len(line') /\ (at' = "line" => line'[index'] = CR)
    BY <1>1, <2>1, <2>3 DEF Inv, TypeOK, LineInv
  <2>6. TypeOK'
    BY <1>1, <1>2, <2>1, <2>2, <2>3 DEF Inv, TypeOK
  <2>7. LineInv'
    BY <1>1, <2>4, <2>5 DEF Inv, LineInv
  <2> QED BY <2>6, <2>7 DEF Inv
<1> QED BY <1>3, <1>4

\* Every step keeps it.
LEMMA StepInv ==
  ASSUME Inv, [Next]_vars
  PROVE  Inv'
<1>1. CASE Arrive
  BY <1>1, ReceivedTyped DEF Arrive, loopVars, Inv, TypeOK, LineInv
<1>2. CASE Read
  <2>1. data_c' \in Char
    BY <1>2 DEF Read, Inv, TypeOK
  <2> QED BY <1>2, <2>1, ReceivedTyped DEF Read, Inv, TypeOK, LineInv
<1>3. CASE Store
  BY <1>3, StoreInv
<1>4. CASE EndLine
  <2>1. input_buffer' \in [Cell -> Char]
    BY <1>4, CharAssumption DEF EndLine, Terminated, Inv, TypeOK
  <2>2. command_okay' \in BOOLEAN
    BY <1>4 DEF EndLine, Inv, TypeOK
  <2>3. /\ index' = 0 /\ line' = <<>> /\ at' = "dump"
        /\ UNCHANGED <<received, data_c>>
    BY <1>4 DEF EndLine
  <2>4. TypeOK'
    BY <2>1, <2>2, <2>3, BufferSizeAssumption DEF Inv, TypeOK
  <2>5. LineInv'
    BY <2>3 DEF LineInv
  <2> QED BY <2>4, <2>5 DEF Inv
<1>5. CASE Dump
  BY <1>5 DEF Dump, Inv, TypeOK, LineInv
<1>6. CASE UNCHANGED vars
  BY <1>6 DEF vars, loopVars, Inv, TypeOK, LineInv
<1> QED BY <1>1, <1>2, <1>3, <1>4, <1>5, <1>6 DEF Next

\* It holds in every reachable state.
LEMMA InvHolds == Spec => []Inv
  BY InitInv, StepInv, PTL DEF Spec

-----------------------------------------------------------------------------

\* strcmp on the terminated buffer tells whether the line is the command: the
\* terminator stands where the carriage return was, and no command contains one.
LEMMA EqualIsTyped ==
  ASSUME Inv, at = "line", NEW c \in Commands
  PROVE  Equal(Terminated(input_buffer, index), c) <=> Types(Typed, c)
<1> DEFINE b == Terminated(input_buffer, index)
<1> USE BufferSizeAssumption, CharAssumption
<1>1. /\ c \in Seq(Char \ {NUL}) /\ Len(c) \in Nat /\ Len(c) < BufferSize
      /\ \A k \in 1 .. Len(c) : c[k] # NUL
  BY CommandsAssumption
<1>2. /\ index \in 0 .. BufferSize /\ index = Len(line) /\ line \in Seq(Char)
      /\ input_buffer \in [Cell -> Char]
      /\ \A k \in 0 .. index - 1 : input_buffer[k] = line[k + 1]
  BY DEF Inv, TypeOK, LineInv
<1>3. CASE index = 0
  <2>1. line = <<>>
    BY <1>2, <1>3, EmptySeq
  <2>2. b[0] = NUL
    BY <1>2, <1>3 DEF Terminated, Cell
  <2>3. Equal(b, c) <=> Len(c) = 0
    BY <1>1, <2>2 DEF Equal
  <2>4. Types(Typed, c) <=> Len(c) = 0
    BY <1>1, <2>1 DEF Types, Typed
  <2> SUFFICES Equal(b, c) <=> Types(Typed, c)
    OBVIOUS
  <2> QED BY ONLY <2>3, <2>4
<1>4. CASE index # 0
  <2> DEFINE n == index - 1
  <2>1. /\ line # <<>> /\ Typed = SubSeq(line, 1, n)
        /\ Len(Typed) = n /\ \A k \in 1 .. n : Typed[k] = line[k]
    BY <1>2, <1>4 DEF Typed
  <2>2. /\ n \in 0 .. BufferSize - 1 /\ b[n] = NUL
        /\ \A k \in 0 .. n - 1 : b[k] = line[k + 1]
    BY <1>2, <1>4 DEF Terminated, Cell
  <2> SUFFICES Equal(b, c) <=> Types(Typed, c)
    OBVIOUS
  <2> HIDE DEF b, n
  <2>3. CASE Len(c) > n
    <3>1. c[n + 1] # NUL
      BY <1>1, <2>2, <2>3
    <3>2. ~Equal(b, c)
      BY <1>1, <2>2, <2>3, <3>1 DEF Equal
    <3> QED BY <1>1, <2>1, <2>2, <2>3, <3>2 DEF Types
  <2>4. CASE Len(c) <= n
    <3>1. (\A k \in 0 .. Len(c) - 1 : b[k] = c[k + 1])
            <=> (\A k \in 1 .. Len(c) : Typed[k] = c[k])
      <4>1. \A k \in 0 .. Len(c) - 1 : b[k] = Typed[k + 1]
        BY <1>1, <2>1, <2>2, <2>4
      <4>2. ASSUME \A k \in 0 .. Len(c) - 1 : b[k] = c[k + 1], NEW k \in 1 .. Len(c)
            PROVE  Typed[k] = c[k]
        <5>1. k - 1 \in 0 .. Len(c) - 1 /\ (k - 1) + 1 = k
          BY <1>1
        <5> QED BY <4>1, <4>2, <5>1
      <4>3. ASSUME \A k \in 1 .. Len(c) : Typed[k] = c[k], NEW k \in 0 .. Len(c) - 1
            PROVE  b[k] = c[k + 1]
        BY <1>1, <4>1, <4>3
      <4> QED BY <4>2, <4>3
    <3>2. (b[Len(c)] = NUL) <=> (Len(Typed) = Len(c) \/ Typed[Len(c) + 1] = NUL)
      BY <1>1, <2>1, <2>2, <2>4
    <3> QED BY <2>1, <2>4, <3>1, <3>2 DEF Equal, Types
  <2> QED BY <1>1, <2>2, <2>3, <2>4
<1> QED BY <1>3, <1>4

\* Every variable keeps its type: index stays within the buffer, though the test
\* for its length comes after the store.
THEOREM TypeCorrect == Spec => []TypeOK
  BY InvHolds, PTL DEF Inv

\* At every carriage return the commands detected are those typed since the last
\* prompt: nothing of the buffer's earlier contents counts.
THEOREM DetectionCorrect == Spec => DetectsWhatIsTyped
<1>1. ASSUME Inv, EndLine
      PROVE  /\ detected' = {c \in Commands : Types(Typed, c)}
             /\ (printed' = "prompt") = (detected' # {})
  <2>1. detected' = {c \in Commands : Types(Typed, c)}
    BY <1>1, EqualIsTyped DEF EndLine
  <2>2. ~command_okay
    BY <1>1 DEF EndLine, Inv, LineInv
  <2>3. (printed' = "prompt") = (detected' # {})
    BY <1>1, <2>2 DEF EndLine
  <2> QED BY <2>1, <2>3
<1>2. Inv => [EndLine => /\ detected' = {c \in Commands : Types(Typed, c)}
                         /\ (printed' = "prompt") = (detected' # {})]_vars
  BY <1>1
<1> QED BY <1>2, InvHolds, PTL DEF DetectsWhatIsTyped

\* The one byte past the buffer is written only when the line is then reported
\* as too long.
THEOREM OverrunCorrect == Spec => OverrunReported
<1>1. ASSUME Inv, [Next]_vars, input_buffer'[BufferSize] # input_buffer[BufferSize]
      PROVE  printed' = "too long"
  <2> USE BufferSizeAssumption
  <2>1. CASE Store
    <3> DEFINE stored == [input_buffer EXCEPT ![index] = data_c]
    <3>1. /\ index \in 0 .. BufferSize /\ input_buffer \in [Cell -> Char]
          /\ BufferSize \in Cell
      BY <1>1 DEF Inv, TypeOK, Cell
    <3>2. \/ input_buffer' = stored
          \/ input_buffer' = [k \in Cell |-> IF k < BufferSize THEN NUL ELSE stored[k]]
      BY <2>1 DEF Store
    <3>3. index = BufferSize
      BY <1>1, <3>1, <3>2
    <3>4. TooLong(index + 1)
      BY <3>1, <3>3 DEF TooLong
    <3> QED BY <2>1, <3>4 DEF Store
  <2>2. CASE EndLine
    <3> DEFINE b == Terminated(input_buffer, index)
    <3>1. /\ index \in 0 .. BufferSize /\ input_buffer \in [Cell -> Char]
          /\ BufferSize \in Cell /\ 0 \in Cell /\ BufferSize # 0
      BY <1>1 DEF Inv, TypeOK, Cell
    <3>2. b \in [Cell -> Char] /\ b[BufferSize] = input_buffer[BufferSize]
      BY <3>1, CharAssumption DEF Terminated, Cell
    <3>3. input_buffer' = [b EXCEPT ![0] = NUL]
      BY <2>2 DEF EndLine
    <3>4. input_buffer'[BufferSize] = input_buffer[BufferSize]
      BY <3>1, <3>2, <3>3
    <3> QED BY <1>1, <3>4
  <2>3. CASE ~Store /\ ~EndLine
    BY <1>1, <2>3 DEF Next, Arrive, Read, Dump, vars, loopVars
  <2> QED BY <2>1, <2>2, <2>3
<1>2. Inv /\ [Next]_vars =>
        [input_buffer'[BufferSize] # input_buffer[BufferSize] => printed' = "too long"]_vars
  BY <1>1
<1> QED BY <1>2, InvHolds, PTL DEF Spec, OverrunReported
=============================================================================
