----------------------------- MODULE Bootloader -----------------------------
(***************************************************************************)
(* The boot loader's command line (c_code/bootloader/bootloader.c): main's *)
(* loop polls the receiver, echoes each character, keeps it in a small     *)
(* buffer and, at a carriage return, compares the buffer with its          *)
(* commands.                                                               *)
(*                                                                         *)
(* The receiver is a bounded queue that a terminal fills at any time; one  *)
(* read of its DATA register removes one character, or two when two are    *)
(* stored (see Serial).                                                    *)
(***************************************************************************)
EXTENDS Integers, Sequences

CONSTANTS
  Char,           \* the characters
  CR, NUL, P,     \* '\r', '\0' and 'p'
  BufferSize,     \* 20
  Commands,       \* the strings in commands[]
  Depth           \* of the receiver's FIFO

ASSUME CharAssumption == {CR, NUL, P} \subseteq Char /\ CR # NUL /\ CR # P /\ P # NUL
ASSUME BufferSizeAssumption == BufferSize \in Nat \ {0}
ASSUME CommandsAssumption ==
  \A c \in Commands : c \in Seq(Char \ {NUL}) /\ Len(c) < BufferSize
ASSUME DepthAssumption == Depth \in Nat \ {0}

VARIABLES
  received,       \* the receiver's FIFO
  at,             \* poll, store, line, dump: the place in main's loop
  data_c, index, command_okay,
  input_buffer,   \* and, in the last place, the byte that follows it in memory
  line,           \* history: the characters since the last prompt or error
  printed,        \* history: what the loop printed last
  detected        \* history: the commands the last prompt said it detected

loopVars == <<data_c, index, command_okay, input_buffer, line, printed, detected>>
vars == <<received, at, loopVars>>

Cell == 0 .. BufferSize

\* Locals are not initialised, so the buffer holds anything.
Init ==
  /\ received = <<>>
  /\ at = "poll" /\ index = 0 /\ command_okay = FALSE
  /\ data_c \in Char
  /\ input_buffer \in [Cell -> Char]
  /\ line = <<>> /\ printed = "nothing" /\ detected = {}

-----------------------------------------------------------------------------

\* A character arrives; with the FIFO full, the receiver holds it back.
Arrive ==
  /\ Len(received) < Depth
  /\ \E c \in Char : received' = Append(received, c)
  /\ UNCHANGED <<at, loopVars>>

\* The count is positive: the character is read and printed back.
Read ==
  /\ at = "poll" /\ Len(received) > 0
  /\ data_c' = Head(received)
  /\ \E n \in {1, 2} : /\ n <= Len(received)
                       /\ received' = SubSeq(received, n + 1, Len(received))
  /\ printed' = "echo"
  /\ at' = "store"
  /\ UNCHANGED <<index, command_okay, input_buffer, line, detected>>

\* Mutant: the length is tested as if index counted from one.
TooLongLate(n) == n > BufferSize + 1

\* The test comes after the store, so it is the character one past the buffer
\* that makes the line too long.
TooLong(n) == n > BufferSize

\* Mutant: the loop goes round after "Line too long".
StoreThenPolls ==
  /\ at = "store"
  /\ LET stored == [input_buffer EXCEPT ![index] = data_c]
     IN IF TooLong(index + 1)
        THEN /\ input_buffer' = [k \in Cell |-> IF k < BufferSize THEN NUL ELSE stored[k]]
             /\ index' = 0 /\ line' = <<>>
             /\ printed' = "too long"
        ELSE /\ input_buffer' = stored
             /\ index' = index + 1 /\ line' = Append(line, data_c)
             /\ UNCHANGED printed
  /\ at' = IF data_c = CR /\ ~TooLong(index + 1) THEN "line" ELSE "dump"
  /\ UNCHANGED <<received, data_c, command_okay, detected>>

Store ==
  /\ at = "store"
  /\ LET stored == [input_buffer EXCEPT ![index] = data_c]
     IN IF TooLong(index + 1)
        THEN /\ input_buffer' = [k \in Cell |-> IF k < BufferSize THEN NUL ELSE stored[k]]
             /\ index' = 0 /\ line' = <<>>
             /\ printed' = "too long"
        ELSE /\ input_buffer' = stored
             /\ index' = index + 1 /\ line' = Append(line, data_c)
             /\ UNCHANGED printed
  /\ at' = IF data_c = CR THEN "line" ELSE "dump"
  /\ UNCHANGED <<received, data_c, command_okay, detected>>

\* strcmp(b, command) = 0; it stops at the first character that differs.
Equal(b, command) ==
  /\ \A k \in 0 .. Len(command) - 1 : b[k] = command[k + 1]
  /\ b[Len(command)] = NUL

\* Mutant: the terminator goes after the carriage return.
TerminatedAfter(b, n) == [b EXCEPT ![n] = NUL]

\* The carriage return's place gets the terminator.
Terminated(b, n) == [b EXCEPT ![IF n # 0 THEN n - 1 ELSE n] = NUL]

EndLine ==
  /\ at = "line"
  /\ LET b == Terminated(input_buffer, index)
     IN /\ detected' = {c \in Commands : Equal(b, c)}
        /\ input_buffer' = [b EXCEPT ![0] = NUL]
  /\ command_okay' = (command_okay \/ detected' # {})
  /\ printed' = IF command_okay' THEN "prompt" ELSE "not recognized, prompt"
  /\ index' = 0 /\ line' = <<>>
  /\ at' = "dump"
  /\ UNCHANGED <<received, data_c>>

\* command_okay = 0, and a 'p' prints the buffer up to the first '\0', which may
\* lie beyond it.
Dump ==
  /\ at = "dump"
  /\ command_okay' = FALSE
  /\ printed' = IF data_c = P THEN "buffer" ELSE printed
  /\ at' = "poll"
  /\ UNCHANGED <<received, data_c, index, input_buffer, line, detected>>

Next == Arrive \/ Read \/ Store \/ EndLine \/ Dump

\* The loop is the only thing the processor runs.
Spec == Init /\ [][Next]_vars /\ WF_vars(Read \/ Store \/ EndLine \/ Dump)

-----------------------------------------------------------------------------
(* Properties                                                              *)

\* Every variable has its type; at the top of the loop, the next character fits
\* the buffer or is the one that makes the line too long.
TypeOK ==
  /\ received \in Seq(Char) /\ Len(received) <= Depth
  /\ at \in {"poll", "store", "line", "dump"}
  /\ data_c \in Char /\ index \in 0 .. BufferSize /\ command_okay \in BOOLEAN
  /\ input_buffer \in [Cell -> Char]
  /\ line \in Seq(Char)

\* l begins with c and ends there, or goes on with a '\0' that was typed.
Types(l, c) ==
  /\ Len(c) <= Len(l)
  /\ \A k \in 1 .. Len(c) : l[k] = c[k]
  /\ Len(l) = Len(c) \/ l[Len(c) + 1] = NUL

\* The line without the carriage return that ended it.
Typed == IF line = <<>> THEN <<>> ELSE SubSeq(line, 1, Len(line) - 1)

\* At the prompt, the commands detected are the ones that the characters taken
\* since the previous line make: neither what the buffer held before, nor what
\* an over-long line left there, counts; and "not recognized" means none.
DetectsWhatIsTyped ==
  [][EndLine => /\ detected' = {c \in Commands : Types(Typed, c)}
                /\ (printed' = "prompt") = (detected' # {})]_vars

\* The byte after the buffer is written only by the character for which the
\* loop then reports that the line is too long.
OverrunReported ==
  [][input_buffer'[BufferSize] # input_buffer[BufferSize] => printed' = "too long"]_vars

\* Every carriage return is answered by a prompt, whatever is typed meanwhile.
Prompts ==
  (at = "store" /\ data_c = CR) ~> (printed \in {"prompt", "not recognized, prompt"})
=============================================================================
