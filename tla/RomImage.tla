----------------------------- MODULE RomImage -----------------------------
(***************************************************************************)
(* The program image: generate_rom.py writes one word per line in          *)
(* hexadecimal, and attempt_to_read of ram.c parses the file, one          *)
(* character at a time, into the emulator's RAM.                           *)
(***************************************************************************)
EXTENDS EmuMemory

VARIABLES
  file,   \* the characters of ROM.hex
  rom     \* the parser: its place in the file and in the RAM, its locals

romVars == <<file, rom>>

\* Characters: 0 .. 15 are the hexadecimal digits of either case.
Digit == 0 .. 15
NL    == 16
CR    == 17
SPACE == 18
TAB   == 19
JUNK  == 20
EOF   == 21

\* A word is written with one digit per four bits: 8 in the code.
Digits == XLEN \div 4

-----------------------------------------------------------------------------
(* generate_rom.py                                                         *)

HexDigit(w, i) == (w \div (16 ^ i)) % 16

\* A word without its upper digits: most significant digit first.
HexWord(w, digits) == [i \in 1 .. digits |-> HexDigit(w, digits - i)]

\* One line per word.  The last is shorter when the size of the binary is no
\* multiple of four: missing is the number of digits it lacks.
RomFile(words, missing) ==
  LET f[i \in 0 .. Len(words)] ==
        IF i = 0 THEN <<>>
        ELSE f[i - 1] \o HexWord(words[i], Digits - IF i = Len(words) THEN missing ELSE 0)
                      \o <<NL>>
  IN f[Len(words)]

-----------------------------------------------------------------------------
(* attempt_to_read.  rom.at is the loop the parser is in:                  *)
(*   line    looking for the first character of a line                     *)
(*   digits  in the for loop, after rom.i further digits                   *)
(*   rest    skipping what follows the word on its line                    *)
(*   end     returned: at the end of the file, or early on an error        *)

RomInit == rom = [at |-> "line", pos |-> 1, a |-> 0, d |-> 0, i |-> 0]

\* fgetc
Char == IF rom.pos > Len(file) THEN EOF ELSE file[rom.pos]
NextPos == rom.pos + 1

ReturnEarly == rom' = [rom EXCEPT !.at = "end"] /\ UNCHANGED ram

LineStart ==
  /\ rom.at = "line"
  /\ \/ /\ Char \in {NL, CR}
        /\ rom' = [rom EXCEPT !.pos = NextPos]
        /\ UNCHANGED ram
     \/ /\ Char \in Digit \cup {SPACE}
        /\ rom' = [rom EXCEPT !.at = "digits", !.pos = NextPos, !.i = 0,
                              !.d = IF Char = SPACE THEN 0 ELSE Char]
        /\ UNCHANGED ram
     \/ Char \in {EOF, TAB, JUNK} /\ ReturnEarly

\* data[a] = d; a++.  Bytes that would fall past the region are left out: a
\* file too long for the region corrupts the heap.
StoreWord(d, at) ==
  /\ ram' = [l \in Location |-> IF l \div 4 = rom.a THEN Bytes(d)[l % 4] ELSE ram[l]]
  /\ rom' = [rom EXCEPT !.at = at, !.pos = NextPos, !.a = @ + 1, !.d = d]

\* The digits after the first; a word may be shorter, and the test that it
\* fits is made only then.
WordDigits ==
  /\ rom.at = "digits"
  /\ \/ /\ Char \in Digit
        /\ LET d == Wrap(16 * rom.d + Char)
           IN IF rom.i = Digits - 2 THEN StoreWord(d, "rest")
              ELSE /\ rom' = [rom EXCEPT !.pos = NextPos, !.i = @ + 1, !.d = d]
                   /\ UNCHANGED ram
     \/ /\ Char \in {NL, SPACE, TAB}
        /\ IF rom.a * 4 + 3 >= RamSize THEN ReturnEarly
           ELSE StoreWord(rom.d, IF Char = NL THEN "line" ELSE "rest")
     \/ Char \in {CR, JUNK, EOF} /\ ReturnEarly

RestOfLine ==
  /\ rom.at = "rest"
  /\ rom' = [rom EXCEPT !.pos = NextPos, !.at = IF Char \in {NL, EOF} THEN "line" ELSE @]
  /\ UNCHANGED ram

ReadRom == LineStart \/ WordDigits \/ RestOfLine
=============================================================================
