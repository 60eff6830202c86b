----------------------------- MODULE MCAluTest -----------------------------
(***************************************************************************)
(* AluTest with words of 16 bits, the narrowest that hold the test's       *)
(* 23214 as a positive number, and the first 2000 of its INT16_MAX rounds. *)
(***************************************************************************)
EXTENDS AluTest

\* Zero, the signs' extremes, their neighbours, and shift amounts about 16.
MCOperand == {0, 1, 2, 7, 15, 16, 17, 255, 256, 23214, 32766, 32767,
              32768, 32769, 43690, 65521, 65534, 65535}
=============================================================================
