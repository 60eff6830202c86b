------------------------------ MODULE MCSerial ------------------------------
(***************************************************************************)
(* Instances of Serial: the source's constants, or bytes of a bit or two.  *)
(***************************************************************************)
EXTENDS Serial

MCValue == 0 .. 2 ^ DATA_WIDTH - 1
=============================================================================
