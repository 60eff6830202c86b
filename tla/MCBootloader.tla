---------------------------- MODULE MCBootloader ----------------------------
(***************************************************************************)
(* A small instance of Bootloader: a buffer of three characters, and two   *)
(* commands of which one begins the other.                                 *)
(***************************************************************************)
EXTENDS Bootloader

CONSTANTS A, B

MCCommands == {<<A>>, <<A, B>>}
=============================================================================
