------------------------- MODULE MCTransferPrograms -------------------------
(***************************************************************************)
(* The programs that pass units or bytes on, for TLC: what atoi() may make *)
(* of an argument of the polling program, a negative count included.       *)
(***************************************************************************)
EXTENDS TransferPrograms

Counts == -1..2
=============================================================================
