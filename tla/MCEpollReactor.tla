--------------------------- MODULE MCEpollReactor ---------------------------
(***************************************************************************)
(* The reactor for TLC.  Clients are interchangeable.                      *)
(***************************************************************************)
EXTENDS EpollReactor, TLC

ClientSymmetry == Permutations(Clients)
=============================================================================
