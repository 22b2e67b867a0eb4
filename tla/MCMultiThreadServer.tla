------------------------ MODULE MCMultiThreadServer -------------------------
(***************************************************************************)
(* The threaded server for TLC.  Clients are interchangeable.              *)
(***************************************************************************)
EXTENDS MultiThreadServer, TLC

ClientSymmetry == Permutations(Clients)
=============================================================================
