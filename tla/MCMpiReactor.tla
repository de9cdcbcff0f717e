---------------------------- MODULE MCMpiReactor ----------------------------
(* Small instances of the MPI reactor for TLC.                             *)
EXTENDS MpiReactor
=============================================================================
