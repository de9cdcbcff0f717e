---------------------------- MODULE MCUcxWorker -----------------------------
(* A small instance of the UCX workers for TLC; all constants are in the   *)
(* configuration.                                                          *)
EXTENDS UcxWorker
=============================================================================
