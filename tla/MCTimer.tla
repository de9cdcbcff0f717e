------------------------------ MODULE MCTimer -------------------------------
(* Small instances of the timer for TLC.                                   *)
EXTENDS Timer
=============================================================================
