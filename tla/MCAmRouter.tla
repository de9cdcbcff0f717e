----------------------------- MODULE MCAmRouter -----------------------------
(* Small instances of the router for TLC.                                  *)
EXTENDS AmRouter
=============================================================================
