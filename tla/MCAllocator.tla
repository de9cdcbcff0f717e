---------------------------- MODULE MCAllocator -----------------------------
(* A small instance of the buffer pool for TLC; all constants are in the   *)
(* configuration.                                                          *)
EXTENDS Allocator
=============================================================================
