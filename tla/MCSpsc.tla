------------------------------- MODULE MCSpsc -------------------------------
(* Small instances of the channel for TLC: the messages are                *)
(* interchangeable, since no call looks inside one.                        *)
EXTENDS Spsc, TLC

Symmetry == Permutations(Msg)
=============================================================================
