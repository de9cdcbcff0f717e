------------------------------ MODULE MCUring -------------------------------
(* Small instances of the io_uring reactor for TLC.                        *)
EXTENDS Uring

(* Every way of submitting; and the reactor that is polled all the time,   *)
(* with a ring that is full with the first operation.                      *)
Submitting == {<<"direct", FALSE, 2>>, <<"thread", FALSE, 2>>, <<"sqpoll", FALSE, 2>>,
               <<"direct", TRUE, 1>>}
=============================================================================
