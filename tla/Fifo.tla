-------------------------------- MODULE Fifo --------------------------------
(***************************************************************************)
(* What the executor relies on when it uses the channel of                 *)
(* pluvio_runtime/src/executor/spsc.rs: a first-in first-out queue of      *)
(* messages that reports Full only when it is at its capacity and          *)
(* Disconnected only when the other side is gone.  This module says        *)
(* nothing about slots, indices or growth; module Spsc implements it.      *)
(***************************************************************************)
EXTENDS Naturals, Sequences

CONSTANTS Msg,        \* the messages (task ids in the runtime)
          Capacity    \* how many messages a bounded channel holds

VARIABLES queue,      \* messages sent and not yet received, oldest first
          senders,    \* number of live Sender handles
          open,       \* the receiving side has not disconnected
          freed,      \* every handle is gone
          unbounded,  \* TRUE for a channel that grows, FALSE for a bounded one
          ret         \* what the last call returned

vars == <<queue, senders, open, freed, unbounded, ret>>

Full == ~unbounded /\ Len(queue) = Capacity

Init ==
    /\ queue = <<>>
    /\ senders = 1
    /\ open = TRUE
    /\ freed = FALSE
    /\ unbounded \in BOOLEAN
    /\ ret = [op |-> "new"]

(* Sending appends, unless the receiver is gone or the channel is full.    *)
Send(m) ==
    /\ ~freed /\ senders > 0
    /\ \/ /\ ~open
          /\ ret' = [op |-> "send", err |-> "Disconnected"]
          /\ UNCHANGED queue
       \/ /\ open /\ Full
          /\ ret' = [op |-> "send", err |-> "Full"]
          /\ UNCHANGED queue
       \/ /\ open /\ ~Full
          /\ ret' = [op |-> "send", ok |-> m]
          /\ queue' = Append(queue, m)
    /\ UNCHANGED <<senders, open, freed, unbounded>>

(* Receiving takes the oldest message; an empty channel is disconnected    *)
(* only when no sender is left.                                            *)
Receive ==
    /\ ~freed
    /\ \/ /\ queue # <<>>
          /\ ret' = [op |-> "recv", ok |-> Head(queue)]
          /\ queue' = Tail(queue)
       \/ /\ queue = <<>> /\ senders > 0
          /\ ret' = [op |-> "recv", err |-> "Empty"]
          /\ UNCHANGED queue
       \/ /\ queue = <<>> /\ senders = 0
          /\ ret' = [op |-> "recv", err |-> "Disconnected"]
          /\ UNCHANGED queue
    /\ UNCHANGED <<senders, open, freed, unbounded>>

(* Handles come and go; nothing queued is lost until the last one goes.    *)
Handles ==
    /\ ~freed
    /\ \/ senders' = senders + 1 /\ senders > 0 /\ UNCHANGED <<open, freed, queue>>
       \/ senders > 0 /\ senders' = senders - 1 /\ UNCHANGED <<open, freed, queue>>
       \/ senders > 0 /\ senders' = senders - 1 /\ UNCHANGED open
             /\ freed' = TRUE /\ queue' = <<>>
       \/ open' = FALSE /\ UNCHANGED <<senders, freed, queue>>
       \/ senders = 0 /\ open' = FALSE /\ freed' = TRUE /\ queue' = <<>>
             /\ UNCHANGED senders
    /\ UNCHANGED <<unbounded, ret>>

Next == (\E m \in Msg : Send(m)) \/ Receive \/ Handles

Spec == Init /\ [][Next]_vars
=============================================================================
