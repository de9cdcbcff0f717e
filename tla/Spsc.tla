-------------------------------- MODULE Spsc --------------------------------
(***************************************************************************)
(* The channel of pluvio_runtime/src/executor/spsc.rs, over which every    *)
(* wake-up of the runtime travels: a ring buffer with one sentinel slot,   *)
(* a write index `head', a read index `tail', optional growth, and         *)
(* Sender/Receiver handles that share it.  The whole channel lives on one  *)
(* thread, so each call is one step.                                       *)
(*                                                                         *)
(* A slot is a message or Uninit: writing a slot initialises it, reading   *)
(* it (assume_init_read) moves the message out and leaves it Uninit.  The  *)
(* unsafe code is sound when it never reads an Uninit slot and never       *)
(* overwrites an initialised one.                                          *)
(***************************************************************************)
EXTENDS Naturals, FiniteSets, Sequences

CONSTANTS
    Msg,         \* the messages
    Uninit,      \* content of a slot that holds no message
    InitCap,     \* capacity given to bounded() or new_unbounded()
    MaxCap,      \* bound: growth past this capacity is not explored
    MaxHandles   \* bound on live Sender and on live Receiver clones

ASSUME SpscAssumption ==
    /\ Uninit \notin Msg
    /\ InitCap \in Nat \ {0}
    /\ MaxCap \in Nat
    /\ MaxHandles \in Nat \ {0}

VARIABLES
    buf,             \* the boxed slice, indexed 0 .. buf_len - 1
    buf_len,         \* its length, one more than the capacity
    head,            \* index of the next write
    tail,            \* index of the next read
    unbounded,       \* which of the two constructors made the channel
    sender_count,    \* live Sender handles
    receivers,       \* live Receiver handles (the Rc holds them, no counter does)
    receiver_alive,  \* cleared by the drop of a Receiver
    ret              \* what the last call returned

vars == <<buf, buf_len, head, tail, unbounded, sender_count, receivers,
          receiver_alive, ret>>
handles == <<sender_count, receivers, receiver_alive>>
ring == <<buf, buf_len, head, tail, unbounded>>

-----------------------------------------------------------------------------
(* Index arithmetic of Inner.  (A definition whose name says what is wrong *)
(* with it, here and below, is a slip that the checks must catch.)         *)

inc_without_wrap(i, m) == i + 1

inc(i, m) ==
    IF m = 0 THEN 0
    ELSE IF (i % m) + 1 = m THEN 0 ELSE (i % m) + 1

is_empty == head = tail

is_full_without_wrap == head + 1 = buf_len /\ tail = 0

is_full == inc(head, buf_len) = tail

cap == buf_len - 1

len ==
    LET h == head % buf_len
        t == tail % buf_len
    IN  IF h >= t THEN h - t ELSE buf_len - t + h

(* The slot reached from tail by i applications of inc.                    *)
Slot(i) == IF tail + i < buf_len THEN tail + i ELSE tail + i - buf_len

(* The slots between tail and head.                                        *)
Occupied == {Slot(i) : i \in 0 .. len - 1}

-----------------------------------------------------------------------------

Init ==
    /\ buf_len = InitCap + 1
    /\ buf = [i \in 0 .. InitCap |-> Uninit]
    /\ head = 0
    /\ tail = 0
    /\ unbounded \in BOOLEAN
    /\ sender_count = 1
    /\ receivers = 1
    /\ receiver_alive = TRUE
    /\ ret = [op |-> "new"]

(* What try_grow leaves in the ring: the messages copied in order to the   *)
(* front of a buffer of twice the capacity.                                *)
NewCap == IF 2 * cap < 2 THEN 2 ELSE 2 * cap

GrownBuf_copied_in_place == [i \in 0 .. NewCap |-> IF i < buf_len THEN buf[i] ELSE Uninit]

GrownBuf == [i \in 0 .. NewCap |-> IF i < len THEN buf[Slot(i)] ELSE Uninit]

(* write_at(h, m) followed by head.set(inc(h)), on a buffer b of length n. *)
WriteAt(b, n, h, m) ==
    /\ buf' = [b EXCEPT ![h % n] = m]
    /\ buf_len' = n
    /\ head' = inc(h, n)
    /\ unbounded' = unbounded

(* Sender::try_send (and send, which maps both errors to SendError).       *)
TrySend(m) ==
    /\ sender_count > 0
    /\ \/ /\ ~receiver_alive
          /\ ret' = [op |-> "send", err |-> "Disconnected"]
          /\ UNCHANGED ring
       \/ /\ receiver_alive /\ is_full /\ ~unbounded
          /\ ret' = [op |-> "send", err |-> "Full"]
          /\ UNCHANGED ring
       \/ /\ receiver_alive /\ ~is_full
          /\ ret' = [op |-> "send", ok |-> m]
          /\ WriteAt(buf, buf_len, head, m)
          /\ UNCHANGED tail
       \/ /\ receiver_alive /\ is_full /\ unbounded
          /\ NewCap <= MaxCap
          /\ ret' = [op |-> "send", ok |-> m]
          /\ WriteAt(GrownBuf, NewCap + 1, len, m)
          /\ tail' = 0
    /\ UNCHANGED handles

(* Receiver::try_recv.  Reading moves the message out of its slot.         *)
TryRecv ==
    /\ receivers > 0
    /\ \/ /\ is_empty
          /\ ret' = [op |-> "recv",
                     err |-> IF sender_count > 0 THEN "Empty" ELSE "Disconnected"]
          /\ UNCHANGED ring
       \/ /\ ~is_empty
          /\ ret' = [op |-> "recv", ok |-> buf[tail % buf_len]]
          /\ buf' = [buf EXCEPT ![tail % buf_len] = Uninit]
          /\ tail' = inc(tail, buf_len)
          /\ UNCHANGED <<buf_len, head, unbounded>>
    /\ UNCHANGED handles

(* Sender::clone and Receiver::clone.                                      *)
CloneSender ==
    /\ sender_count \in 1 .. MaxHandles - 1
    /\ sender_count' = sender_count + 1
    /\ UNCHANGED <<ring, receivers, receiver_alive, ret>>

CloneReceiver ==
    /\ receivers \in 1 .. MaxHandles - 1
    /\ receivers' = receivers + 1
    /\ UNCHANGED <<ring, sender_count, receiver_alive, ret>>

(* Drop of Inner, which runs when the last handle goes: the messages still *)
(* in the ring are dropped where they lie.                                 *)
DropInner_first_only ==
    /\ buf' = [buf EXCEPT ![tail] = Uninit]
    /\ tail' = head
    /\ UNCHANGED <<buf_len, head, unbounded>>

DropInner ==
    /\ buf' = [i \in 0 .. buf_len - 1 |-> IF i \in Occupied THEN Uninit ELSE buf[i]]
    /\ tail' = head % buf_len
    /\ UNCHANGED <<buf_len, head, unbounded>>

DropSender ==
    /\ sender_count > 0
    /\ sender_count' = sender_count - 1
    /\ IF sender_count = 1 /\ receivers = 0 THEN DropInner ELSE UNCHANGED ring
    /\ UNCHANGED <<receivers, receiver_alive, ret>>

DropReceiver ==
    /\ receivers > 0
    /\ receivers' = receivers - 1
    /\ receiver_alive' = FALSE
    /\ IF receivers = 1 /\ sender_count = 0 THEN DropInner ELSE UNCHANGED ring
    /\ UNCHANGED <<sender_count, ret>>

Next ==
    \/ \E m \in Msg : TrySend(m)
    \/ TryRecv
    \/ CloneSender
    \/ CloneReceiver
    \/ DropSender
    \/ DropReceiver

Spec == Init /\ [][Next]_vars

-----------------------------------------------------------------------------
Results ==
    [op : {"new"}] \cup
    [op : {"send", "recv"}, ok : Msg] \cup
    [op : {"send", "recv"}, err : {"Empty", "Full", "Disconnected"}]

(* Both indices stay inside the buffer, so that the reductions modulo its  *)
(* length in inc, len, write_at and read_at never change them; a call      *)
(* returns a message, never the content of an uninitialised slot.          *)
TypeOK ==
    /\ buf_len \in Nat \ {0, 1}
    /\ buf \in [0 .. buf_len - 1 -> Msg \cup {Uninit}]
    /\ head \in 0 .. buf_len - 1
    /\ tail \in 0 .. buf_len - 1
    /\ unbounded \in BOOLEAN
    /\ sender_count \in Nat
    /\ receivers \in Nat
    /\ receiver_alive \in BOOLEAN
    /\ ret \in Results

(* The safety contracts of write_at ("slot at idx is uninitialized") and   *)
(* read_at ("between tail and head"), kept through wrap-around, growth and *)
(* the drop of Inner: a slot is initialised exactly when it lies between   *)
(* tail and head.                                                          *)
InitializedExactly ==
    \A i \in 0 .. buf_len - 1 : buf[i] # Uninit <=> i \in Occupied

(* Nothing is leaked or dropped twice: once no handle is left no slot      *)
(* holds a message.                                                        *)
NoLeak ==
    sender_count = 0 /\ receivers = 0 => \A i \in 0 .. buf_len - 1 : buf[i] = Uninit

-----------------------------------------------------------------------------
(* The queue that the ring represents, and the abstract channel.           *)
Messages == [i \in 1 .. len |-> buf[Slot(i - 1)]]

Abstract == INSTANCE Fifo WITH
    Capacity <- InitCap,
    queue <- Messages,
    senders <- sender_count,
    open <- receiver_alive,
    freed <- (sender_count = 0 /\ receivers = 0)

(* The ring buffer is a FIFO channel: every call does to the messages and  *)
(* returns to its caller what the abstract channel says, across            *)
(* wrap-around and growth.                                                 *)
ImplementsFifo == Abstract!Spec
=============================================================================
