------------------------------ MODULE AmRouter ------------------------------
(***************************************************************************)
(* The active-message router of pluvio_collective on one rank: a           *)
(* dispatcher task drains the AM stream into slots, one per (source, step, *)
(* phase, micro-chunk) key, and RecvFutures register in a slot or take     *)
(* what arrived early.  The router keeps a raw pointer to the target       *)
(* buffer of a registered RecvFuture.                                      *)
(*                                                                         *)
(* The n-th message sent under a key carries the payload n.  Keys hold no  *)
(* sequence number: the next collective on the communicator uses the same  *)
(* keys again.  Senders may run ahead of the receives: binomial broadcast  *)
(* and scatter do not limit it, since their root only sends.               *)
(***************************************************************************)
EXTENDS Naturals, Sequences, FiniteSets

CONSTANTS
    Keys,        \* RecvKeys
    MaxFutures,  \* bound: RecvFutures made in a behaviour
    Tasks,       \* tasks that poll them
    MaxMsgs,     \* bound: messages sent under a key
    None

ASSUME RouterAssumption ==
    /\ MaxFutures \in Nat /\ MaxMsgs \in Nat
    /\ None \notin Keys /\ None \notin Tasks

(* RecvFutures, in the order they are made; a number is never used again.  *)
Futures == 1 .. MaxFutures

VARIABLES
    sent,        \* messages sent so far, by key
    posted,      \* receives created, by key
    stream,      \* messages not yet drained from the AmStream
    slots,       \* the HashMap
    life,        \* of a future: "unborn", "live", "ready" or "dropped"
    of,          \* its key
    nth,         \* it is the nth receive posted for that key
    registered,  \* as in RecvFuture
    done,        \* as in RecvFuture
    got,         \* what was copied to its target, 0 for nothing
    owner,       \* the task that polls it
    woken,       \* pairs <<future, task>>: the task will poll on its account
    strayed      \* history: keys under which a receive was given up, or a
                 \* message was lost by the dispatcher or met another one

vars == <<sent, posted, stream, slots, life, of, nth, registered, done, got, owner,
          woken, strayed>>
net == <<sent, stream>>
place == <<of, nth, posted>>

Vacant == [is |-> "vacant"]
Pending(f, t) == [is |-> "pending", future |-> f, waker |-> t]
Early(n) == [is |-> "early", bytes |-> n]

Init ==
    /\ sent = [k \in Keys |-> 0]
    /\ posted = [k \in Keys |-> 0]
    /\ stream = <<>>
    /\ slots = [k \in Keys |-> Vacant]
    /\ life = [f \in Futures |-> "unborn"]
    /\ of = [f \in Futures |-> None]
    /\ nth = [f \in Futures |-> 0]
    /\ registered = [f \in Futures |-> FALSE]
    /\ done = [f \in Futures |-> FALSE]
    /\ got = [f \in Futures |-> 0]
    /\ owner = [f \in Futures |-> None]
    /\ woken = {}
    /\ strayed = {}

-----------------------------------------------------------------------------
(* Peers send; the stream receives messages of one key in order.           *)
Arrive(k) ==
    /\ sent[k] < MaxMsgs
    /\ sent' = [sent EXCEPT ![k] = @ + 1]
    /\ stream' = Append(stream, <<k, sent[k] + 1>>)
    /\ UNCHANGED <<place, slots, life, registered, done, got, owner, woken, strayed>>

(* AmRouter::deliver.  (A definition whose name says what is wrong with it *)
(* is a slip that the checks must catch.)                                  *)
deliver_uncopied(k, n) ==
    /\ slots' = [slots EXCEPT ![k] = Vacant]
    /\ IF slots[k].is = "pending"
       THEN /\ done' = [done EXCEPT ![slots[k].future] = TRUE]
            /\ woken' = woken \cup {<<slots[k].future, slots[k].waker>>}
       ELSE UNCHANGED <<done, woken>>
    /\ UNCHANGED <<got, strayed>>

deliver(k, n) ==
    LET slot == slots[k] IN
    \/ /\ slot.is = "pending"
       /\ slots' = [slots EXCEPT ![k] = Vacant]
       /\ got' = [got EXCEPT ![slot.future] = n]
       /\ done' = [done EXCEPT ![slot.future] = TRUE]
       /\ woken' = woken \cup {<<slot.future, slot.waker>>}
       /\ UNCHANGED strayed
    \/ /\ slot.is = "vacant"
       /\ slots' = [slots EXCEPT ![k] = Early(n)]
       /\ UNCHANGED <<got, done, woken, strayed>>
    \/ /\ slot.is = "early"                 \* logged; both messages are gone
       /\ slots' = [slots EXCEPT ![k] = Vacant]
       /\ strayed' = strayed \cup {k}
       /\ UNCHANGED <<got, done, woken>>

(* One round of dispatcher_loop.                                           *)
Dispatch ==
    /\ stream # <<>>
    /\ stream' = Tail(stream)
    /\ deliver(Head(stream)[1], Head(stream)[2])
    /\ UNCHANGED <<sent, place, life, registered, owner>>

(* AmHeader::decode or recv_data_single returns an error: `continue'.      *)
DispatchFails ==
    /\ stream # <<>>
    /\ stream' = Tail(stream)
    /\ strayed' = strayed \cup {Head(stream)[1]}
    /\ UNCHANGED <<sent, place, slots, life, registered, done, got, owner, woken>>

-----------------------------------------------------------------------------
Live(f) == life[f] = "live"

(* RecvFuture::new in a collective, which awaits one receive per key at a  *)
(* time.                                                                   *)
New(f, k, t) ==
    /\ life[f] = "unborn" /\ (f > 1 => life[f - 1] # "unborn")
    /\ \A g \in Futures : Live(g) => of[g] # k
    /\ life' = [life EXCEPT ![f] = "live"]
    /\ of' = [of EXCEPT ![f] = k]
    /\ nth' = [nth EXCEPT ![f] = posted[k] + 1]
    /\ posted' = [posted EXCEPT ![k] = @ + 1]
    /\ owner' = [owner EXCEPT ![f] = t]
    /\ woken' = woken \cup {<<f, t>>}
    /\ UNCHANGED <<net, slots, registered, done, got, strayed>>

Answered(f) == {w \in woken : w[1] # f}

(* The collective that awaits f goes on.                                   *)
Ready(f) == life' = [life EXCEPT ![f] = "ready"]

(* What a later poll does while the message is still missing.              *)
update_waker_never(f) == slots

update_waker(f) ==
    IF slots[of[f]].is = "pending"
    THEN [slots EXCEPT ![of[f]].waker = owner[f]] ELSE slots

(* The slots after an early message has been taken.                        *)
take_early_kept(f) == slots

take_early(f) == [slots EXCEPT ![of[f]] = Vacant]

(* RecvFuture::poll, by its owner.                                         *)
Poll(f) ==
    /\ Live(f)
    /\ woken' = Answered(f)
    /\ \/ /\ done[f]
          /\ Ready(f)
          /\ UNCHANGED <<slots, registered, done, got>>
       \/ /\ ~done[f] /\ ~registered[f] /\ slots[of[f]].is = "early"
          /\ slots' = take_early(f)
          /\ got' = [got EXCEPT ![f] = slots[of[f]].bytes]
          /\ done' = [done EXCEPT ![f] = TRUE]
          /\ Ready(f)
          /\ UNCHANGED registered
       \/ /\ ~done[f] /\ ~registered[f] /\ slots[of[f]].is # "early"
          /\ slots' = [slots EXCEPT ![of[f]] = Pending(f, owner[f])]
          /\ registered' = [registered EXCEPT ![f] = TRUE]
          /\ UNCHANGED <<life, done, got>>
       \/ /\ ~done[f] /\ registered[f]
          /\ slots' = update_waker(f)
          /\ UNCHANGED <<life, registered, done, got>>
    /\ UNCHANGED <<net, place, owner, strayed>>

(* Drop for RecvFuture before it is ready: the collective is given up.     *)
Drop_keeping_slot(f) ==
    /\ Live(f)
    /\ life' = [life EXCEPT ![f] = "dropped"]
    /\ strayed' = strayed \cup {of[f]}
    /\ woken' = Answered(f)
    /\ UNCHANGED <<net, place, slots, registered, done, got, owner>>

Drop(f) ==
    /\ Live(f)
    /\ slots' = IF registered[f] /\ ~done[f] THEN [slots EXCEPT ![of[f]] = Vacant] ELSE slots
    /\ life' = [life EXCEPT ![f] = "dropped"]
    /\ strayed' = strayed \cup {of[f]}
    /\ woken' = Answered(f)
    /\ UNCHANGED <<net, place, registered, done, got, owner>>

(* A future handed to another task is polled there next.                   *)
Move(f, t) ==
    /\ Live(f) /\ t # owner[f]
    /\ owner' = [owner EXCEPT ![f] = t]
    /\ woken' = Answered(f) \cup {<<f, t>>}
    /\ UNCHANGED <<net, place, slots, life, registered, done, got, strayed>>

Next ==
    \/ \E k \in Keys : Arrive(k)
    \/ Dispatch \/ DispatchFails
    \/ \E f \in Futures :
          \/ \E k \in Keys, t \in Tasks : New(f, k, t)
          \/ Poll(f) \/ Drop(f)
          \/ \E t \in Tasks : Move(f, t)

Spec == Init /\ [][Next]_vars

-----------------------------------------------------------------------------
(* Types of the state.                                                     *)
TypeOK ==
    /\ sent \in [Keys -> 0 .. MaxMsgs]
    /\ posted \in [Keys -> Nat]
    /\ stream \in Seq(Keys \X (1 .. MaxMsgs))
    /\ slots \in [Keys -> {Vacant} \cup [is : {"pending"}, future : Futures, waker : Tasks]
                            \cup [is : {"early"}, bytes : 1 .. MaxMsgs]]
    /\ life \in [Futures -> {"unborn", "live", "ready", "dropped"}]
    /\ of \in [Futures -> Keys \cup {None}]
    /\ nth \in [Futures -> Nat]
    /\ registered \in [Futures -> BOOLEAN]
    /\ done \in [Futures -> BOOLEAN]
    /\ got \in [Futures -> 0 .. MaxMsgs]
    /\ owner \in [Futures -> Tasks \cup {None}]
    /\ woken \subseteq Futures \X Tasks
    /\ strayed \subseteq Keys
    /\ \A f \in Futures : life[f] = "ready" => got[f] # 0

(* The SAFETY comment of deliver: the pointer in a pending slot belongs to *)
(* a future that is alive and still waits under that key, whatever was     *)
(* dropped, moved or lost.                                                 *)
TargetValid ==
    \A k \in Keys : slots[k].is = "pending" =>
        LET f == slots[k].future
        IN  Live(f) /\ of[f] = k /\ registered[f] /\ ~done[f]

(* A live receive cannot be forgotten: its owner is about to poll it, or   *)
(* it sits in its slot with a waker of its present owner.                  *)
WakersCurrent ==
    \A f \in Futures : Live(f) =>
        \/ <<f, owner[f]>> \in woken
        \/ registered[f] /\ ~done[f] /\ slots[of[f]] = Pending(f, owner[f])

(* The nth receive under a key gets the nth message, early or late, until  *)
(* a receive under that key is given up, the dispatcher fails with a       *)
(* message of it, or a second message arrives early.                       *)
MatchedInOrder ==
    \A f \in Futures : of[f] \notin strayed => got[f] \in {0, nth[f]}

-----------------------------------------------------------------------------
(* The dispatcher and the woken tasks are polled by the executor.          *)
Fairness ==
    /\ WF_vars(Dispatch)
    /\ \A f \in Futures : WF_vars(<<f, owner[f]>> \in woken /\ Poll(f))

FairSpec == Spec /\ Fairness

(* A receive whose message has been sent returns (with the same exception).*)
Received ==
    \A f \in Futures :
        (Live(f) /\ sent[of[f]] >= nth[f]) ~> (life[f] = "ready" \/ of[f] \in strayed)
=============================================================================
