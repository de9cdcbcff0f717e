----------------------------- MODULE Allocator ------------------------------
(***************************************************************************)
(* The pool of fixed buffers of pluvio_uring: buffers are popped from and  *)
(* pushed to a vector, and a task that finds it empty leaves its           *)
(* LazyAcquireState, with its waker, in acquire_queue.  A FixedBuffer that *)
(* is dropped goes back to the pool and wakes the first of that queue.     *)
(*                                                                         *)
(* Several tasks (clients) share the pool on one thread, so that each poll *)
(* and each drop is one step.  Between the wake-up of a client and its     *)
(* next poll any other client may run, and take the buffer.  A client may  *)
(* also drop a pending LazyAcquire (it lost a select or ran into a         *)
(* timeout), or be polled without a wake-up from here (its task awaits     *)
(* something else as well, or a stale key was queued for it).              *)
(***************************************************************************)
EXTENDS Naturals, Sequences, FiniteSets

CONSTANTS
    Clients,      \* tasks that use the pool
    PoolSize,     \* queue_size, the number of buffers
    States,       \* names for LazyAcquireState allocations
    MaxQueue,     \* bound: length of acquire_queue (reached by re-polls only)
    MaxHeld,      \* bound: buffers a client holds at a time
    None          \* no client, no LazyAcquireState

ASSUME AllocatorAssumption ==
    /\ IsFiniteSet(Clients)
    /\ PoolSize \in Nat
    /\ None \notin States /\ None \notin Clients
    /\ MaxQueue \in Nat /\ MaxHeld \in Nat

Buffers == 0 .. PoolSize - 1

VARIABLES
    buffers,        \* the free buffers; the last one is handed out next
    acquire_queue,  \* LazyAcquireStates, in the order of their pending polls
    waker,          \* LazyAcquireState::waker: the client to wake, or None
    pending,        \* the state of the client's pending LazyAcquire, or None
    held,           \* the FixedBuffers each client owns
    woken,          \* clients whose waker was called since their last poll
    dropped,        \* the allocator's own Drop has run
    disturbed       \* history: some LazyAcquire was dropped while pending, or
                    \* polled without a wake-up from the pool

vars == <<buffers, acquire_queue, waker, pending, held, woken, dropped, disturbed>>

Init ==
    /\ buffers = [i \in 1 .. PoolSize |-> i - 1]
    /\ acquire_queue = <<>>
    /\ waker = [s \in States |-> None]
    /\ pending = [c \in Clients |-> None]
    /\ held = [c \in Clients |-> {}]
    /\ woken = {}
    /\ dropped = FALSE
    /\ disturbed = FALSE

-----------------------------------------------------------------------------
(* A LazyAcquireState lives (Rc) while a future or the queue refers to it. *)
InUse(s) ==
    \/ \E c \in Clients : pending[c] = s
    \/ \E i \in 1 .. Len(acquire_queue) : acquire_queue[i] = s

(* acquire_inner: pop a free buffer.  (A definition whose name says what   *)
(* is wrong with it is a slip that the checks must catch.)                 *)
Rest_not_popped == buffers

Rest == SubSeq(buffers, 1, Len(buffers) - 1)

acquire_inner(c) ==
    /\ buffers # <<>>
    /\ held' = [held EXCEPT ![c] = @ \cup {buffers[Len(buffers)]}]
    /\ buffers' = Rest

(* LazyAcquire::poll for the future with state s.                          *)
LazyAcquirePoll(c, s) ==
    \/ /\ acquire_inner(c)
       /\ pending' = [pending EXCEPT ![c] = None]
       /\ UNCHANGED <<acquire_queue, waker>>
    \/ /\ buffers = <<>>
       /\ waker' = [waker EXCEPT ![s] = c]
       /\ acquire_queue' = Append(acquire_queue, s)
       /\ pending' = [pending EXCEPT ![c] = s]
       /\ UNCHANGED <<buffers, held>>

MayHold(c) == Cardinality(held[c]) < MaxHeld

(* acquire().await in a running task: a new future, with a new state (the  *)
(* name of the allocation does not matter), polled at once.                *)
Acquire(c, s) ==
    /\ ~dropped /\ pending[c] = None /\ MayHold(c)
    /\ ~InUse(s) /\ s = CHOOSE t \in States : ~InUse(t)
    /\ LazyAcquirePoll(c, s)
    /\ UNCHANGED <<woken, dropped, disturbed>>

TryAcquire(c) ==
    /\ ~dropped /\ pending[c] = None /\ MayHold(c)
    /\ acquire_inner(c)
    /\ UNCHANGED <<acquire_queue, waker, pending, woken, dropped, disturbed>>

(* A client that was woken is polled; it may have given up in between.     *)
PollWoken(c) ==
    /\ c \in woken
    /\ woken' = woken \ {c}
    /\ IF pending[c] # None THEN LazyAcquirePoll(c, pending[c])
       ELSE UNCHANGED <<buffers, acquire_queue, waker, pending, held>>
    /\ UNCHANGED <<dropped, disturbed>>

Repoll(c) ==
    /\ pending[c] # None /\ Len(acquire_queue) < MaxQueue
    /\ LazyAcquirePoll(c, pending[c])
    /\ disturbed' = TRUE
    /\ UNCHANGED <<woken, dropped>>

(* A pending LazyAcquire is dropped.  It has no Drop: its state stays      *)
(* queued, with the waker.                                                 *)
Cancel(c) ==
    /\ pending[c] # None
    /\ disturbed' = TRUE
    /\ pending' = [pending EXCEPT ![c] = None]
    /\ UNCHANGED <<buffers, acquire_queue, waker, held, woken, dropped>>

(* The tail of Drop for FixedBuffer: take the first queued state and the   *)
(* waker in it, if it is still there, and wake.                            *)
WakeFirst_unless_free ==
    IF acquire_queue = <<>> \/ Len(buffers) > 0
    THEN UNCHANGED <<acquire_queue, waker, woken>>
    ELSE LET s == Head(acquire_queue)
         IN  /\ acquire_queue' = Tail(acquire_queue)
             /\ waker' = [waker EXCEPT ![s] = None]
             /\ woken' = woken \cup ({waker[s]} \ {None})

WakeFirst ==
    IF acquire_queue = <<>> THEN UNCHANGED <<acquire_queue, waker, woken>>
    ELSE LET s == Head(acquire_queue)
         IN  /\ acquire_queue' = Tail(acquire_queue)
             /\ waker' = [waker EXCEPT ![s] = None]
             /\ woken' = woken \cup ({waker[s]} \ {None})

Returned_lost(b) == buffers

Returned_twice(b) == buffers \o <<b, b>>

Returned(b) == Append(buffers, b)

(* Drop for FixedBuffer.                                                   *)
DropBuffer(c, b) ==
    /\ b \in held[c]
    /\ held' = [held EXCEPT ![c] = @ \ {b}]
    /\ buffers' = Returned(b)
    /\ WakeFirst
    /\ UNCHANGED <<pending, dropped, disturbed>>

(* Drop for FixedBufferAllocator: nothing owns an Rc of it any more.  It   *)
(* pops and frees what is in the vector (ManuallyDrop frees nothing else). *)
DropAllocator ==
    /\ ~dropped
    /\ \A c \in Clients : held[c] = {} /\ pending[c] = None
    /\ dropped' = TRUE
    /\ buffers' = <<>>
    /\ UNCHANGED <<acquire_queue, waker, pending, held, woken, disturbed>>

Next ==
    \/ \E c \in Clients :
          \/ \E s \in States : Acquire(c, s)
          \/ TryAcquire(c) \/ PollWoken(c) \/ Repoll(c) \/ Cancel(c)
          \/ \E b \in Buffers : DropBuffer(c, b)
    \/ DropAllocator

Spec == Init /\ [][Next]_vars

-----------------------------------------------------------------------------
(* Types; the pool never holds more than its buffers.                      *)
TypeOK ==
    /\ buffers \in Seq(Buffers) /\ Len(buffers) <= PoolSize
    /\ acquire_queue \in Seq(States)
    /\ waker \in [States -> Clients \cup {None}]
    /\ pending \in [Clients -> States \cup {None}]
    /\ held \in [Clients -> SUBSET Buffers]
    /\ woken \subseteq Clients
    /\ dropped \in BOOLEAN
    /\ disturbed \in BOOLEAN

(* A buffer is in one place only: free once, or owned by one client.  Two  *)
(* owners would let the kernel fill the same registered buffer for both.   *)
Free == {buffers[i] : i \in 1 .. Len(buffers)}

OneOwner ==
    /\ \A i, j \in 1 .. Len(buffers) : buffers[i] = buffers[j] => i = j
    /\ \A c \in Clients : held[c] \cap Free = {}
    /\ \A c, d \in Clients : held[c] \cap held[d] # {} => c = d

(* No buffer is lost: while the allocator lives each is free or owned, so  *)
(* that its Drop, when none is owned, frees them all.                      *)
NoneLost == ~dropped => Buffers = Free \cup UNION {held[c] : c \in Clients}

Waiting == {c \in Clients : pending[c] # None}

(* Drop for FixedBuffer wakes enough: while a client waits unaware, no     *)
(* more buffers are free than clients are on their way to take them.  It   *)
(* holds until a LazyAcquire is dropped while pending or polled without a  *)
(* wake-up: from then on an entry of acquire_queue may stand for nobody    *)
(* and use up the wake-up of a buffer.                                     *)
EnoughWoken ==
    ~disturbed /\ (\E c \in Waiting : c \notin woken) =>
        Len(buffers) <= Cardinality(Waiting \cap woken)

(* The executor polls a client that was woken.                             *)
Fairness == \A c \in Clients : WF_vars(PollWoken(c))

FairSpec == Spec /\ Fairness

(* A free buffer and a waiting client do not stay side by side for ever    *)
(* (again as long as no LazyAcquire is dropped or re-polled).              *)
FreeBuffersAreTaken ==
    (buffers # <<>> /\ Waiting # {}) ~> (buffers = <<>> \/ Waiting = {} \/ disturbed)
=============================================================================
