------------------------------- MODULE Timer --------------------------------
(***************************************************************************)
(* pluvio_timer: the timer reactor, an ordered map from deadlines to       *)
(* wakers with a counter beside it, and the Delay and Timeout futures that *)
(* tasks poll, drop and move.  One thread runs everything; the clock moves *)
(* on between any two of its steps, also inside the poll of a task.        *)
(*                                                                         *)
(* The executor polls the reactor only while status() says Running, and a  *)
(* task only after it was woken (or for a reason of its own).              *)
(***************************************************************************)
EXTENDS Naturals, FiniteSets

CONSTANTS
    Tasks,       \* tasks of the runtime
    MaxFutures,  \* bound: Delay and Timeout futures made in a behaviour
    MaxTime,     \* bound: the clock stops here; every deadline lies before
    Word,        \* 2^w, the range of the usize counter
    None         \* no task

ASSUME TimerAssumption ==
    /\ MaxFutures \in Nat
    /\ MaxTime \in Nat
    /\ Word \in Nat /\ Word > MaxFutures
    /\ None \notin Tasks

(* Futures, in the order they are made; a number is never used again.      *)
Futures == 1 .. MaxFutures

VARIABLES
    now,          \* Instant::now()
    counter,      \* TimerHandle's COUNTER
    timers,       \* the map: records [deadline, id, waker]
    timer_count,  \* timer_count_atomic
    status,       \* of a future: "unborn", "pending", "ready", "err", "dropped"
    deadline,     \* of a future
    handle,       \* timer_handle: the id of its timer, 0 for None
    inner,        \* Timeout only: "none" (a plain Delay), "waiting", "complete"
    owner,        \* the task that polls it
    woken,        \* tasks whose wakers were called since their last poll
    running,      \* the task being polled, or None
    topoll,       \* futures it still has to poll before it may return Pending
    moved         \* history: has the future changed tasks, before or after it
                  \* was armed: "no", "before", "after"

vars == <<now, counter, timers, timer_count, status, deadline, handle, inner, owner, woken,
          running, topoll, moved>>
map == <<counter, timers, timer_count>>
tasks == <<woken, running>>

Init ==
    /\ now = 0
    /\ counter = 1
    /\ timers = {}
    /\ timer_count = 0
    /\ status = [f \in Futures |-> "unborn"]
    /\ deadline = [f \in Futures |-> 0]
    /\ handle = [f \in Futures |-> 0]
    /\ inner = [f \in Futures |-> "none"]
    /\ owner = [f \in Futures |-> None]
    /\ woken = Tasks
    /\ running = None
    /\ topoll = {}
    /\ moved = [f \in Futures |-> "no"]

-----------------------------------------------------------------------------
(* TimerReactor.  (A definition whose name says what is wrong with it is a *)
(* slip that the checks must catch.)                                       *)

register_timer(d, t) ==
    /\ timers' = timers \cup {[deadline |-> d, id |-> counter, waker |-> t]}
    /\ timer_count' = (timer_count + 1) % Word
    /\ counter' = counter + 1

(* The timers found under a handle.                                        *)
Found(h) == {x \in timers : x.id = h}

cancel_timer_always_counted(h) ==
    /\ timers' = timers \ Found(h)
    /\ timer_count' = (timer_count + Word - 1) % Word
    /\ UNCHANGED counter

cancel_timer(h) ==
    /\ timers' = timers \ Found(h)
    /\ timer_count' = (timer_count + Word - Cardinality(Found(h))) % Word
    /\ UNCHANGED counter

(* What wake_expired_timers collects: range(..=max_at(now)).               *)
Expired_rounded_up == {x \in timers : x.deadline <= now + 1}

Expired == {x \in timers : x.deadline <= now}

Running_above_one == timer_count > 1

Running == timer_count > 0

(* Reactor::poll, called by the executor's loop while status() says so.    *)
ReactorPoll ==
    /\ running = None /\ Running
    /\ timers' = timers \ Expired
    /\ timer_count' = (timer_count + Word - Cardinality(Expired)) % Word
    /\ woken' = woken \cup {x.waker : x \in Expired}
    /\ UNCHANGED <<now, counter, status, deadline, handle, inner, owner, running, topoll, moved>>

-----------------------------------------------------------------------------
(* The executor and the clock.                                             *)

Live(f) == status[f] = "pending"

RunTask(t) ==
    /\ running = None /\ t \in woken
    /\ running' = t
    /\ woken' = woken \ {t}
    /\ topoll' = {f \in Futures : Live(f) /\ owner[f] = t}
    /\ UNCHANGED <<now, map, status, deadline, handle, inner, owner, moved>>

(* The task returns Pending, all it awaits having been polled.             *)
Suspend ==
    /\ running # None /\ topoll = {}
    /\ running' = None
    /\ UNCHANGED <<now, map, status, deadline, handle, inner, owner, woken, topoll, moved>>

(* Something else wakes a task: a task is polled more often than its       *)
(* timers ask for.                                                         *)
WakeOtherwise(t) ==
    /\ running = None /\ t \notin woken
    /\ woken' = woken \cup {t}
    /\ UNCHANGED <<now, map, status, deadline, handle, inner, owner, running, topoll, moved>>

Tick ==
    /\ now < MaxTime
    /\ now' = now + 1
    /\ UNCHANGED <<map, status, deadline, handle, inner, owner, tasks, topoll, moved>>

-----------------------------------------------------------------------------
(* Delay and Timeout, used by the running task.                            *)

(* Delay::new and Timeout::new with a duration; the future is awaited.     *)
New(f, duration, i) ==
    /\ running # None /\ status[f] = "unborn" /\ (f > 1 => status[f - 1] # "unborn")
    /\ now + duration <= MaxTime
    /\ status' = [status EXCEPT ![f] = "pending"]
    /\ deadline' = [deadline EXCEPT ![f] = now + duration]
    /\ inner' = [inner EXCEPT ![f] = i]
    /\ owner' = [owner EXCEPT ![f] = running]
    /\ topoll' = topoll \cup {f}
    /\ UNCHANGED <<now, map, handle, tasks, moved>>

(* The last part of Delay::poll: registered once, by the first poll that   *)
(* has to wait, with the waker of that poll.                               *)
Arm(f) ==
    IF handle[f] = 0
    THEN /\ register_timer(deadline[f], running)
         /\ handle' = [handle EXCEPT ![f] = counter]
    ELSE UNCHANGED <<map, handle>>

(* Delay::poll, and Timeout::poll, which polls the wrapped future first.   *)
Poll(f) ==
    /\ f \in topoll
    /\ topoll' = topoll \ {f}
    /\ \/ /\ inner[f] = "complete"
          /\ status' = [status EXCEPT ![f] = "ready"]
          /\ UNCHANGED <<map, handle>>
       \/ /\ inner[f] # "complete" /\ now >= deadline[f]
          /\ status' = [status EXCEPT ![f] = IF inner[f] = "none" THEN "ready" ELSE "err"]
          /\ UNCHANGED <<map, handle>>
       \/ /\ inner[f] # "complete" /\ now < deadline[f]
          /\ Arm(f)
          /\ UNCHANGED status
    /\ UNCHANGED <<now, deadline, inner, owner, tasks, moved>>

(* The future a Timeout wraps (external) completes, and wakes the task     *)
(* that polled it.                                                         *)
InnerCompletes(f) ==
    /\ Live(f) /\ inner[f] = "waiting" /\ running = None
    /\ inner' = [inner EXCEPT ![f] = "complete"]
    /\ woken' = woken \cup {owner[f]}
    /\ UNCHANGED <<now, map, status, deadline, handle, owner, running, topoll, moved>>

(* A future is gone, and its fields with it.                               *)
Gone(f) ==
    /\ status' = [status EXCEPT ![f] = "dropped"]
    /\ deadline' = [deadline EXCEPT ![f] = 0]
    /\ handle' = [handle EXCEPT ![f] = 0]
    /\ inner' = [inner EXCEPT ![f] = "none"]
    /\ owner' = [owner EXCEPT ![f] = None]
    /\ moved' = [moved EXCEPT ![f] = "no"]
    /\ topoll' = topoll \ {f}
    /\ UNCHANGED <<now, tasks>>

(* Drop for Delay (of a Timeout, its delay): finished or not.              *)
Drop_only_pending(f) ==
    /\ running # None /\ owner[f] = running /\ status[f] \in {"pending", "ready", "err"}
    /\ IF handle[f] # 0 /\ Live(f) THEN cancel_timer(handle[f]) ELSE UNCHANGED map
    /\ Gone(f)

Drop(f) ==
    /\ running # None /\ owner[f] = running /\ status[f] \in {"pending", "ready", "err"}
    /\ IF handle[f] # 0 THEN cancel_timer(handle[f]) ELSE UNCHANGED map
    /\ Gone(f)

(* A pending future is handed to another task, which is woken to await it  *)
(* (bound: one future at a time is a moved one, and moves once).           *)
Move(f, t) ==
    /\ running # None /\ owner[f] = running /\ Live(f) /\ t # running
    /\ \A g \in Futures : moved[g] = "no"
    /\ owner' = [owner EXCEPT ![f] = t]
    /\ woken' = woken \cup {t}
    /\ topoll' = topoll \ {f}
    /\ moved' = [moved EXCEPT ![f] = IF handle[f] = 0 THEN "before" ELSE "after"]
    /\ UNCHANGED <<now, map, status, deadline, handle, inner, running>>

Next ==
    \/ ReactorPoll \/ Suspend \/ Tick
    \/ \E t \in Tasks : RunTask(t) \/ WakeOtherwise(t)
    \/ \E f \in Futures :
          \/ \E duration \in 0 .. MaxTime, i \in {"none", "waiting"} : New(f, duration, i)
          \/ Poll(f) \/ InnerCompletes(f) \/ Drop(f)
          \/ \E t \in Tasks : Move(f, t)

Spec == Init /\ [][Next]_vars

-----------------------------------------------------------------------------
(* Types; the counter never wraps below zero.                              *)
TypeOK ==
    /\ now \in 0 .. MaxTime
    /\ counter \in Nat \ {0}
    /\ timers \subseteq [deadline : 0 .. MaxTime, id : 1 .. counter - 1, waker : Tasks]
    /\ timer_count \in 0 .. MaxFutures
    /\ status \in [Futures -> {"unborn", "pending", "ready", "err", "dropped"}]
    /\ deadline \in [Futures -> 0 .. MaxTime]
    /\ handle \in [Futures -> 0 .. counter - 1]
    /\ inner \in [Futures -> {"none", "waiting", "complete"}]
    /\ owner \in [Futures -> Tasks \cup {None}]
    /\ woken \subseteq Tasks
    /\ running \in Tasks \cup {None}
    /\ topoll \subseteq {f \in Futures : Live(f) /\ owner[f] = running}
    /\ moved \in [Futures -> {"no", "before", "after"}]

(* The reactor is one the executor can rely on: status() says Running      *)
(* exactly while the map has a timer, whatever order timers fire, are      *)
(* cancelled and are cancelled after firing in (Stopped with a timer in    *)
(* the map would mean that it never fires), and no timer leaves the map    *)
(* but by waking its task or with its future.                              *)
Contract == INSTANCE Reactor WITH
    Operations <- Futures,
    outstanding <- {[op |-> x.id, task |-> x.waker] : x \in timers},
    futures <- {handle[f] : f \in {g \in Futures : handle[g] # 0}},
    status <- IF Running THEN "Running" ELSE "Stopped",
    awake <- woken

ImplementsReactor == Contract!Spec

(* No timer outlives its future: what is in the map belongs to a future    *)
(* not dropped yet, so that the task ids in the wakers are not stale.      *)
NoTimerLeaked ==
    \A x \in timers : \E f \in Futures :
        handle[f] = x.id /\ deadline[f] = x.deadline

(* A future whose task sleeps is armed with a waker of that task: it was   *)
(* not woken before its deadline and forgotten, since Delay::poll does not *)
(* register twice.  (For the same reason a future that changes tasks after *)
(* it was armed keeps waking the old one, and is excepted.)                *)
SleepersArmed ==
    \A f \in Futures : Live(f) /\ moved[f] # "after" /\ owner[f] \notin woken \cup {running} =>
        [deadline |-> deadline[f], id |-> handle[f], waker |-> owner[f]] \in timers

-----------------------------------------------------------------------------
(* The clock goes on, the executor polls woken tasks, and the reactor      *)
(* while it says Running; the poll of a task ends, all it awaits polled.   *)
Fairness ==
    /\ WF_vars(Tick) /\ SF_vars(ReactorPoll)
    /\ \A t \in Tasks : SF_vars(RunTask(t))
    /\ WF_vars(Suspend \/ \E f \in Futures : Poll(f))

FairSpec == Spec /\ Fairness

(* "A future that resolves after a specified duration" (lib.rs:212): every *)
(* future resolves that is not dropped, or moved with its timer armed.     *)
Resolves == \A f \in Futures : Live(f) ~> (~Live(f) \/ moved[f] = "after")
=============================================================================
