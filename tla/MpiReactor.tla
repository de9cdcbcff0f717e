----------------------------- MODULE MpiReactor -----------------------------
(***************************************************************************)
(* The MPI backend of pluvio_collective: MpiReactor, which tests the       *)
(* requests it was given one after another, and the futures of allreduce,  *)
(* allgather, broadcast and scatter, which are the same machine: start the *)
(* non-blocking MPI call in the first poll, register its request with the  *)
(* waker of that poll, and wait for the slot.                              *)
(*                                                                         *)
(* MPI (external) finishes a request at any moment, also between two tests *)
(* of one poll.  The executor polls the reactor while status() says        *)
(* Running, and a task after it was woken (or for a reason of its own).    *)
(***************************************************************************)
EXTENDS Naturals, Sequences

CONSTANTS
    Tasks,       \* tasks of the runtime
    Callers,     \* bound: the tasks that start collectives; the others get futures from them
    MaxFutures,  \* bound: futures made in a behaviour
    Word,        \* 2^w, the range of the usize counter
    None         \* no task

ASSUME MpiAssumption ==
    /\ MaxFutures \in Nat
    /\ Word \in Nat /\ Word > MaxFutures
    /\ Callers \subseteq Tasks
    /\ None \notin Tasks

(* Futures, in the order they are made; each makes at most one request,    *)
(* which has its number, and so has the CompletionSlot.                    *)
Futures == 1 .. MaxFutures

VARIABLES
    pending,   \* the Vec of PendingReq: [req, waker]
    active,    \* the counter status() reads
    done,      \* CompletionSlot::done; FALSE when the slot is gone
    i,         \* index of poll's loop, from 1; 0 when poll is not running
    complete,  \* requests MPI has finished and not yet reported
    state,     \* of a future: "unborn", "NotStarted", "InFlight", "Done", "dropped"
    output,    \* of a future: "none", "Ok" or "Err"
    owner,     \* the task that polls it
    woken,     \* tasks whose wakers were called since their last poll
    running,   \* the task being polled, or None
    topoll,    \* futures it still has to poll before it may return Pending
    moved,     \* history: was the future handed to another task, before or after
               \* its request was registered: "no", "before", "after"
    due        \* history: requests MPI had finished when this poll began

vars == <<pending, active, done, i, complete, state, output, owner, woken, running, topoll,
          moved, due>>
reactor == <<pending, active, done, i, due>>

Init ==
    /\ pending = <<>>
    /\ active = 0
    /\ done = [f \in Futures |-> FALSE]
    /\ i = 0
    /\ complete = {}
    /\ state = [f \in Futures |-> "unborn"]
    /\ output = [f \in Futures |-> "none"]
    /\ owner = [f \in Futures |-> None]
    /\ woken = Tasks
    /\ running = None
    /\ topoll = {}
    /\ moved = [f \in Futures |-> "no"]
    /\ due = {}

-----------------------------------------------------------------------------
(* MpiReactor.  (A definition whose name says what is wrong with it is a   *)
(* slip that the checks must catch.)                                       *)

Registered == {pending[k].req : k \in DOMAIN pending}

register(req, waker) ==
    /\ pending' = Append(pending, [req |-> req, waker |-> waker])
    /\ active' = (active + 1) % Word

Running_above_one == active > 1

Running == active > 0

StartPoll ==
    /\ running = None /\ i = 0 /\ Running
    /\ i' = 1
    /\ due' = complete \cap Registered
    /\ UNCHANGED <<pending, active, done, complete, state, output, owner, woken, running,
                   topoll, moved>>

(* Vec::swap_remove: the last entry takes the place of the removed one.    *)
swap_remove_losing_last(s, k) == [j \in 1 .. Len(s) - 1 |-> s[j]]

swap_remove(s, k) == [j \in 1 .. Len(s) - 1 |-> IF j = k THEN s[Len(s)] ELSE s[j]]

(* Whether the loop goes on to the next index.                             *)
Advance_always(flag) == TRUE

Advance(flag) == ~flag

(* The counter, when a request has completed.                              *)
Uncounted_forgotten(n) == n

Uncounted(n) == (n + Word - 1) % Word

(* One turn of poll's loop: MPI_Test, and what follows when it reports     *)
(* completion (which frees the request).                                   *)
Test ==
    LET entry == pending[i]
        flag == entry.req \in complete
    IN  /\ i > 0 /\ i <= Len(pending)
        /\ i' = IF Advance(flag) THEN i + 1 ELSE i
        /\ IF flag
           THEN /\ pending' = swap_remove(pending, i)
                /\ done' = [done EXCEPT ![entry.req] = state[entry.req] = "InFlight"]
                /\ complete' = complete \ {entry.req}
                /\ woken' = woken \cup {entry.waker}
                /\ active' = Uncounted(active)
           ELSE UNCHANGED <<pending, done, complete, woken, active>>
        /\ UNCHANGED <<state, output, owner, running, topoll, moved, due>>

EndPoll ==
    /\ i > Len(pending)
    /\ i' = 0
    /\ due' = {}
    /\ UNCHANGED <<pending, active, done, complete, state, output, owner, woken, running,
                   topoll, moved>>

-----------------------------------------------------------------------------
(* MPI and the executor.                                                   *)

(* A request is finished (for a collective: all ranks have joined it).     *)
MpiCompletes(f) ==
    /\ f \in Registered \ complete
    /\ complete' = complete \cup {f}
    /\ UNCHANGED <<reactor, state, output, owner, woken, running, topoll, moved>>

Live(f) == state[f] \in {"NotStarted", "InFlight"} /\ output[f] = "none"

RunTask(t) ==
    /\ running = None /\ i = 0 /\ t \in woken
    /\ running' = t
    /\ woken' = woken \ {t}
    /\ topoll' = {f \in Futures : Live(f) /\ owner[f] = t}
    /\ UNCHANGED <<reactor, complete, state, output, owner, moved>>

(* The task returns Pending, all it awaits having been polled.             *)
Suspend ==
    /\ running # None /\ topoll = {}
    /\ running' = None
    /\ UNCHANGED <<reactor, complete, state, output, owner, woken, topoll, moved>>

WakeOtherwise(t) ==
    /\ running = None /\ i = 0 /\ t \notin woken
    /\ woken' = woken \cup {t}
    /\ UNCHANGED <<reactor, complete, state, output, owner, running, topoll, moved>>

-----------------------------------------------------------------------------
(* The futures, used by the running task, which polls those it awaits in   *)
(* the order they were made.                                               *)

NextToPoll(f) == f \in topoll /\ \A g \in topoll : f <= g

New(f) ==
    /\ running \in Callers /\ state[f] = "unborn" /\ (f > 1 => state[f - 1] # "unborn")
    /\ state' = [state EXCEPT ![f] = "NotStarted"]
    /\ owner' = [owner EXCEPT ![f] = running]
    /\ topoll' = topoll \cup {f}
    /\ UNCHANGED <<reactor, complete, output, woken, running, moved>>

(* The first poll: the MPI call is made, and its request registered.       *)
PollNotStarted(f) ==
    /\ NextToPoll(f) /\ state[f] = "NotStarted"
    /\ topoll' = topoll \ {f}
    /\ register(f, running)
    /\ state' = [state EXCEPT ![f] = "InFlight"]
    /\ UNCHANGED <<done, i, due, complete, output, owner, woken, running, moved>>

(* Buffers of the wrong shape (scatter, allgather) or no buffer at the     *)
(* root, or an MPI call that is refused: the first poll ends the future.   *)
PollRefused(f) ==
    /\ NextToPoll(f) /\ state[f] = "NotStarted"
    /\ topoll' = topoll \ {f}
    /\ output' = [output EXCEPT ![f] = "Err"]
    /\ UNCHANGED <<reactor, complete, state, owner, woken, running, moved>>

(* A later poll looks at the slot, and does not renew the waker.           *)
PollInFlight(f) ==
    /\ NextToPoll(f) /\ state[f] = "InFlight"
    /\ topoll' = topoll \ {f}
    /\ IF done[f]
       THEN /\ state' = [state EXCEPT ![f] = "Done"]
            /\ output' = [output EXCEPT ![f] = "Ok"]
       ELSE UNCHANGED <<state, output>>
    /\ UNCHANGED <<reactor, complete, owner, woken, running, moved>>

(* The future has no Drop: a request in flight stays with the reactor, and *)
(* with MPI, which still has the pointer to the buffer.                    *)
Drop(f) ==
    /\ running # None /\ owner[f] = running /\ state[f] \notin {"unborn", "dropped"}
    /\ state' = [state EXCEPT ![f] = "dropped"]
    /\ output' = [output EXCEPT ![f] = "none"]
    /\ done' = [done EXCEPT ![f] = FALSE]
    /\ owner' = [owner EXCEPT ![f] = None]
    /\ topoll' = topoll \ {f}
    /\ moved' = [moved EXCEPT ![f] = "no"]
    /\ UNCHANGED <<pending, active, i, due, complete, woken, running>>

(* A pending future is handed to another task, which is woken to await it  *)
(* (bound: one future at a time is a moved one, and moves once).           *)
Move(f, t) ==
    /\ running # None /\ owner[f] = running /\ Live(f) /\ t # running
    /\ \A g \in Futures : moved[g] = "no"
    /\ owner' = [owner EXCEPT ![f] = t]
    /\ woken' = woken \cup {t}
    /\ topoll' = topoll \ {f}
    /\ moved' = [moved EXCEPT ![f] = IF state[f] = "InFlight" THEN "after" ELSE "before"]
    /\ UNCHANGED <<reactor, complete, state, output, running>>

Next ==
    \/ StartPoll \/ Test \/ EndPoll \/ Suspend
    \/ \E t \in Tasks : RunTask(t) \/ WakeOtherwise(t)
    \/ \E f \in Futures :
          \/ MpiCompletes(f)
          \/ New(f) \/ PollNotStarted(f) \/ PollRefused(f) \/ PollInFlight(f) \/ Drop(f)
          \/ \E t \in Tasks : Move(f, t)

Spec == Init /\ [][Next]_vars

-----------------------------------------------------------------------------
(* Types; the counter never wraps below zero.                              *)
TypeOK ==
    /\ pending \in Seq([req : Futures, waker : Tasks])
    /\ active \in 0 .. MaxFutures
    /\ done \in [Futures -> BOOLEAN]
    /\ i \in 0 .. MaxFutures + 1
    /\ complete \subseteq Futures
    /\ state \in [Futures -> {"unborn", "NotStarted", "InFlight", "Done", "dropped"}]
    /\ output \in [Futures -> {"none", "Ok", "Err"}]
    /\ owner \in [Futures -> Tasks \cup {None}]
    /\ woken \subseteq Tasks
    /\ running \in Tasks \cup {None}
    /\ topoll \subseteq Futures
    /\ moved \in [Futures -> {"no", "before", "after"}]
    /\ due \subseteq Futures

(* The reactor is one the executor can rely on: the counter says Running   *)
(* exactly while requests are pending, through every swap_remove, and no   *)
(* request leaves without its task being woken.                            *)
Contract == INSTANCE Reactor WITH
    Operations <- Futures,
    outstanding <- {[op |-> pending[k].req, task |-> pending[k].waker] : k \in DOMAIN pending},
    futures <- {f \in Futures : state[f] \in {"InFlight", "Done"}},
    status <- IF Running THEN "Running" ELSE "Stopped",
    awake <- woken

ImplementsReactor == Contract!Spec

(* One poll finds every request that MPI had finished when it began: none  *)
(* is skipped when swap_remove moves the last entry to the current index.  *)
NoneSkipped == [][i > 0 /\ i' = 0 => due \cap Registered = {}]_vars

-----------------------------------------------------------------------------
(* MPI finishes its requests, the executor polls woken tasks, and the      *)
(* reactor while it says Running; both polls end.                          *)
Fairness ==
    /\ \A f \in Futures : WF_vars(MpiCompletes(f))
    /\ SF_vars(StartPoll) /\ WF_vars(Test \/ EndPoll)
    /\ \A t \in Tasks : SF_vars(RunTask(t))
    /\ WF_vars(Suspend \/ \E f \in Futures : PollNotStarted(f) \/ PollRefused(f) \/ PollInFlight(f))

FairSpec == Spec /\ Fairness

(* Every future resolves that is not dropped, or moved with its request in *)
(* flight: the waker of the first poll is the only one ever registered.    *)
Completes == \A f \in Futures : Live(f) ~> (~Live(f) \/ moved[f] = "after")

(* A request whose future was dropped does not keep the runtime spinning:  *)
(* in the end nothing is pending, and status() says Stopped.               *)
Quiesces == <>[](~Running /\ pending = <<>>)
=============================================================================
