------------------------------- MODULE Reactor ------------------------------
(***************************************************************************)
(* What the executor relies on in a reactor that answers status() promptly *)
(* (the module Executor calls it "prompt"; the timer and the MPI reactor   *)
(* are such): it says Running exactly while an operation is outstanding,   *)
(* so that the loop goes on and polls it, and an operation that is no      *)
(* longer outstanding was completed by a poll that woke the task it was    *)
(* started for, or has lost its future.                                    *)
(***************************************************************************)
EXTENDS Naturals

CONSTANTS
    Operations,
    Tasks

VARIABLES
    outstanding,  \* the operations the reactor has: records [op, task]
    futures,      \* the operations whose future exists
    status,       \* what status() answers
    awake         \* the tasks that were woken and not polled since

vars == <<outstanding, futures, status, awake>>

StatusFor(ops) == IF ops = {} THEN "Stopped" ELSE "Running"

Init ==
    /\ outstanding = {}
    /\ futures = {}
    /\ status = "Stopped"
    /\ awake \in SUBSET Tasks

(* A future starts its operation, with the waker of the task polling it.   *)
Start(op, task) ==
    /\ op \notin futures /\ \A x \in outstanding : x.op # op
    /\ outstanding' = outstanding \cup {[op |-> op, task |-> task]}
    /\ futures' = futures \cup {op}
    /\ UNCHANGED awake

(* Reactor::poll, called only when status() said Running.                  *)
Poll(done) ==
    /\ status = "Running"
    /\ outstanding' = outstanding \ done
    /\ awake' = awake \cup {x.task : x \in done}
    /\ UNCHANGED futures

(* The future is dropped; its operation may be cancelled or left.          *)
Drop(op) ==
    /\ op \in futures
    /\ futures' = futures \ {op}
    /\ \/ UNCHANGED outstanding
       \/ outstanding' = {x \in outstanding : x.op # op}
    /\ UNCHANGED awake

(* The executor polls a task, or something else wakes one.                 *)
Schedule ==
    /\ awake' \in SUBSET Tasks
    /\ UNCHANGED <<outstanding, futures>>

Next ==
    /\ \/ \E op \in Operations, task \in Tasks : Start(op, task)
       \/ \E done \in SUBSET outstanding : Poll(done)
       \/ \E op \in Operations : Drop(op)
       \/ Schedule
    /\ status' = StatusFor(outstanding')

Spec == Init /\ [][Next]_vars
=============================================================================
