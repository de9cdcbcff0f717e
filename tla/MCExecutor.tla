----------------------------- MODULE MCExecutor -----------------------------
(* Small instances of the executor for TLC.                                *)
EXTENDS Executor

Program(k, rs, n, f, y, b, c) ==
    [status |-> [r \in Reactors |-> k], reactors |-> rs, tasks |-> n, fuel |-> f,
     yield_cost |-> y, task_batch_size |-> b, max_tasks_per_call |-> c]

(* Two tasks with an operation or yield; tasks that only spawn and join    *)
(* each other, enough of them to reuse a key, and run by progress too; a   *)
(* task with an operation that its reactor may hide; and tasks that may    *)
(* yield for ever, with a reactor that always says Running.                *)
Mixed ==
    {Program("prompt", Reactors, 2, 1, 1, 2, 0), Program("prompt", {}, 3, 0, 1, 2, 1),
     Program("gated", Reactors, 1, 1, 1, 1, 1), Program("always", Reactors, 2, 0, 0, 1, 0)}

(* Tasks that may yield for ever (once by waking themselves twice), and    *)
(* reuse a key.                                                            *)
Reusing == {Program("prompt", {}, 3, 1, 0, 2, 0)}
=============================================================================
