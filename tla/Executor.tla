------------------------------ MODULE Executor ------------------------------
(***************************************************************************)
(* The single-threaded executor of pluvio_runtime: the slab of tasks, the  *)
(* normal and the polling run queue, wakers, JoinHandles, and the three    *)
(* loops that drive them (run_queue, block_on, progress), with             *)
(* interval-based reactor polling and cached reactor status.               *)
(*                                                                         *)
(* Everything runs on one thread.  What interleaves is: the bodies of the  *)
(* tasks (any future may start an operation, spawn, wait for a JoinHandle, *)
(* wake itself, finish), the moment a reactor finds an operation complete, *)
(* and the calls the program makes on the runtime between loops.           *)
(*                                                                         *)
(* A task is a number 1 .. MaxTasks, given out in spawn order and never    *)
(* reused; the slab key it is stored under is reused, and the key is all   *)
(* that a waker and a run queue know of a task.                            *)
(***************************************************************************)
EXTENDS Naturals, Sequences

CONSTANTS
    Reactors,        \* names under which reactors can be registered
    PollInterval,    \* SchedulingConfig::reactor_poll_interval
    StatusCache,     \* SchedulingConfig::status_cache_iterations
    MaxReactorOnly,  \* PLUVIO_MAX_REACTOR_ONLY, the safety bound
    MaxStuck,        \* PLUVIO_MAX_STUCK_ITERATIONS
    MaxTasks,        \* bound: tasks spawned in a behaviour, of any program
    MaxKeys,         \* bound: tasks in the slab at a time
    Programs         \* what a program may be like: how the status() of a reactor
                     \* answers (see StatusOf) and which reactors it registers,
                     \* bounds on the tasks it spawns and on their operations and
                     \* self-wakes (which a yield uses up or not), its
                     \* SchedulingConfig::task_batch_size and what it gives to
                     \* progress() as max_tasks_per_call

ASSUME ExecutorAssumption ==
    /\ PollInterval \in Nat \ {0}
    /\ StatusCache \in Nat
    /\ MaxReactorOnly \in Nat \ {0}
    /\ MaxStuck \in Nat
    /\ MaxTasks \in Nat
    /\ MaxKeys \in Nat \ {0}
    /\ Programs \subseteq [status : [Reactors -> {"prompt", "gated", "always"}],
                           reactors : SUBSET Reactors, tasks : 0 .. MaxTasks, fuel : Nat,
                           yield_cost : {0, 1}, task_batch_size : Nat \ {0},
                           max_tasks_per_call : Nat]

Tasks == 1 .. MaxTasks
Keys == 0 .. MaxKeys - 1
None == 0                        \* no task; a vacant slab entry

VARIABLES
    (* task_pool: Slab<Option<Task>>                                        *)
    pool,       \* the task in each slab entry, or None (its Option<Task> is
                \* empty exactly while that task is `running')
    free,       \* the slab's free keys; the last one is handed out next
    (* the tasks                                                            *)
    st,         \* "unborn", "live" or "done"
    key,        \* slab key (kept after the task is done: stale wakers use it)
    kind,       \* the queue its wakers send to: "normal" or "polling"
    awaitOps,   \* reactors whose operation the suspended task awaits
    awaitJoin,  \* task whose JoinHandle the suspended task awaits, or None
    joinWaker,  \* SharedState::waker: the task to wake on completion, or None
    result,     \* SharedState::result: "none", "set" or "taken"
    fuel,       \* operations and self-wakes left
    (* run queues and reactors                                              *)
    queue,      \* the two channels of task ids, by kind
    ops,        \* outstanding operations of each reactor, by task
    registered, \* the reactors inserted in the runtime
    cached,     \* ReactorWrapper::cached_status
    valid_for,  \* cache_valid_until_iteration minus the current iteration
    (* the loop                                                             *)
    mode,       \* "none" or the call in progress
    pc,         \* where its loop body stands
    pbuf,       \* what is left of polling_task_buffer in this iteration
    tbuf,       \* what is left of task_buffer in this iteration
    left,       \* tasks progress() may still pop
    todo,       \* reactors still to be looked at in this iteration
    inReactor,  \* the reactor whose poll() is running, in a set
    running,    \* the task whose future is being polled, or None
    iteration,  \* iteration_count, folded (see NextIteration)
    should_poll,
    made_progress,
    completed,     \* task_completed_this_iter
    reactor_only,  \* reactor_only_count
    stuck,         \* stuck_counter
    shutdown,      \* shutdown_requested
    target,        \* task given to the last block_on
    captured,      \* its result_holder is filled
    noHandle,      \* tasks spawned by block_on, which drops the JoinHandle
    exit,          \* how the last call ended
    program,       \* which of the Programs this is
    (* history, read by properties only                                     *)
    starve         \* iterations since a reactor with work was last polled

slab == <<pool, free>>
births == <<st, key, kind>>
awaits == <<awaitOps, awaitJoin, joinWaker, result>>
cache == <<cached, valid_for>>
buffers == <<pbuf, tbuf, left>>
counters == <<iteration, should_poll, reactor_only, stuck>>
blocked == <<target, captured, noHandle>>

vars == <<slab, births, awaits, fuel, queue, ops, registered, cache, mode, pc, buffers,
          todo, inReactor, running, counters, made_progress, completed, shutdown,
          blocked, exit, program, starve>>

-----------------------------------------------------------------------------
Init ==
    /\ program \in Programs
    /\ pool = [k \in Keys |-> None]
    /\ free = [i \in 1 .. MaxKeys |-> MaxKeys - i]
    /\ st = [t \in Tasks |-> "unborn"]
    /\ key = [t \in Tasks |-> 0]
    /\ kind = [t \in Tasks |-> "normal"]
    /\ awaitOps = [t \in Tasks |-> {}]
    /\ awaitJoin = [t \in Tasks |-> None]
    /\ joinWaker = [t \in Tasks |-> None]
    /\ result = [t \in Tasks |-> "none"]
    /\ fuel = program.fuel
    /\ queue = [q \in {"normal", "polling"} |-> <<>>]
    /\ ops = [r \in Reactors |-> {}]
    /\ registered = {}
    /\ cached = [r \in Reactors |-> "Stopped"]
    /\ valid_for = [r \in Reactors |-> 0]
    /\ mode = "none" /\ pc = "idle"
    /\ pbuf = <<>> /\ tbuf = <<>> /\ left = 0
    /\ todo = {} /\ inReactor = {} /\ running = None
    /\ iteration = 0 /\ should_poll = FALSE
    /\ made_progress = FALSE /\ completed = FALSE
    /\ reactor_only = 0 /\ stuck = 0
    /\ shutdown = FALSE
    /\ target = None /\ captured = FALSE /\ noHandle = {}
    /\ exit = "none"
    /\ starve = [r \in Reactors |-> 0]

-----------------------------------------------------------------------------
(* Slab (external): a key freed last is handed out first.  (A definition    *)
(* whose name says what is wrong with it, here and below, is a slip that   *)
(* the checks must catch.)                                                 *)
NextKey == free[Len(free)]

Insert_keeping_key_free(t) ==
    /\ pool' = [pool EXCEPT ![NextKey] = t]
    /\ UNCHANGED free

Insert(t) ==
    /\ pool' = [pool EXCEPT ![NextKey] = t]
    /\ free' = SubSeq(free, 1, Len(free) - 1)

(* Waker::wake sends the task id on the queue the task was spawned to,     *)
(* whether or not that id is already queued or the task still exists.      *)
Wake(t) == [queue EXCEPT ![kind[t]] = Append(@, key[t])]

(* Runtime::spawn*: insert the task, send its key.                         *)
Spawn(t, q) ==
    /\ t <= program.tasks /\ st[t] = "unborn" /\ (t > 1 => st[t - 1] # "unborn")
    /\ free # <<>>
    /\ Insert(t)
    /\ st' = [st EXCEPT ![t] = "live"]
    /\ key' = [key EXCEPT ![t] = NextKey]
    /\ kind' = [kind EXCEPT ![t] = q]
    /\ queue' = [queue EXCEPT ![q] = Append(@, NextKey)]

(* What Reactor::status() may answer.  "prompt": Running exactly while an  *)
(* operation is outstanding (timer, UCX, MPI); "gated": may also answer    *)
(* Stopped then, until a depth or a timeout is reached (io_uring);         *)
(* "always": a reactor that always answers Running.                        *)
StatusOf(r) ==
    CASE program.status[r] = "always" -> {"Running"}
      [] ops[r] = {} /\ program.status[r] # "always" -> {"Stopped"}
      [] ops[r] # {} /\ program.status[r] = "prompt" -> {"Running"}
      [] ops[r] # {} /\ program.status[r] = "gated" -> {"Running", "Stopped"}

-----------------------------------------------------------------------------
(* Calls made while no loop runs.                                          *)

SpawnOutside(t, q) ==
    /\ mode = "none"
    /\ Spawn(t, q)
    /\ UNCHANGED <<awaits, fuel, ops, registered, cache, mode, pc, buffers, todo, inReactor,
                   running, counters, made_progress, completed, shutdown, blocked, exit,
                   starve>>

(* register_reactor, from outside or from the body of a task.              *)
RegisterReactor(r) ==
    /\ mode = "none" \/ running # None
    /\ r \in program.reactors \ registered
    /\ registered' = registered \cup {r}
    /\ cached' = [cached EXCEPT ![r] = "Stopped"]
    /\ valid_for' = [valid_for EXCEPT ![r] = 0]
    /\ UNCHANGED <<slab, births, awaits, fuel, queue, ops, mode, pc, buffers, todo, inReactor,
                   running, counters, made_progress, completed, shutdown, blocked, exit,
                   starve>>

Call(m, loc) ==
    /\ mode = "none"
    /\ mode' = m /\ pc' = loc
    /\ stuck' = 0
    /\ exit' = "none"

CallRunQueue ==
    /\ Call("run_queue", "head")
    /\ UNCHANGED <<slab, births, awaits, fuel, queue, ops, registered, cache, buffers, todo,
                   inReactor, running, iteration, should_poll, reactor_only, made_progress,
                   completed, shutdown, blocked, starve>>

(* block_on: insert and queue the wrapped future, then loop.               *)
CallBlockOn(t) ==
    /\ Call("block_on", "head")
    /\ Spawn(t, "normal")
    /\ target' = t /\ captured' = FALSE
    /\ noHandle' = noHandle \cup {t}
    /\ UNCHANGED <<awaits, fuel, ops, registered, cache, buffers, todo, inReactor, running,
                   iteration, should_poll, reactor_only, made_progress, completed, shutdown,
                   starve>>

(* progress: reactors first, with their status read afresh.                *)
CallProgress ==
    /\ Call("progress", "reactors")
    /\ todo' = registered
    /\ left' = program.max_tasks_per_call
    /\ UNCHANGED <<slab, births, awaits, fuel, queue, ops, registered, cache, pbuf, tbuf,
                   inReactor, running, iteration, should_poll, reactor_only, made_progress,
                   completed, shutdown, blocked, starve>>

-----------------------------------------------------------------------------
(* One iteration of run_queue and block_on.                                *)

Return(how) == mode' = "none" /\ pc' = "idle" /\ exit' = how

(* iteration_count is read as `<= 1', modulo the interval and relative to  *)
(* the cache expiry (valid_for).  Folding it back by one interval keeps    *)
(* all three readings.                                                     *)
NextIteration ==
    IF iteration > PollInterval THEN iteration + 1 - PollInterval ELSE iteration + 1

(* Longest wait for a reactor with an outstanding operation: the cached    *)
(* status has to expire, then an iteration that polls reactors has to      *)
(* come, and the safety bound may skip one of those.                       *)
Latency == (IF StatusCache = 0 THEN 1 ELSE StatusCache) + 2 * PollInterval - 1

(* run_queue skips one round of reactor polling when too many have gone by *)
(* without a completed task.                                               *)
SafetyOverride_one_late == reactor_only > MaxReactorOnly

SafetyOverride == reactor_only >= MaxReactorOnly

ShouldPoll_without_interval(override) ==
    ~override /\ (queue["polling"] # <<>> \/ iteration <= 1)

ShouldPoll(override) ==
    /\ ~override
    /\ \/ queue["polling"] # <<>>
       \/ iteration <= 1
       \/ iteration % PollInterval = 0

(* The cached status of r is one iteration closer to its expiry.           *)
Aged_never(r) == valid_for[r]

Aged(r) == IF valid_for[r] = 0 THEN 0 ELSE valid_for[r] - 1

(* The polling queue is drained, then it is decided whether this iteration *)
(* polls reactors.                                                         *)
StartIteration(override) ==
    LET poll == ShouldPoll(override)
    IN  /\ pc' = "reactors"
        /\ iteration' = NextIteration
        /\ valid_for' = [r \in Reactors |-> Aged(r)]
        /\ pbuf' = queue["polling"]
        /\ queue' = [queue EXCEPT !["polling"] = <<>>]
        /\ should_poll' = poll
        /\ todo' = IF poll THEN registered ELSE {}
        /\ made_progress' = FALSE
        /\ completed' = FALSE
        /\ starve' = [r \in Reactors |->
                         IF ops[r] = {} THEN 0
                         ELSE IF starve[r] > Latency THEN starve[r] ELSE starve[r] + 1]
        /\ UNCHANGED <<slab, births, awaits, fuel, ops, registered, cached, mode, tbuf, left,
                       inReactor, running, stuck, shutdown, blocked, exit>>

Exits(how) ==
    /\ Return(how)
    /\ UNCHANGED <<slab, births, awaits, fuel, queue, ops, registered, cache, buffers, todo,
                   inReactor, running, counters, made_progress, completed, shutdown,
                   blocked, starve>>

RunQueueHead ==
    /\ mode = "run_queue" /\ pc = "head"
    /\ \/ /\ \A k \in Keys : pool[k] = None
          /\ Exits("empty")
       \/ /\ \E k \in Keys : pool[k] # None
          /\ shutdown
          /\ Exits("shutdown")
       \/ /\ \E k \in Keys : pool[k] # None
          /\ ~shutdown
          /\ SafetyOverride
          /\ reactor_only' = 0
          /\ StartIteration(TRUE)
       \/ /\ \E k \in Keys : pool[k] # None
          /\ ~shutdown
          /\ ~SafetyOverride
          /\ StartIteration(FALSE)
          /\ UNCHANGED reactor_only

(* block_on returns when the slab no longer contains the key it was given; *)
(* its expect() panics if the result is missing then.                      *)
BlockOnHead ==
    /\ mode = "block_on" /\ pc = "head"
    /\ \/ /\ pool[key[target]] = None
          /\ Exits(IF captured THEN "returned" ELSE "result missing")
       \/ /\ pool[key[target]] # None
          /\ StartIteration(FALSE)
          /\ UNCHANGED reactor_only

(* get_cached_reactor_status and the poll of one reactor; the HashMap      *)
(* gives the reactors in any order.                                        *)
PollReactor(r) ==
    /\ pc = "reactors" /\ inReactor = {} /\ r \in todo
    /\ todo' = todo \ {r}
    /\ \E status \in {"Running", "Stopped"} :
          /\ IF mode # "progress" /\ valid_for[r] > 0
             THEN status = cached[r] /\ UNCHANGED cache
             ELSE /\ status \in StatusOf(r)
                  /\ IF mode = "progress" THEN UNCHANGED cache
                     ELSE /\ cached' = [cached EXCEPT ![r] = status]
                          /\ valid_for' = [valid_for EXCEPT ![r] = StatusCache]
          /\ IF status = "Running"
             THEN /\ inReactor' = {r}
                  /\ made_progress' = TRUE
                  /\ starve' = [starve EXCEPT ![r] = 0]
             ELSE UNCHANGED <<inReactor, made_progress, starve>>
    /\ UNCHANGED <<slab, births, awaits, fuel, queue, ops, registered, mode, pc, buffers,
                   running, counters, completed, shutdown, blocked, exit>>

(* Inside Reactor::poll (external): an operation found complete wakes the  *)
(* waker it was started with.                                              *)
FireOp(r, t) ==
    /\ inReactor = {r} /\ t \in ops[r]
    /\ ops' = [ops EXCEPT ![r] = @ \ {t}]
    /\ queue' = Wake(t)
    /\ UNCHANGED <<slab, births, awaits, fuel, registered, cache, mode, pc, buffers, todo,
                   inReactor, running, counters, made_progress, completed, shutdown,
                   blocked, exit, program, starve>>

ReactorReturns ==
    /\ inReactor # {}
    /\ inReactor' = {}
    /\ UNCHANGED <<slab, births, awaits, fuel, queue, ops, registered, cache, mode, pc,
                   buffers, todo, running, counters, made_progress, completed, shutdown,
                   blocked, exit, starve>>

(* All reactors seen; progress() drains the polling queue only now.        *)
ReactorsDone ==
    /\ pc = "reactors" /\ todo = {} /\ inReactor = {}
    /\ pc' = "ptasks"
    /\ IF mode = "progress"
       THEN /\ pbuf' = queue["polling"]
            /\ queue' = [queue EXCEPT !["polling"] = <<>>]
       ELSE UNCHANGED <<pbuf, queue>>
    /\ UNCHANGED <<slab, births, awaits, fuel, ops, registered, cache, mode, tbuf, left, todo,
                   inReactor, running, counters, made_progress, completed, shutdown,
                   blocked, exit, starve>>

-----------------------------------------------------------------------------
(* Polling tasks.  The buffer being walked depends on the phase.           *)

Buffer == IF pc = "ptasks" THEN pbuf ELSE tbuf

PopBuffer ==
    /\ pc \in {"ptasks", "ttasks"} /\ running = None /\ Buffer # <<>>
    /\ pbuf' = IF pc = "ptasks" THEN Tail(pbuf) ELSE pbuf
    /\ tbuf' = IF pc = "ptasks" THEN tbuf ELSE Tail(tbuf)

(* A suspended future can go on: it awaits nothing (it woke itself), or    *)
(* one of the things it awaits has happened.                               *)
OpFired(t) == \E r \in awaitOps[t] : t \notin ops[r]
JoinReady(t) == awaitJoin[t] # None /\ result[awaitJoin[t]] = "set"
Resumable(t) ==
    \/ awaitOps[t] = {} /\ awaitJoin[t] = None
    \/ OpFired(t)
    \/ JoinReady(t)

(* poll_task on a key whose task is gone.                                  *)
PollVacant ==
    /\ PopBuffer
    /\ pool[Head(Buffer)] = None
    /\ UNCHANGED <<slab, births, awaits, fuel, queue, ops, registered, cache, mode, pc, left,
                   todo, inReactor, running, counters, made_progress, completed, shutdown,
                   blocked, exit, starve>>

(* poll_task on a task that still has to wait: Pending at once, after      *)
(* JoinHandle::poll has stored the waker again.                            *)
PollPending ==
    /\ PopBuffer
    /\ \E t \in Tasks :
          /\ pool[Head(Buffer)] = t
          /\ ~Resumable(t)
          /\ joinWaker' = IF awaitJoin[t] = None THEN joinWaker
                          ELSE [joinWaker EXCEPT ![awaitJoin[t]] = t]
    /\ UNCHANGED <<slab, births, awaitOps, awaitJoin, result, fuel, queue, ops, registered,
                   cache, mode, pc, left, todo, inReactor, running, counters, made_progress,
                   completed, shutdown, blocked, exit, starve>>

(* poll_task on a task that can go on: its body runs until it returns.     *)
(* The result of a finished JoinHandle is taken; operations that lost a    *)
(* select stay with their reactor.                                         *)
PollResume ==
    /\ PopBuffer
    /\ \E t \in Tasks :
          /\ pool[Head(Buffer)] = t
          /\ Resumable(t)
          /\ running' = t
          /\ awaitOps' = [awaitOps EXCEPT ![t] = {}]
          /\ awaitJoin' = [awaitJoin EXCEPT ![t] = None]
          /\ result' = IF JoinReady(t) THEN [result EXCEPT ![awaitJoin[t]] = "taken"]
                       ELSE result
    /\ UNCHANGED <<slab, births, joinWaker, fuel, queue, ops, registered, cache, mode, pc,
                   left, todo, inReactor, counters, made_progress, completed, shutdown,
                   blocked, exit, starve>>

-----------------------------------------------------------------------------
(* The body of a task (external): what any future may do while polled.     *)

TaskSpawns(t, q) ==
    /\ running # None
    /\ Spawn(t, q)
    /\ UNCHANGED <<awaits, fuel, ops, registered, cache, mode, pc, buffers, todo, inReactor,
                   running, counters, made_progress, completed, shutdown, blocked, exit,
                   starve>>

TaskStartsOp(r) ==
    /\ running # None /\ fuel > 0
    /\ r \in registered /\ running \notin ops[r]
    /\ ops' = [ops EXCEPT ![r] = @ \cup {running}]
    /\ fuel' = fuel - 1
    /\ UNCHANGED <<slab, births, awaits, queue, registered, cache, mode, pc, buffers, todo,
                   inReactor, running, counters, made_progress, completed, shutdown,
                   blocked, exit, starve>>

TaskRequestsShutdown ==
    /\ running # None /\ ~shutdown
    /\ shutdown' = TRUE
    /\ UNCHANGED <<slab, births, awaits, fuel, queue, ops, registered, cache, mode, pc,
                   buffers, todo, inReactor, running, counters, made_progress, completed,
                   blocked, exit, starve>>

(* Return Pending after waking itself, once or (two clones of the waker)   *)
(* twice: a cooperative yield.                                             *)
TaskYields(n) ==
    /\ running # None /\ fuel >= n - 1 + program.yield_cost
    /\ fuel' = fuel - (n - 1 + program.yield_cost)
    /\ queue' = [queue EXCEPT ![kind[running]] = @ \o [i \in 1 .. n |-> key[running]]]
    /\ running' = None
    /\ UNCHANGED <<slab, births, awaits, ops, registered, cache, mode, pc, buffers, todo,
                   inReactor, counters, made_progress, completed, shutdown, blocked, exit,
                   starve>>

(* A JoinHandle has one owner, which may be any task.                      *)
Joinable(t) ==
    {u \in Tasks : st[u] = "live" /\ joinWaker[u] \in {None, t} /\ u \notin noHandle}

(* Return Pending while awaiting operations started earlier, a JoinHandle, *)
(* or whichever comes first (Select2).                                     *)
TaskAwaits(rs, u) ==
    /\ running # None
    /\ rs \subseteq {r \in Reactors : running \in ops[r]}
    /\ u \in Joinable(running) \cup {None}
    /\ rs # {} \/ u # None
    /\ awaitOps' = [awaitOps EXCEPT ![running] = rs]
    /\ awaitJoin' = [awaitJoin EXCEPT ![running] = u]
    /\ joinWaker' = IF u = None THEN joinWaker ELSE [joinWaker EXCEPT ![u] = running]
    /\ running' = None
    /\ UNCHANGED <<slab, births, result, fuel, queue, ops, registered, cache, mode, pc,
                   buffers, todo, inReactor, counters, made_progress, completed, shutdown,
                   blocked, exit, starve>>

(* At the end of create_task_and_handle's wrapped future the waker stored   *)
(* by the JoinHandle, if any, is taken and woken.                          *)
WakeJoiner_omitted == queue

WakeJoiner == IF joinWaker[running] = None THEN queue ELSE Wake(joinWaker[running])

(* The result_holder of block_on is filled by its own future only.         *)
Captured_lost == captured

Captured == captured \/ running = target

(* The future returns Ready: the result is stored, the waiting JoinHandle  *)
(* is woken, block_on's holder is filled, and the loop removes the task    *)
(* from the slab.  Only the walk of task_buffer sets                       *)
(* task_completed_this_iter.                                               *)
TaskFinishes ==
    /\ running # None
    /\ result' = [result EXCEPT ![running] = "set"]
    /\ queue' = WakeJoiner
    /\ joinWaker' = [joinWaker EXCEPT ![running] = None]
    /\ captured' = Captured
    /\ pool' = [pool EXCEPT ![key[running]] = None]
    /\ free' = Append(free, key[running])
    /\ st' = [st EXCEPT ![running] = "done"]
    /\ made_progress' = TRUE
    /\ completed' = (completed \/ pc = "ttasks")
    /\ running' = None
    /\ UNCHANGED <<key, kind, awaitOps, awaitJoin, fuel, ops, registered, cache, mode, pc,
                   buffers, todo, inReactor, counters, shutdown, target, noHandle, exit,
                   starve>>

-----------------------------------------------------------------------------
Least(a, b) == IF a < b THEN a ELSE b

(* The polling tasks are done: take a batch, the oldest first, from the    *)
(* normal queue.                                                           *)
BatchLen == Least(program.task_batch_size, Len(queue["normal"]))

Batch_newest == <<SubSeq(queue["normal"], Len(queue["normal"]) - BatchLen + 1,
                         Len(queue["normal"])),
                  SubSeq(queue["normal"], 1, Len(queue["normal"]) - BatchLen)>>

Batch == <<SubSeq(queue["normal"], 1, BatchLen),
           SubSeq(queue["normal"], BatchLen + 1, Len(queue["normal"]))>>

DrainTasks ==
    /\ mode \in {"run_queue", "block_on"}
    /\ pc = "ptasks" /\ pbuf = <<>> /\ running = None
    /\ pc' = "ttasks"
    /\ tbuf' = Batch[1]
    /\ queue' = [queue EXCEPT !["normal"] = Batch[2]]
    /\ UNCHANGED <<slab, births, awaits, fuel, ops, registered, cache, mode, pbuf, left, todo,
                   inReactor, running, counters, made_progress, completed, shutdown,
                   blocked, exit, starve>>

(* progress() pops the normal queue one task at a time instead.            *)
ProgressPops ==
    /\ mode = "progress"
    /\ \/ pc = "ptasks" /\ pbuf = <<>>
       \/ pc = "ttasks" /\ tbuf = <<>>
    /\ running = None
    /\ IF left = 0 \/ queue["normal"] = <<>>
       THEN Return("returned") /\ UNCHANGED <<tbuf, queue, left>>
       ELSE /\ pc' = "ttasks"
            /\ tbuf' = <<Head(queue["normal"])>>
            /\ queue' = [queue EXCEPT !["normal"] = Tail(@)]
            /\ left' = left - 1
            /\ UNCHANGED <<mode, exit>>
    /\ UNCHANGED <<slab, births, awaits, fuel, ops, registered, cache, pbuf, todo, inReactor,
                   running, counters, made_progress, completed, shutdown, blocked, starve>>

(* End of an iteration: the safety-bound counter (run_queue only) and the  *)
(* stuck counter, whose overflow breaks out of run_queue and panics in     *)
(* block_on.                                                               *)
EndIteration ==
    /\ mode \in {"run_queue", "block_on"}
    /\ pc = "ttasks" /\ tbuf = <<>> /\ running = None
    /\ reactor_only' = IF mode = "block_on" THEN reactor_only
                       ELSE IF completed THEN 0
                       ELSE IF should_poll THEN reactor_only + 1 ELSE reactor_only
    /\ stuck' = IF made_progress THEN 0 ELSE stuck + 1
    /\ IF stuck' > MaxStuck
       THEN Return(IF mode = "run_queue" THEN "stuck" ELSE "deadlock detected")
       ELSE pc' = "head" /\ UNCHANGED <<mode, exit>>
    /\ UNCHANGED <<slab, births, awaits, fuel, queue, ops, registered, cache, buffers, todo,
                   inReactor, running, iteration, should_poll, made_progress, completed,
                   shutdown, blocked, starve>>

-----------------------------------------------------------------------------
Kinds == {"normal", "polling"}

(* The runtime's own steps, and the body of the task being polled.         *)
Loop ==
    /\ \/ RunQueueHead \/ BlockOnHead
       \/ \E r \in Reactors : PollReactor(r)
       \/ ReactorReturns \/ ReactorsDone
       \/ PollVacant \/ PollPending \/ PollResume
       \/ DrainTasks \/ ProgressPops \/ EndIteration
    /\ UNCHANGED program

Body ==
    /\ \/ \E t \in Tasks, q \in Kinds : TaskSpawns(t, q)
       \/ \E r \in Reactors : TaskStartsOp(r)
       \/ TaskRequestsShutdown
       \/ \E n \in 1 .. 2 : TaskYields(n)
       \/ \E rs \in SUBSET Reactors, u \in Tasks \cup {None} : TaskAwaits(rs, u)
       \/ TaskFinishes
    /\ UNCHANGED program

Driver ==
    /\ \/ \E t \in Tasks, q \in Kinds : SpawnOutside(t, q)
       \/ \E r \in Reactors : RegisterReactor(r)
       \/ CallRunQueue
       \/ \E t \in Tasks : CallBlockOn(t)
       \/ CallProgress
    /\ UNCHANGED program

Next == Loop \/ Body \/ Driver \/ \E r \in Reactors, t \in Tasks : FireOp(r, t)

Spec == Init /\ [][Next]_vars

-----------------------------------------------------------------------------
InSeq(k, s) == \E i \in 1 .. Len(s) : s[i] = k

(* The key of t is in a run queue or in a buffer being walked.             *)
Queued(t) ==
    \/ InSeq(key[t], queue["normal"]) \/ InSeq(key[t], queue["polling"])
    \/ InSeq(key[t], pbuf) \/ InSeq(key[t], tbuf)

TasksTyped ==
    /\ pool \in [Keys -> Tasks \cup {None}]
    /\ free \in Seq(Keys)
    /\ st \in [Tasks -> {"unborn", "live", "done"}]
    /\ key \in [Tasks -> Keys]
    /\ kind \in [Tasks -> Kinds]
    /\ running \in Tasks \cup {None}

WaitsTyped ==
    /\ awaitOps \in [Tasks -> SUBSET Reactors]
    /\ awaitJoin \in [Tasks -> Tasks \cup {None}]
    /\ joinWaker \in [Tasks -> Tasks \cup {None}]
    /\ result \in [Tasks -> {"none", "set", "taken"}]
    /\ ops \in [Reactors -> SUBSET Tasks]
    /\ fuel \in Nat
    /\ program \in Programs

QueuesTyped ==
    /\ queue \in [Kinds -> Seq(Keys)]
    /\ pbuf \in Seq(Keys)
    /\ tbuf \in Seq(Keys)
    /\ left \in Nat

ReactorsTyped ==
    /\ registered \subseteq Reactors
    /\ todo \subseteq Reactors
    /\ inReactor \subseteq Reactors
    /\ cached \in [Reactors -> {"Running", "Stopped"}]
    /\ valid_for \in [Reactors -> Nat]
    /\ starve \in [Reactors -> Nat]

CountersTyped ==
    /\ iteration \in 0 .. PollInterval + 1
    /\ reactor_only \in 0 .. MaxReactorOnly
    /\ stuck \in 0 .. MaxStuck + 1

LoopTyped ==
    /\ mode \in {"none", "run_queue", "block_on", "progress"}
    /\ pc \in {"idle", "head", "reactors", "ptasks", "ttasks"}
    /\ exit \in {"none", "empty", "shutdown", "returned", "result missing", "stuck",
                 "deadlock detected"}
    /\ target \in Tasks \cup {None}
    /\ noHandle \subseteq Tasks

FlagsTyped ==
    /\ should_poll \in BOOLEAN
    /\ made_progress \in BOOLEAN
    /\ completed \in BOOLEAN
    /\ shutdown \in BOOLEAN
    /\ captured \in BOOLEAN

(* Types and bounds of the state; the safety bound and the stuck detector  *)
(* never count further than they should.                                   *)
TypeOK ==
    /\ TasksTyped /\ WaitsTyped /\ QueuesTyped /\ ReactorsTyped
    /\ CountersTyped /\ LoopTyped /\ FlagsTyped

(* The slab and the tasks agree through every reuse of a key: an occupied  *)
(* entry holds a live task that knows its key, every live task has its     *)
(* entry, and the free list holds each vacant key once.                    *)
SlabConsistent ==
    /\ \A k \in Keys : pool[k] # None => st[pool[k]] = "live" /\ key[pool[k]] = k
    /\ \A t \in Tasks : st[t] = "live" => pool[key[t]] = t
    /\ running # None => st[running] = "live"
    /\ \A i \in 1 .. Len(free) : pool[free[i]] = None
    /\ \A i, j \in 1 .. Len(free) : free[i] = free[j] => i = j

(* No wake-up is lost: a live task that is not being polled either has its *)
(* key queued, or still has to wait and is armed, which for a JoinHandle   *)
(* means that the task it waits for lives and holds its waker.  A suspended*)
(* future that could go on and is in no queue would hang for ever.         *)
NoLostWakeup ==
    \A t \in Tasks : st[t] = "live" /\ running # t =>
        \/ Queued(t)
        \/ /\ ~Resumable(t)
           /\ awaitJoin[t] # None => /\ st[awaitJoin[t]] = "live"
                                     /\ joinWaker[awaitJoin[t]] = t

(* block_on never reaches expect("Task completed but result was not set"): *)
(* the key it watches leaves the slab only after its own future stored its *)
(* result, even when the key is reused.                                    *)
BlockOnHasResult == exit # "result missing"

(* A registered reactor that reports Running while an operation is         *)
(* outstanding is polled within Latency iterations of either loop, in      *)
(* spite of the cached status, the polling interval and the safety bound.  *)
ReactorPolledInTime ==
    \A r \in registered : program.status[r] = "prompt" => starve[r] <= Latency

-----------------------------------------------------------------------------
(* The loop keeps running while it has been called, a future returns from  *)
(* its poll, and an operation whose reactor is polled over and over is     *)
(* found complete some day.                                                *)
Fairness ==
    /\ WF_vars(Loop)
    /\ WF_vars(Body)
    /\ \A r \in Reactors, t \in Tasks : SF_vars(FireOp(r, t))

FairSpec == Spec /\ Fairness

(* Starvation freedom: while a loop runs, a task that can go on is polled, *)
(* whatever the others do (endless yields included).                       *)
StarvationFree ==
    \A t \in Tasks : (st[t] = "live" /\ Resumable(t) /\ mode # "none")
                        ~> (running = t \/ mode = "none")

(* Yields are bounded, so that no task wakes itself for ever, and reactors *)
(* own up to their operations.  (How long one that does not may hide them  *)
(* before the stuck counter runs out is a matter of clocks.)               *)
TasksEnd ==
    program.yield_cost = 1 /\ \A r \in Reactors : program.status[r] # "gated"

(* The tasks that wait for each other's JoinHandles and nothing else, in a *)
(* circle or behind one: a deadlock of the program's own making.           *)
Hung == UNION {S \in SUBSET Tasks : \A t \in S : /\ st[t] = "live"
                                               /\ awaitOps[t] = {}
                                               /\ awaitJoin[t] \in S}

(* A task the loop has to see finished before it can return.               *)
Needed(t) ==
    \/ mode = "run_queue"
    \/ mode = "block_on" /\ pool[key[target]] = t

(* The loops end as they should when tasks do: run_queue with the slab     *)
(* empty (unless shut down), block_on with its result.  Neither mistakes   *)
(* waiting for being stuck, whether futures await operations (however long *)
(* the cached status hides them), other tasks or themselves; only tasks    *)
(* that wait for each other in a circle hold them up.  (All tasks end, so  *)
(* does one that block_on waits for against its documentation, see         *)
(* BlockOnIndependent.)                                                    *)
CallsComplete ==
    (TasksEnd /\ mode \in {"run_queue", "block_on"})
        ~> \/ mode = "none" /\ exit \in {"empty", "shutdown", "returned"}
           \/ \E t \in Hung : Needed(t)

(* What the documentation of block_on says: "Other background tasks        *)
(* continue running but don't block this call" (executor/mod.rs:572).      *)
(* Once its own future is finished, it returns, whatever the others do     *)
(* short of waiting in a circle.  It does not: it tests whether the slab   *)
(* contains its key (653), which another task may have been given since.   *)
BlockOnIndependent ==
    (mode = "block_on" /\ captured)
        ~> \/ mode = "none" /\ exit = "returned"
           \/ Hung # {}
=============================================================================
