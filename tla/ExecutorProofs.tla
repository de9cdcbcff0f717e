--------------------------- MODULE ExecutorProofs ---------------------------
(***************************************************************************)
(* The executor loses no wake-up and lets no reactor wait too long, for    *)
(* any number of tasks, slab keys, reactors and any scheduling             *)
(* configuration.                                                          *)
(***************************************************************************)
EXTENDS Executor, SequenceTheorems, TLAPS

(* Where the loop stands decides which buffers can hold keys: a buffer is  *)
(* overwritten only when it is empty.                                      *)
Phases ==
    /\ mode = "none" <=> pc = "idle"
    /\ pc \in {"idle", "head", "ttasks"} => pbuf = <<>>
    /\ mode = "progress" => pc # "head" /\ (pc = "reactors" => pbuf = <<>>)
    /\ pc # "ttasks" => tbuf = <<>>

(* The counters are below their bound where the loop may still count.      *)
Bounds ==
    /\ mode = "run_queue" /\ pc # "head" => reactor_only < MaxReactorOnly
    /\ mode \in {"run_queue", "block_on"} => stuck <= MaxStuck

(* A task that waits for a JoinHandle is alone in doing so, and either the *)
(* other task lives and holds its waker, or the result is there.           *)
Joins ==
    /\ \A t \in Tasks : st[t] # "done" => result[t] = "none"
    /\ \A t \in Tasks : awaitJoin[t] # None =>
          /\ t # running /\ st[t] = "live"
          /\ \/ st[awaitJoin[t]] = "live" /\ joinWaker[awaitJoin[t]] = t
             \/ st[awaitJoin[t]] = "done" /\ result[awaitJoin[t]] = "set"
    /\ \A t, u \in Tasks : awaitJoin[t] # None /\ awaitJoin[t] = awaitJoin[u] => t = u

(* The future given to block_on fills the holder when it completes.        *)
Watched ==
    /\ mode = "block_on" => target # None
    /\ target # None => st[target] # "unborn" /\ (st[target] = "done" => captured)
    /\ exit # "result missing"

-----------------------------------------------------------------------------
(* Everything in the invariant but NoLostWakeup holds initially.           *)
LEMMA InitOK ==
    Init => TypeOK /\ SlabConsistent /\ Phases /\ Bounds /\ Joins /\ Watched
  <1> SUFFICES ASSUME Init
               PROVE  TypeOK /\ SlabConsistent /\ Phases /\ Bounds /\ Joins /\ Watched
    OBVIOUS
  <1> USE ExecutorAssumption DEF Init, None
  <1>1. free \in Seq(Keys) /\ Len(free) = MaxKeys
    <2>1. free \in [1 .. MaxKeys -> Keys]
      BY DEF Keys
    <2>2. free \in Seq(Keys)
      BY <2>1, SeqDef
    <2> QED
      BY <2>1, <2>2, LenProperties
  <1>2. TypeOK
    <2>1. TasksTyped
      BY <1>1 DEF TasksTyped, Keys, Kinds
    <2>2. WaitsTyped
      BY DEF WaitsTyped
    <2>3. QueuesTyped
      BY DEF QueuesTyped, Kinds
    <2>4. ReactorsTyped /\ CountersTyped
      BY DEF ReactorsTyped, CountersTyped
    <2>5. LoopTyped /\ FlagsTyped
      BY DEF LoopTyped, FlagsTyped
    <2> QED
      BY <2>1, <2>2, <2>3, <2>4, <2>5 DEF TypeOK
  <1>3. SlabConsistent
    BY <1>1 DEF SlabConsistent, Keys, Tasks
  <1>4. Phases /\ Bounds
    BY DEF Phases, Bounds
  <1>5. Joins
    BY DEF Joins
  <1>6. Watched
    BY DEF Watched
  <1> QED
    BY <1>2, <1>3, <1>4, <1>5, <1>6

(* The key the slab hands out next is vacant.                              *)
LEMMA NextKeyFree ==
    TasksTyped /\ SlabConsistent /\ free # <<>> => NextKey \in Keys /\ pool[NextKey] = None
  BY DEF TasksTyped, SlabConsistent, NextKey
-----------------------------------------------------------------------------
(* Frames: which actions touch which part of the state.                    *)

(* The slab, the tasks and the one running.                                *)
LEMMA TasksFrame ==
    Next => \/ UNCHANGED <<slab, births, running>>
            \/ UNCHANGED running /\ \E t \in Tasks, q \in Kinds : Spawn(t, q)
            \/ PollResume
            \/ \E n \in 1 .. 2 : TaskYields(n)
            \/ \E rs \in SUBSET Reactors, u \in Tasks \cup {None} : TaskAwaits(rs, u)
            \/ TaskFinishes
  BY DEF Next, Loop, Body, Driver, Kinds, RunQueueHead, BlockOnHead, PollReactor,
         ReactorReturns, ReactorsDone, PollVacant, PollPending, DrainTasks,
         ProgressPops, EndIteration, TaskSpawns, TaskStartsOp, TaskRequestsShutdown,
         SpawnOutside, RegisterReactor, CallRunQueue, CallBlockOn, CallProgress,
         FireOp, StartIteration, Exits

(* What tasks wait for.                                                    *)
LEMMA WaitsFrame ==
    Next => \/ UNCHANGED <<awaits, ops, fuel>>
            \/ PollPending
            \/ PollResume
            \/ \E r \in Reactors : TaskStartsOp(r)
            \/ \E n \in 1 .. 2 : TaskYields(n)
            \/ \E rs \in SUBSET Reactors, u \in Tasks \cup {None} : TaskAwaits(rs, u)
            \/ TaskFinishes
            \/ \E r \in Reactors, t \in Tasks : FireOp(r, t)
  BY DEF Next, Loop, Body, Driver, Kinds, RunQueueHead, BlockOnHead, PollReactor,
         ReactorReturns, ReactorsDone, PollVacant, DrainTasks, ProgressPops,
         EndIteration, TaskSpawns, TaskRequestsShutdown, SpawnOutside,
         RegisterReactor, CallRunQueue, CallBlockOn, CallProgress, StartIteration,
         Exits

(* The run queues and the buffers.                                         *)
LEMMA QueuesFrame ==
    Next => \/ UNCHANGED <<queue, buffers>>
            \/ UNCHANGED buffers /\ \E t \in Tasks, q \in Kinds : Spawn(t, q)
            \/ PollVacant \/ PollPending \/ PollResume
            \/ RunQueueHead \/ BlockOnHead \/ ReactorsDone
            \/ \E n \in 1 .. 2 : TaskYields(n)
            \/ TaskFinishes
            \/ \E r \in Reactors, t \in Tasks : FireOp(r, t)
            \/ DrainTasks
            \/ ProgressPops
            \/ CallProgress
  BY DEF Next, Loop, Body, Driver, Kinds, PollReactor, ReactorReturns, EndIteration,
         TaskSpawns, TaskStartsOp, TaskRequestsShutdown, TaskAwaits, SpawnOutside,
         RegisterReactor, CallRunQueue, CallBlockOn, buffers

(* Draining the polling queue: its buffer is free for it then.             *)
LEMMA DrainPolling ==
    RunQueueHead \/ BlockOnHead \/ ReactorsDone =>
        \/ UNCHANGED <<queue, buffers>>
        \/ /\ pc \in {"head", "reactors"} /\ (pc = "reactors" => mode = "progress")
           /\ UNCHANGED <<tbuf, left>> /\ pbuf' = queue["polling"]
           /\ queue' = [queue EXCEPT !["polling"] = <<>>]
  BY DEF RunQueueHead, BlockOnHead, ReactorsDone, StartIteration, Exits, buffers

(* The reactors, their cached status and their starvation counts.          *)
LEMMA ReactorsFrame ==
    Next => \/ UNCHANGED <<registered, todo, inReactor, cache, starve>>
            \/ \E b \in BOOLEAN : StartIteration(b)
            \/ \E r \in Reactors : PollReactor(r)
            \/ ReactorReturns
            \/ \E r \in Reactors : RegisterReactor(r)
            \/ CallProgress
  BY DEF Next, Loop, Body, Driver, Kinds, RunQueueHead, BlockOnHead, ReactorsDone,
         PollVacant, PollPending, PollResume, DrainTasks, ProgressPops,
         EndIteration, TaskSpawns, TaskStartsOp, TaskRequestsShutdown, TaskYields,
         TaskAwaits, TaskFinishes, SpawnOutside, CallRunQueue, CallBlockOn, FireOp,
         Exits

(* The counters of the loop.                                               *)
LEMMA CountersFrame ==
    Next => \/ UNCHANGED <<iteration, reactor_only, stuck>>
            \/ RunQueueHead
            \/ BlockOnHead
            \/ EndIteration
            \/ stuck' = 0 /\ UNCHANGED <<iteration, reactor_only>>
  BY DEF Next, Loop, Body, Driver, Kinds, PollReactor, ReactorReturns, ReactorsDone,
         PollVacant, PollPending, PollResume, DrainTasks, ProgressPops, TaskSpawns,
         TaskStartsOp, TaskRequestsShutdown, TaskYields, TaskAwaits, TaskFinishes,
         SpawnOutside, RegisterReactor, CallRunQueue, CallBlockOn, CallProgress,
         FireOp, Call, counters

(* The call in progress.                                                   *)
LEMMA LoopFrame ==
    Next => \/ UNCHANGED <<mode, pc, exit, target, noHandle>>
            \/ RunQueueHead
            \/ BlockOnHead
            \/ ReactorsDone
            \/ DrainTasks
            \/ ProgressPops
            \/ EndIteration
            \/ CallRunQueue
            \/ \E t \in Tasks : CallBlockOn(t)
            \/ CallProgress
  BY DEF Next, Loop, Body, Driver, Kinds, PollReactor, ReactorReturns, PollVacant,
         PollPending, PollResume, TaskSpawns, TaskStartsOp, TaskRequestsShutdown,
         TaskYields, TaskAwaits, TaskFinishes, SpawnOutside, RegisterReactor,
         FireOp, blocked

(* The flags of the loop.                                                  *)
LEMMA FlagsFrame ==
    Next => \/ UNCHANGED <<should_poll, made_progress, completed, shutdown, captured>>
            \/ RunQueueHead
            \/ BlockOnHead
            \/ \E r \in Reactors : PollReactor(r)
            \/ TaskRequestsShutdown
            \/ TaskFinishes
            \/ EndIteration
            \/ \E t \in Tasks : CallBlockOn(t)
  BY DEF Next, Loop, Body, Driver, Kinds, ReactorReturns, ReactorsDone, PollVacant,
         PollPending, PollResume, DrainTasks, ProgressPops, TaskSpawns,
         TaskStartsOp, TaskYields, TaskAwaits, SpawnOutside, RegisterReactor,
         CallRunQueue, CallProgress, FireOp, blocked, counters
-----------------------------------------------------------------------------
(* Type correctness.                                                       *)

(* Spawning and finishing keep slab and tasks typed.                       *)
LEMMA TasksTypedStep == TasksTyped /\ SlabConsistent /\ Next => TasksTyped'
  <1> SUFFICES ASSUME TasksTyped, SlabConsistent, Next PROVE TasksTyped'
    OBVIOUS
  <1> USE DEF TasksTyped
  <1>1. CASE UNCHANGED <<slab, births, running>>
    BY <1>1 DEF slab, births
  <1>2. ASSUME NEW t \in Tasks, NEW q \in Kinds, Spawn(t, q), UNCHANGED running
        PROVE  TasksTyped'
    BY <1>2, NextKeyFree DEF Spawn, Insert
  <1>3. CASE PollResume
    BY <1>3 DEF PollResume, slab, births
  <1>4. ASSUME NEW n \in 1 .. 2, TaskYields(n) PROVE TasksTyped'
    BY <1>4 DEF TaskYields, slab, births
  <1>5. ASSUME NEW rs \in SUBSET Reactors, NEW u \in Tasks \cup {None}, TaskAwaits(rs, u)
        PROVE  TasksTyped'
    BY <1>5 DEF TaskAwaits, slab, births
  <1>6. CASE TaskFinishes
    BY <1>6 DEF TaskFinishes
  <1> QED
    BY <1>1, <1>2, <1>3, <1>4, <1>5, <1>6, TasksFrame

(* What the reactors and tasks are like does not change.                   *)
LEMMA ProgramFixed == Next => UNCHANGED program
  BY DEF Next, Loop, Body, Driver, FireOp

(* Waiting, waking and completing keep the waits typed.                    *)
LEMMA WaitsTypedStep == TasksTyped /\ WaitsTyped /\ Next => WaitsTyped'
  <1> SUFFICES ASSUME TasksTyped, WaitsTyped, Next PROVE WaitsTyped'
    OBVIOUS
  <1>0. UNCHANGED program
    BY ProgramFixed
  <1> USE <1>0, ExecutorAssumption DEF WaitsTyped, TasksTyped, awaits
  <1>1. CASE UNCHANGED <<awaits, ops, fuel>>
    BY <1>1
  <1>2. CASE PollPending
    BY <1>2 DEF PollPending
  <1>3. CASE PollResume
    BY <1>3 DEF PollResume
  <1>4. ASSUME NEW r \in Reactors, TaskStartsOp(r) PROVE WaitsTyped'
    BY <1>4 DEF TaskStartsOp
  <1>5. ASSUME NEW n \in 1 .. 2, TaskYields(n) PROVE WaitsTyped'
    <2>1. program.yield_cost \in {0, 1}
      OBVIOUS
    <2>2. fuel' \in Nat
      BY <1>5, <2>1 DEF TaskYields
    <2> QED
      BY <1>5, <2>2 DEF TaskYields
  <1>6. ASSUME NEW rs \in SUBSET Reactors, NEW u \in Tasks \cup {None}, TaskAwaits(rs, u)
        PROVE  WaitsTyped'
    BY <1>6 DEF TaskAwaits
  <1>7. CASE TaskFinishes
    BY <1>7 DEF TaskFinishes
  <1>8. ASSUME NEW r \in Reactors, NEW t \in Tasks, FireOp(r, t) PROVE WaitsTyped'
    BY <1>8 DEF FireOp
  <1> QED
    BY <1>1, <1>2, <1>3, <1>4, <1>5, <1>6, <1>7, <1>8, WaitsFrame

(* The batch and what stays queued are a prefix and the rest.              *)
LEMMA BatchSplits ==
    QueuesTyped /\ program \in Programs =>
        /\ BatchLen \in 0 .. Len(queue["normal"])
        /\ Batch[1] \in Seq(Keys) /\ Batch[2] \in Seq(Keys)
        /\ Len(Batch[1]) = BatchLen /\ Len(Batch[2]) = Len(queue["normal"]) - BatchLen
        /\ \A i \in 1 .. BatchLen : Batch[1][i] = queue["normal"][i]
        /\ \A i \in 1 .. Len(queue["normal"]) - BatchLen :
              Batch[2][i] = queue["normal"][BatchLen + i]
  <1> SUFFICES ASSUME QueuesTyped, program \in Programs
               PROVE  /\ BatchLen \in 0 .. Len(queue["normal"])
                      /\ Batch[1] \in Seq(Keys) /\ Batch[2] \in Seq(Keys)
                      /\ Len(Batch[1]) = BatchLen
                      /\ Len(Batch[2]) = Len(queue["normal"]) - BatchLen
                      /\ \A i \in 1 .. BatchLen : Batch[1][i] = queue["normal"][i]
                      /\ \A i \in 1 .. Len(queue["normal"]) - BatchLen :
                            Batch[2][i] = queue["normal"][BatchLen + i]
    OBVIOUS
  <1> DEFINE s == queue["normal"]
  <1>1. s \in Seq(Keys) /\ Len(s) \in Nat /\ \A i \in 1 .. Len(s) : s[i] \in Keys
    BY ElementOfSeq DEF QueuesTyped, Kinds
  <1>2. BatchLen \in 0 .. Len(s)
    <2>1. program.task_batch_size \in Nat
      BY ExecutorAssumption
    <2> QED
      BY <1>1, <2>1 DEF BatchLen, Least
  <1>3. /\ Batch[1] = SubSeq(s, 1, BatchLen)
        /\ Batch[2] = SubSeq(s, BatchLen + 1, Len(s))
    BY DEF Batch
  <1> HIDE DEF s
  <1>4. /\ SubSeq(s, 1, BatchLen) \in Seq(Keys)
        /\ Len(SubSeq(s, 1, BatchLen)) = BatchLen
        /\ \A i \in 1 .. BatchLen : SubSeq(s, 1, BatchLen)[i] = s[i]
    BY <1>1, <1>2
  <1>5. /\ SubSeq(s, BatchLen + 1, Len(s)) \in Seq(Keys)
        /\ Len(SubSeq(s, BatchLen + 1, Len(s))) = Len(s) - BatchLen
        /\ \A i \in 1 .. Len(s) - BatchLen :
              SubSeq(s, BatchLen + 1, Len(s))[i] = s[BatchLen + i]
    BY <1>1, <1>2
  <1> QED
    BY <1>1, <1>2, <1>3, <1>4, <1>5 DEF s

(* Only slab keys are queued.                                              *)
LEMMA QueuesTypedStep ==
    TasksTyped /\ SlabConsistent /\ WaitsTyped /\ QueuesTyped /\ Next => QueuesTyped'
  <1> SUFFICES ASSUME TasksTyped, SlabConsistent, WaitsTyped, QueuesTyped, Next
               PROVE  QueuesTyped'
    OBVIOUS
  <1> USE DEF QueuesTyped, Kinds
  <1>1. CASE UNCHANGED <<queue, buffers>>
    BY <1>1 DEF buffers
  <1>2. ASSUME NEW t \in Tasks, NEW q \in Kinds, Spawn(t, q), UNCHANGED buffers
        PROVE  QueuesTyped'
    BY <1>2, NextKeyFree DEF Spawn, buffers
  <1>3. CASE PollVacant \/ PollPending \/ PollResume
    <2>1. UNCHANGED <<queue, left>> /\ PopBuffer
      BY <1>3 DEF PollVacant, PollPending, PollResume
    <2> QED
      BY <2>1 DEF PopBuffer, Buffer
  <1>4. CASE RunQueueHead \/ BlockOnHead \/ ReactorsDone
    <2>1. CASE UNCHANGED <<tbuf, left>> /\ pbuf' = queue["polling"]
                  /\ queue' = [queue EXCEPT !["polling"] = <<>>]
      BY <2>1
    <2> QED
      BY <1>1, <1>4, <2>1, DrainPolling
  <1>5. ASSUME NEW n \in 1 .. 2, TaskYields(n) PROVE QueuesTyped'
    <2>1. kind[running] \in Kinds /\ key[running] \in Keys
      BY <1>5 DEF TaskYields, TasksTyped
    <2>2. [i \in 1 .. n |-> key[running]] \in Seq(Keys)
      BY <2>1, SeqDef
    <2> QED
      BY <1>5, <2>1, <2>2 DEF TaskYields, buffers
  <1>6. CASE TaskFinishes
    BY <1>6 DEF TaskFinishes, WakeJoiner, Wake, TasksTyped, WaitsTyped, buffers
  <1>7. ASSUME NEW r \in Reactors, NEW t \in Tasks, FireOp(r, t) PROVE QueuesTyped'
    BY <1>7 DEF FireOp, Wake, TasksTyped, buffers
  <1>8. CASE DrainTasks
    BY <1>8, BatchSplits DEF DrainTasks, WaitsTyped
  <1>9. CASE ProgressPops
    <2>1. CASE left = 0 \/ queue["normal"] = <<>>
      BY <1>9, <2>1 DEF ProgressPops, buffers
    <2>2. CASE ~(left = 0 \/ queue["normal"] = <<>>)
      <3>1. left - 1 \in Nat
        BY <2>2
      <3>2. Head(queue["normal"]) \in Keys /\ Tail(queue["normal"]) \in Seq(Keys)
        BY <2>2
      <3>3. /\ tbuf' = <<Head(queue["normal"])>>
            /\ queue' = [queue EXCEPT !["normal"] = Tail(@)]
            /\ left' = left - 1 /\ pbuf' = pbuf
        BY <1>9, <2>2 DEF ProgressPops
      <3> QED
        BY <3>1, <3>2, <3>3
    <2> QED
      BY <2>1, <2>2
  <1>10. CASE CallProgress
    <2>1. program.max_tasks_per_call \in Nat
      BY ExecutorAssumption DEF WaitsTyped
    <2> QED
      BY <1>10, <2>1 DEF CallProgress
  <1> QED
    BY <1>1, <1>2, <1>3, <1>4, <1>5, <1>6, <1>7, <1>8, <1>9, <1>10, QueuesFrame

(* Registering and polling keep the reactors typed.                        *)
LEMMA ReactorsTypedStep == ReactorsTyped /\ Next => ReactorsTyped'
  <1> SUFFICES ASSUME ReactorsTyped, Next PROVE ReactorsTyped'
    OBVIOUS
  <1> USE ExecutorAssumption DEF ReactorsTyped, cache
  <1>1. CASE UNCHANGED <<registered, todo, inReactor, cache, starve>>
    BY <1>1
  <1>2. ASSUME NEW b \in BOOLEAN, StartIteration(b) PROVE ReactorsTyped'
    BY <1>2 DEF StartIteration, Aged
  <1>3. ASSUME NEW r \in Reactors, PollReactor(r) PROVE ReactorsTyped'
    BY <1>3 DEF PollReactor
  <1>4. CASE ReactorReturns
    BY <1>4 DEF ReactorReturns
  <1>5. ASSUME NEW r \in Reactors, RegisterReactor(r) PROVE ReactorsTyped'
    BY <1>5 DEF RegisterReactor
  <1>6. CASE CallProgress
    BY <1>6 DEF CallProgress
  <1> QED
    BY <1>1, <1>2, <1>3, <1>4, <1>5, <1>6, ReactorsFrame

(* The counters stay within their bounds.                                  *)
LEMMA CountersTypedStep == CountersTyped /\ Bounds /\ Next => CountersTyped'
  <1> SUFFICES ASSUME CountersTyped, Bounds, Next PROVE CountersTyped'
    OBVIOUS
  <1>1. NextIteration \in 0 .. PollInterval + 1
    BY ExecutorAssumption DEF CountersTyped, NextIteration
  <1>2. CASE UNCHANGED <<iteration, reactor_only, stuck>>
    BY <1>2 DEF CountersTyped
  <1>3. CASE RunQueueHead \/ BlockOnHead
    <2>1. \/ UNCHANGED <<iteration, reactor_only, stuck>>
          \/ /\ iteration' = NextIteration /\ stuck' = stuck
             /\ reactor_only' = reactor_only \/ reactor_only' = 0
      BY <1>3 DEF RunQueueHead, BlockOnHead, Exits, counters, StartIteration
    <2> QED
      BY <1>1, <2>1, ExecutorAssumption DEF CountersTyped
  <1>4. CASE EndIteration
    <2>1. iteration' = iteration /\ stuck' \in {0, stuck + 1}
      BY <1>4 DEF EndIteration
    <2>2. stuck <= MaxStuck
      BY <1>4 DEF EndIteration, Bounds
    <2>3. /\ reactor_only' \in {0, reactor_only, reactor_only + 1}
          /\ reactor_only' = reactor_only + 1 =>
                reactor_only' = reactor_only \/ reactor_only < MaxReactorOnly
      BY <1>4 DEF EndIteration, Bounds
    <2> QED
      BY <2>1, <2>2, <2>3, ExecutorAssumption DEF CountersTyped
  <1>5. CASE stuck' = 0 /\ UNCHANGED <<iteration, reactor_only>>
    BY <1>5, ExecutorAssumption DEF CountersTyped
  <1> QED
    BY <1>2, <1>3, <1>4, <1>5, CountersFrame

(* The loop stays in its phases.                                           *)
LEMMA LoopTypedStep == LoopTyped /\ Next => LoopTyped'
  <1> SUFFICES ASSUME LoopTyped, Next PROVE LoopTyped'
    OBVIOUS
  <1> USE DEF LoopTyped, blocked, Exits, Return, StartIteration, Call
  <1>1. CASE UNCHANGED <<mode, pc, exit, target, noHandle>>
    BY <1>1
  <1>2. CASE RunQueueHead
    BY <1>2 DEF RunQueueHead
  <1>3. CASE BlockOnHead
    BY <1>3 DEF BlockOnHead
  <1>4. CASE ReactorsDone
    BY <1>4 DEF ReactorsDone
  <1>5. CASE DrainTasks
    BY <1>5 DEF DrainTasks
  <1>6. CASE ProgressPops
    BY <1>6 DEF ProgressPops
  <1>7. CASE EndIteration
    BY <1>7 DEF EndIteration
  <1>8. CASE CallRunQueue
    BY <1>8 DEF CallRunQueue
  <1>9. ASSUME NEW t \in Tasks, CallBlockOn(t) PROVE LoopTyped'
    BY <1>9 DEF CallBlockOn
  <1>10. CASE CallProgress
    BY <1>10 DEF CallProgress
  <1> QED
    BY <1>1, <1>2, <1>3, <1>4, <1>5, <1>6, <1>7, <1>8, <1>9, <1>10, LoopFrame

(* The flags stay Boolean.                                                 *)
LEMMA FlagsTypedStep == FlagsTyped /\ Next => FlagsTyped'
  <1> SUFFICES ASSUME FlagsTyped, Next PROVE FlagsTyped'
    OBVIOUS
  <1> USE DEF FlagsTyped, blocked, counters, Exits, StartIteration, ShouldPoll
  <1>1. CASE UNCHANGED <<should_poll, made_progress, completed, shutdown, captured>>
    BY <1>1
  <1>2. CASE RunQueueHead
    BY <1>2 DEF RunQueueHead
  <1>3. CASE BlockOnHead
    BY <1>3 DEF BlockOnHead
  <1>4. ASSUME NEW r \in Reactors, PollReactor(r) PROVE FlagsTyped'
    BY <1>4 DEF PollReactor
  <1>5. CASE TaskRequestsShutdown
    BY <1>5 DEF TaskRequestsShutdown
  <1>6. CASE TaskFinishes
    BY <1>6 DEF TaskFinishes, Captured
  <1>7. CASE EndIteration
    BY <1>7 DEF EndIteration
  <1>8. ASSUME NEW t \in Tasks, CallBlockOn(t) PROVE FlagsTyped'
    BY <1>8 DEF CallBlockOn
  <1> QED
    BY <1>1, <1>2, <1>3, <1>4, <1>5, <1>6, <1>7, <1>8, FlagsFrame
-----------------------------------------------------------------------------
(* The slab.                                                               *)
LEMMA PrefixIs ==
    ASSUME NEW S, NEW s \in Seq(S), NEW n \in 0 .. Len(s)
    PROVE  /\ Len(SubSeq(s, 1, n)) = n
           /\ \A i \in 1 .. n : SubSeq(s, 1, n)[i] = s[i]
  OBVIOUS

(* The buffer being walked holds keys.                                     *)
LEMMA HeadIsKey == QueuesTyped /\ PopBuffer => Head(Buffer) \in Keys
  BY DEF QueuesTyped, PopBuffer, Buffer

(* Insertion and removal keep the slab consistent.                         *)
LEMMA SlabStep == TasksTyped /\ QueuesTyped /\ SlabConsistent /\ Next => SlabConsistent'
  <1> SUFFICES ASSUME TasksTyped, QueuesTyped, SlabConsistent, Next PROVE SlabConsistent'
    OBVIOUS
  <1> USE DEF None, Tasks
  <1>1. CASE UNCHANGED <<slab, births, running>>
    BY <1>1 DEF SlabConsistent, slab, births
  <1>2. ASSUME NEW t \in Tasks, NEW q \in Kinds, Spawn(t, q), UNCHANGED running
        PROVE  SlabConsistent'
    <2>1. NextKey \in Keys /\ pool[NextKey] = None
      BY <1>2, NextKeyFree DEF Spawn
    <2>2. /\ pool' = [pool EXCEPT ![NextKey] = t]
          /\ st' = [st EXCEPT ![t] = "live"]
          /\ key' = [key EXCEPT ![t] = NextKey]
          /\ st[t] = "unborn"
      BY <1>2 DEF Spawn, Insert
    <2>3. /\ Len(free') = Len(free) - 1
          /\ \A i \in 1 .. Len(free') : free'[i] = free[i] /\ free[i] # NextKey
      <3>1. free' = SubSeq(free, 1, Len(free) - 1) /\ free \in Seq(Keys) /\ free # <<>>
        BY <1>2 DEF Spawn, Insert, TasksTyped
      <3>2. /\ Len(free) \in Nat \ {0} /\ Len(free') = Len(free) - 1
            /\ \A i \in 1 .. Len(free') : free'[i] = free[i]
        <4>1. free \in Seq(Keys) /\ Len(free) \in Nat \ {0}
          BY <3>1, EmptySeq
        <4>2. /\ Len(SubSeq(free, 1, Len(free) - 1)) = Len(free) - 1
              /\ \A i \in 1 .. Len(free) - 1 : SubSeq(free, 1, Len(free) - 1)[i] = free[i]
          BY <4>1, Len(free) - 1 \in 0 .. Len(free), PrefixIs
        <4> QED
          BY <3>1, <4>1, <4>2
      <3>3. ASSUME NEW i \in 1 .. Len(free') PROVE free[i] # NextKey
        <4>1. i \in 1 .. Len(free) /\ Len(free) \in 1 .. Len(free) /\ i # Len(free)
          BY <3>2, <3>3
        <4> QED
          BY <4>1 DEF SlabConsistent, NextKey
      <3> QED
        BY <3>2, <3>3
    <2> HIDE DEF None, Tasks
    <2>4. \A k \in Keys : pool'[k] # None => st'[pool'[k]] = "live" /\ key'[pool'[k]] = k
      BY <2>1, <2>2 DEF TasksTyped, SlabConsistent
    <2>5. \A u \in Tasks : st'[u] = "live" => pool'[key'[u]] = u
      BY <2>1, <2>2 DEF TasksTyped, SlabConsistent, None, Tasks
    <2>6. running' # None => st'[running'] = "live"
      BY <1>2, <2>2 DEF TasksTyped, SlabConsistent
    <2>7. \A i \in 1 .. Len(free') : pool'[free'[i]] = None
      <3> SUFFICES ASSUME NEW i \in 1 .. Len(free') PROVE pool'[free'[i]] = None
        OBVIOUS
      <3>1. i \in 1 .. Len(free) /\ free[i] \in Keys
        BY <2>3 DEF TasksTyped
      <3>2. pool[free[i]] = None
        BY <3>1 DEF SlabConsistent
      <3> QED
        BY <2>2, <2>3, <3>1, <3>2 DEF TasksTyped
    <2>8. \A i, j \in 1 .. Len(free') : free'[i] = free'[j] => i = j
      BY <2>3 DEF TasksTyped, SlabConsistent
    <2> QED
      BY <2>4, <2>5, <2>6, <2>7, <2>8 DEF SlabConsistent
  <1>3. CASE PollResume
    <2>1. Head(Buffer) \in Keys
      BY <1>3, HeadIsKey DEF PollResume
    <2>2. PICK t \in Tasks : pool[Head(Buffer)] = t /\ running' = t
      BY <1>3 DEF PollResume
    <2>3. st[t] = "live"
      BY <2>1, <2>2 DEF SlabConsistent
    <2> QED
      BY <1>3, <2>2, <2>3 DEF PollResume, SlabConsistent, slab, births
  <1>4. ASSUME NEW n \in 1 .. 2, TaskYields(n) PROVE SlabConsistent'
    BY <1>4 DEF TaskYields, SlabConsistent, slab, births
  <1>5. ASSUME NEW rs \in SUBSET Reactors, NEW u \in Tasks \cup {None}, TaskAwaits(rs, u)
        PROVE  SlabConsistent'
    BY <1>5 DEF TaskAwaits, SlabConsistent, slab, births
  <1>6. CASE TaskFinishes
    <2> DEFINE k == key[running]
    <2>1. /\ running \in Tasks /\ k \in Keys /\ pool[k] = running
          /\ pool' = [pool EXCEPT ![k] = None]
          /\ free' = Append(free, k)
          /\ st' = [st EXCEPT ![running] = "done"]
          /\ key' = key /\ running' = None
      BY <1>6 DEF TaskFinishes, SlabConsistent, TasksTyped
    <2> HIDE DEF k
    <2>2. /\ Len(free') = Len(free) + 1 /\ free'[Len(free) + 1] = k
          /\ \A i \in 1 .. Len(free) : free'[i] = free[i] /\ free[i] \in Keys /\ free[i] # k
      BY <2>1 DEF TasksTyped, SlabConsistent
    <2>3. \A i \in 1 .. Len(free') : i \in 1 .. Len(free) \/ i = Len(free) + 1
      BY <2>2 DEF TasksTyped
    <2> HIDE DEF None, Tasks
    <2>4. \A j \in Keys : pool'[j] # None => st'[pool'[j]] = "live" /\ key'[pool'[j]] = j
      BY <2>1 DEF TasksTyped, SlabConsistent
    <2>5. \A u \in Tasks : st'[u] = "live" => pool'[key'[u]] = u
      BY <2>1 DEF TasksTyped, SlabConsistent
    <2>6. \A i \in 1 .. Len(free') : pool'[free'[i]] = None
      BY <2>1, <2>2, <2>3 DEF TasksTyped, SlabConsistent
    <2>7. \A i, j \in 1 .. Len(free') : free'[i] = free'[j] => i = j
      BY <2>2, <2>3 DEF TasksTyped, SlabConsistent
    <2> QED
      BY <2>1, <2>4, <2>5, <2>6, <2>7 DEF SlabConsistent
  <1> QED
    BY <1>1, <1>2, <1>3, <1>4, <1>5, <1>6, TasksFrame

-----------------------------------------------------------------------------
(* The phases of the loop.                                                 *)
LEMMA BuffersFrame ==
    Next => \/ UNCHANGED <<mode, pc, pbuf, tbuf, reactor_only, stuck>>
            \/ RunQueueHead
            \/ BlockOnHead
            \/ ReactorsDone
            \/ PopBuffer /\ UNCHANGED <<mode, pc, reactor_only, stuck>>
            \/ DrainTasks
            \/ ProgressPops
            \/ EndIteration
            \/ CallRunQueue
            \/ \E t \in Tasks : CallBlockOn(t)
            \/ CallProgress
  BY DEF Next, Loop, Body, Driver, Kinds, PollReactor, ReactorReturns, PollVacant,
         PollPending, PollResume, TaskSpawns, TaskStartsOp, TaskRequestsShutdown,
         TaskYields, TaskAwaits, TaskFinishes, SpawnOutside, RegisterReactor,
         FireOp, buffers, counters

(* Buffers are empty where they get overwritten.                           *)
LEMMA PhasesStep == LoopTyped /\ Phases /\ Next => Phases'
  <1> SUFFICES ASSUME LoopTyped, Phases, Next PROVE Phases'
    OBVIOUS
  <1> USE DEF Phases, LoopTyped
  <1>1. CASE UNCHANGED <<mode, pc, pbuf, tbuf, reactor_only, stuck>>
    BY <1>1
  <1>2. CASE RunQueueHead
    BY <1>2 DEF RunQueueHead, Exits, Return, StartIteration, buffers
  <1>3. CASE BlockOnHead
    BY <1>3 DEF BlockOnHead, Exits, Return, StartIteration, buffers
  <1>4. CASE ReactorsDone
    BY <1>4 DEF ReactorsDone
  <1>5. CASE PopBuffer /\ UNCHANGED <<mode, pc, reactor_only, stuck>>
    BY <1>5 DEF PopBuffer, Buffer
  <1>6. CASE DrainTasks
    BY <1>6 DEF DrainTasks
  <1>7. CASE ProgressPops
    BY <1>7 DEF ProgressPops, Return
  <1>8. CASE EndIteration
    BY <1>8 DEF EndIteration, Return, buffers
  <1>9. CASE CallRunQueue
    BY <1>9 DEF CallRunQueue, Call, buffers
  <1>10. ASSUME NEW t \in Tasks, CallBlockOn(t) PROVE Phases'
    BY <1>10 DEF CallBlockOn, Call, buffers
  <1>11. CASE CallProgress
    BY <1>11 DEF CallProgress, Call
  <1> QED
    BY <1>1, <1>2, <1>3, <1>4, <1>5, <1>6, <1>7, <1>8, <1>9, <1>10, <1>11, BuffersFrame

(* The counters are below their limits where the loop counts.              *)
LEMMA BoundsStep == LoopTyped /\ CountersTyped /\ Phases /\ Bounds /\ Next => Bounds'
  <1> SUFFICES ASSUME LoopTyped, CountersTyped, Phases, Bounds, Next PROVE Bounds'
    OBVIOUS
  <1>1. CASE UNCHANGED <<mode, pc, pbuf, tbuf, reactor_only, stuck>>
    BY <1>1 DEF Bounds
  <1>2. CASE RunQueueHead
    <2>1. mode = "run_queue" /\ stuck' = stuck /\ (mode' = "none" \/ mode' = "run_queue")
      BY <1>2 DEF RunQueueHead, Exits, Return, StartIteration, counters
    <2>2. mode' = "run_queue" =>
             \/ reactor_only' = 0
             \/ reactor_only' = reactor_only /\ ~SafetyOverride
      BY <1>2 DEF RunQueueHead, Exits, Return, StartIteration
    <2> QED
      BY <2>1, <2>2, ExecutorAssumption DEF Bounds, SafetyOverride, CountersTyped
  <1>3. CASE BlockOnHead
    BY <1>3 DEF BlockOnHead, Exits, Return, StartIteration, counters, Bounds
  <1>4. CASE ReactorsDone
    BY <1>4 DEF ReactorsDone, counters, Bounds
  <1>5. CASE PopBuffer /\ UNCHANGED <<mode, pc, reactor_only, stuck>>
    BY <1>5 DEF Bounds
  <1>6. CASE DrainTasks
    BY <1>6 DEF DrainTasks, counters, Bounds
  <1>7. CASE ProgressPops
    BY <1>7 DEF ProgressPops, Return, Bounds
  <1>8. CASE EndIteration
    <2>1. CASE stuck' > MaxStuck
      BY <1>8, <2>1 DEF EndIteration, Return, Bounds
    <2>2. CASE ~(stuck' > MaxStuck)
      <3>1. pc' = "head" /\ stuck' \in {0, stuck + 1}
        BY <1>8, <2>2 DEF EndIteration
      <3> QED
        BY <2>2, <3>1, ExecutorAssumption DEF Bounds, CountersTyped
    <2> QED
      BY <2>1, <2>2
  <1>9. CASE CallRunQueue
    BY <1>9, ExecutorAssumption DEF CallRunQueue, Call, Bounds
  <1>10. ASSUME NEW t \in Tasks, CallBlockOn(t) PROVE Bounds'
    BY <1>10, ExecutorAssumption DEF CallBlockOn, Call, Bounds
  <1>11. CASE CallProgress
    BY <1>11 DEF CallProgress, Call, Bounds
  <1> QED
    BY <1>1, <1>2, <1>3, <1>4, <1>5, <1>6, <1>7, <1>8, <1>9, <1>10, <1>11, BuffersFrame

(* A step keeps the types and the bounds.                                  *)
LEMMA TypeStep == TypeOK /\ SlabConsistent /\ Bounds /\ Next => TypeOK'
  BY TasksTypedStep, WaitsTypedStep, QueuesTypedStep, ReactorsTypedStep, CountersTypedStep,
     LoopTypedStep, FlagsTypedStep DEF TypeOK
-----------------------------------------------------------------------------
(* JoinHandles and block_on's holder.                                      *)
LEMMA JoinsFrame ==
    Next => \/ UNCHANGED <<st, awaitJoin, joinWaker, result, running>>
            \/ /\ UNCHANGED <<awaitJoin, joinWaker, result, running>>
               /\ \E t \in Tasks, q \in Kinds : Spawn(t, q)
            \/ PollPending
            \/ PollResume
            \/ \E n \in 1 .. 2 : TaskYields(n)
            \/ \E rs \in SUBSET Reactors, u \in Tasks \cup {None} : TaskAwaits(rs, u)
            \/ TaskFinishes
  BY DEF Next, Loop, Body, Driver, Kinds, RunQueueHead, BlockOnHead, PollReactor,
         ReactorReturns, ReactorsDone, PollVacant, DrainTasks, ProgressPops,
         EndIteration, TaskSpawns, TaskStartsOp, TaskRequestsShutdown, SpawnOutside,
         RegisterReactor, CallRunQueue, CallBlockOn, CallProgress, FireOp,
         StartIteration, Exits, births, awaits

(* A waiting JoinHandle keeps its waker or gets its result.                *)
LEMMA JoinsStep == TypeOK /\ SlabConsistent /\ Joins /\ Next => Joins'
  <1> SUFFICES ASSUME TypeOK, SlabConsistent, Joins, Next PROVE Joins'
    OBVIOUS
  <1>0. TasksTyped /\ WaitsTyped /\ QueuesTyped /\ None \notin Tasks
    BY DEF TypeOK, None, Tasks
  <1>1. CASE UNCHANGED <<st, awaitJoin, joinWaker, result, running>>
    BY <1>1 DEF Joins
  <1>2. ASSUME UNCHANGED <<awaitJoin, joinWaker, result, running>>,
               NEW t \in Tasks, NEW q \in Kinds, Spawn(t, q)
        PROVE  Joins'
    <2>1. st[t] = "unborn" /\ st' = [st EXCEPT ![t] = "live"]
      BY <1>2 DEF Spawn
    <2> QED
      BY <1>0, <1>2, <2>1 DEF Joins, TasksTyped, WaitsTyped
  <1>3. CASE PollPending
    <2>1. PICK t \in Tasks :
             /\ ~Resumable(t)
             /\ joinWaker' = IF awaitJoin[t] = None THEN joinWaker
                             ELSE [joinWaker EXCEPT ![awaitJoin[t]] = t]
      BY <1>3 DEF PollPending
    <2>2. joinWaker' = joinWaker
      BY <1>0, <2>1 DEF Joins, Resumable, JoinReady, WaitsTyped
    <2> QED
      BY <1>3, <2>2 DEF PollPending, Joins, births
  <1>4. CASE PollResume
    <2>1. PICK t \in Tasks :
             /\ running' = t
             /\ awaitJoin' = [awaitJoin EXCEPT ![t] = None]
             /\ result' = IF JoinReady(t) THEN [result EXCEPT ![awaitJoin[t]] = "taken"]
                          ELSE result
      BY <1>4 DEF PollResume
    <2>2. st' = st /\ joinWaker' = joinWaker /\ running = None
      BY <1>4 DEF PollResume, PopBuffer, births
    <2>3. \A u \in Tasks : st[u] # "done" => result'[u] = "none"
      BY <1>0, <2>1 DEF Joins, JoinReady, WaitsTyped
    <2>4. ASSUME NEW u \in Tasks, awaitJoin'[u] # None
          PROVE  /\ u # t /\ awaitJoin'[u] = awaitJoin[u]
                 /\ result'[awaitJoin[u]] = result[awaitJoin[u]]
      BY <1>0, <2>1, <2>4 DEF Joins, JoinReady, WaitsTyped
    <2> QED
      BY <1>0, <2>1, <2>2, <2>3, <2>4 DEF Joins, WaitsTyped
  <1>5. ASSUME NEW n \in 1 .. 2, TaskYields(n) PROVE Joins'
    BY <1>0, <1>5 DEF TaskYields, Joins, births, awaits
  <1>6. ASSUME NEW rs \in SUBSET Reactors, NEW u \in Tasks \cup {None}, TaskAwaits(rs, u)
        PROVE  Joins'
    <2>1. /\ running \in Tasks /\ st[running] = "live" /\ running' = None
          /\ awaitJoin' = [awaitJoin EXCEPT ![running] = u]
          /\ joinWaker' = IF u = None THEN joinWaker ELSE [joinWaker EXCEPT ![u] = running]
          /\ result' = result /\ st' = st
      BY <1>0, <1>6 DEF TaskAwaits, SlabConsistent, TasksTyped, births
    <2>2. u # None => st[u] = "live" /\ joinWaker[u] \in {None, running}
      BY <1>6 DEF TaskAwaits, Joinable
    <2>3. ASSUME NEW t \in Tasks, awaitJoin[t] # None
          PROVE  t # running /\ awaitJoin[t] # u
      BY <1>0, <2>2, <2>3 DEF Joins
    <2> QED
      BY <1>0, <2>1, <2>2, <2>3 DEF Joins, WaitsTyped
  <1>7. CASE TaskFinishes
    <2>1. /\ running \in Tasks /\ st[running] = "live" /\ running' = None
          /\ result' = [result EXCEPT ![running] = "set"]
          /\ joinWaker' = [joinWaker EXCEPT ![running] = None]
          /\ st' = [st EXCEPT ![running] = "done"]
          /\ awaitJoin' = awaitJoin
      BY <1>0, <1>7 DEF TaskFinishes, SlabConsistent, TasksTyped
    <2> QED
      BY <1>0, <2>1 DEF Joins, TasksTyped, WaitsTyped
  <1> QED
    BY <1>1, <1>2, <1>3, <1>4, <1>5, <1>6, <1>7, JoinsFrame

(* block_on's target.                                                      *)
LEMMA WatchedFrame ==
    Next => \/ UNCHANGED <<mode, exit, target, captured, st>>
            \/ /\ UNCHANGED <<mode, exit, target, captured>>
               /\ \E t \in Tasks, q \in Kinds : Spawn(t, q)
            \/ /\ UNCHANGED <<target, captured, st>>
               /\ mode' # "block_on" /\ exit' # "result missing"
            \/ BlockOnHead
            \/ \E t \in Tasks : CallBlockOn(t)
            \/ TaskFinishes
  BY DEF Next, Loop, Body, Driver, Kinds, RunQueueHead, PollReactor, ReactorReturns,
         ReactorsDone, PollVacant, PollPending, PollResume, DrainTasks,
         ProgressPops, EndIteration, TaskSpawns, TaskStartsOp, TaskRequestsShutdown,
         TaskYields, TaskAwaits, SpawnOutside, RegisterReactor, CallRunQueue,
         CallProgress, FireOp, Exits, StartIteration, Call, Return, births, blocked

(* block_on's holder is filled when its task is done.                      *)
LEMMA WatchedStep == TypeOK /\ SlabConsistent /\ Watched /\ Next => Watched'
  <1> SUFFICES ASSUME TypeOK, SlabConsistent, Watched, Next PROVE Watched'
    OBVIOUS
  <1>0. TasksTyped /\ LoopTyped /\ FlagsTyped /\ None \notin Tasks
    BY DEF TypeOK, None, Tasks
  <1>1. CASE UNCHANGED <<mode, exit, target, captured, st>>
    BY <1>1 DEF Watched
  <1>2. ASSUME UNCHANGED <<mode, exit, target, captured>>,
               NEW t \in Tasks, NEW q \in Kinds, Spawn(t, q)
        PROVE  Watched'
    BY <1>0, <1>2 DEF Watched, Spawn, TasksTyped, LoopTyped
  <1>3. CASE /\ UNCHANGED <<target, captured, st>>
             /\ mode' # "block_on" /\ exit' # "result missing"
    BY <1>3 DEF Watched
  <1>4. CASE BlockOnHead
    <2>1. target \in Tasks /\ (pool[key[target]] = None => captured)
      <3>1. target \in Tasks /\ st[target] # "unborn"
        BY <1>0, <1>4 DEF BlockOnHead, Watched, LoopTyped
      <3>2. pool[key[target]] = None => st[target] = "done"
        BY <1>0, <3>1 DEF SlabConsistent, TasksTyped
      <3>3. st[target] = "done" => captured
        BY <1>0, <3>1 DEF Watched
      <3> QED
        BY <3>1, <3>2, <3>3
    <2>2. UNCHANGED <<target, captured, st>>
      BY <1>4 DEF BlockOnHead, Exits, StartIteration, births, blocked
    <2>3. CASE pool[key[target]] = None
      <3>1. Exits("returned")
        BY <1>4, <2>1, <2>3 DEF BlockOnHead
      <3> QED
        BY <2>2, <3>1 DEF Exits, Return, Watched
    <2>4. CASE pool[key[target]] # None
      BY <1>4, <2>2, <2>4 DEF BlockOnHead, StartIteration, Watched
    <2> QED
      BY <2>3, <2>4
  <1>5. ASSUME NEW t \in Tasks, CallBlockOn(t) PROVE Watched'
    BY <1>0, <1>5 DEF CallBlockOn, Call, Spawn, Watched, TasksTyped
  <1>6. CASE TaskFinishes
    BY <1>0, <1>6 DEF TaskFinishes, Captured, Watched, SlabConsistent, TasksTyped, LoopTyped
  <1> QED
    BY <1>1, <1>2, <1>3, <1>4, <1>5, <1>6, WatchedFrame
-----------------------------------------------------------------------------
(* Which keys the queues and the buffers hold.                             *)
LEMMA InAppend ==
    ASSUME NEW S, NEW s \in Seq(S), NEW e \in S, NEW k
    PROVE  InSeq(k, Append(s, e)) <=> InSeq(k, s) \/ k = e
  <1>1. /\ Len(Append(s, e)) = Len(s) + 1 /\ Append(s, e)[Len(s) + 1] = e
        /\ \A i \in 1 .. Len(s) : Append(s, e)[i] = s[i]
    OBVIOUS
  <1>2. \A i \in 1 .. Len(s) + 1 : i \in 1 .. Len(s) \/ i = Len(s) + 1
    OBVIOUS
  <1>3. Len(s) + 1 \in 1 .. Len(s) + 1 /\ 1 .. Len(s) \subseteq 1 .. Len(s) + 1
    OBVIOUS
  <1> QED
    BY <1>1, <1>2, <1>3 DEF InSeq

(* The elements of s \o u.                                                 *)
LEMMA InConcat ==
    ASSUME NEW S, NEW s \in Seq(S), NEW u \in Seq(S), NEW k
    PROVE  InSeq(k, s \o u) <=> InSeq(k, s) \/ InSeq(k, u)
  <1>1. /\ Len(s \o u) = Len(s) + Len(u)
        /\ \A i \in 1 .. Len(s) : (s \o u)[i] = s[i]
        /\ \A i \in 1 .. Len(u) : (s \o u)[Len(s) + i] = u[i]
    OBVIOUS
  <1>2. ASSUME NEW i \in 1 .. Len(s) + Len(u)
        PROVE  i \in 1 .. Len(s) \/ \E j \in 1 .. Len(u) : i = Len(s) + j
    <2>1. CASE i <= Len(s)
      BY <2>1
    <2>2. CASE i > Len(s)
      <3>1. i - Len(s) \in 1 .. Len(u) /\ i = Len(s) + (i - Len(s))
        BY <2>2
      <3> QED
        BY <3>1
    <2> QED
      BY <2>1, <2>2
  <1>3. /\ 1 .. Len(s) \subseteq 1 .. Len(s) + Len(u)
        /\ \A j \in 1 .. Len(u) : Len(s) + j \in 1 .. Len(s) + Len(u)
    OBVIOUS
  <1>4. InSeq(k, s \o u) => InSeq(k, s) \/ InSeq(k, u)
    BY <1>1, <1>2 DEF InSeq
  <1>5. InSeq(k, s) => InSeq(k, s \o u)
    BY <1>1, <1>3 DEF InSeq
  <1>6. InSeq(k, u) => InSeq(k, s \o u)
    BY <1>1, <1>3 DEF InSeq
  <1> QED
    BY <1>4, <1>5, <1>6

(* The elements of a non-empty sequence.                                   *)
LEMMA InTail ==
    ASSUME NEW S, NEW s \in Seq(S), s # <<>>, NEW k
    PROVE  InSeq(k, s) <=> k = Head(s) \/ InSeq(k, Tail(s))
  <1>1. /\ Len(s) \in Nat \ {0} /\ Len(Tail(s)) = Len(s) - 1 /\ Head(s) = s[1]
        /\ \A i \in 1 .. Len(s) - 1 : Tail(s)[i] = s[i + 1]
    OBVIOUS
  <1>2. ASSUME NEW i \in 1 .. Len(s)
        PROVE  i = 1 \/ \E j \in 1 .. Len(s) - 1 : i = j + 1
    <2>1. CASE i # 1
      <3>1. i - 1 \in 1 .. Len(s) - 1 /\ i = (i - 1) + 1
        BY <2>1
      <3> QED
        BY <3>1
    <2> QED
      BY <2>1
  <1>3. 1 \in 1 .. Len(s) /\ \A j \in 1 .. Len(s) - 1 : j + 1 \in 1 .. Len(s)
    BY <1>1
  <1> QED
    BY <1>1, <1>2, <1>3 DEF InSeq

(* The empty sequence has no elements.                                     *)
LEMMA InNone == \A k : ~InSeq(k, <<>>)
  BY DEF InSeq

(* The element of a sequence of one.                                       *)
LEMMA InOne == \A k : InSeq(k, <<k>>)
  <1> SUFFICES ASSUME NEW k PROVE InSeq(k, <<k>>)
    OBVIOUS
  <1>1. Len(<<k>>) = 1 /\ <<k>>[1] = k
    OBVIOUS
  <1> QED
    BY <1>1 DEF InSeq

(* Taking a batch loses no key.                                            *)
LEMMA InBatch ==
    QueuesTyped /\ program \in Programs =>
        \A k : InSeq(k, queue["normal"]) => InSeq(k, Batch[1]) \/ InSeq(k, Batch[2])
  <1> SUFFICES ASSUME QueuesTyped, program \in Programs, NEW k, NEW i \in 1 .. Len(queue["normal"]),
                      queue["normal"][i] = k
               PROVE  InSeq(k, Batch[1]) \/ InSeq(k, Batch[2])
    BY DEF InSeq
  <1> DEFINE n == Len(queue["normal"])
  <1>1. n \in Nat /\ BatchLen \in 0 .. n
    BY BatchSplits DEF QueuesTyped, Kinds
  <1>2. CASE i <= BatchLen
    <2>1. i \in 1 .. BatchLen
      BY <1>1, <1>2
    <2> QED
      BY <2>1, BatchSplits DEF InSeq
  <1>3. CASE ~(i <= BatchLen)
    <2>1. i - BatchLen \in 1 .. n - BatchLen /\ BatchLen + (i - BatchLen) = i
      BY <1>1, <1>3
    <2>2. Batch[2][i - BatchLen] = k /\ Len(Batch[2]) = n - BatchLen
      BY <2>1, BatchSplits
    <2> QED
      BY <2>1, <2>2 DEF InSeq
  <1> QED
    BY <1>2, <1>3
Held(k) ==
    \/ InSeq(k, queue["normal"]) \/ InSeq(k, queue["polling"])
    \/ InSeq(k, pbuf) \/ InSeq(k, tbuf)

(* No step but the poll of a task takes a key out of all of them.          *)
LEMMA KeysKept ==
    TasksTyped /\ WaitsTyped /\ QueuesTyped /\ SlabConsistent /\ Phases /\ Next =>
        (\A k : Held(k) => Held(k)') \/ PollVacant \/ PollPending \/ PollResume
  <1> SUFFICES ASSUME TasksTyped, WaitsTyped, QueuesTyped, SlabConsistent, Phases, Next,
                      ~PollVacant, ~PollPending, ~PollResume, NEW k, Held(k)
               PROVE  Held(k)'
    OBVIOUS
  <1> USE DEF Held
  <1>0. /\ queue["normal"] \in Seq(Keys) /\ queue["polling"] \in Seq(Keys)
        /\ pbuf \in Seq(Keys) /\ tbuf \in Seq(Keys)
        /\ queue \in [{"normal", "polling"} -> Seq(Keys)]
    BY DEF QueuesTyped, Kinds
  <1>1. CASE UNCHANGED <<queue, buffers>>
    BY <1>1 DEF buffers
  <1>2. ASSUME NEW q \in Kinds, NEW e \in Keys, UNCHANGED buffers,
               queue' = [queue EXCEPT ![q] = Append(@, e)]
        PROVE  Held(k)'
    <2>1. InSeq(k, queue[q]) => InSeq(k, Append(queue[q], e))
      BY <1>0, <1>2, InAppend DEF Kinds
    <2> QED
      BY <1>0, <1>2, <2>1 DEF Kinds, buffers
  <1>3. ASSUME NEW t \in Tasks, NEW q \in Kinds, Spawn(t, q), UNCHANGED buffers
        PROVE  Held(k)'
    BY <1>2, <1>3, NextKeyFree DEF Spawn
  <1>4. CASE RunQueueHead \/ BlockOnHead \/ ReactorsDone
    <2>1. CASE /\ pc \in {"head", "reactors"} /\ (pc = "reactors" => mode = "progress")
               /\ UNCHANGED <<tbuf, left>> /\ pbuf' = queue["polling"]
               /\ queue' = [queue EXCEPT !["polling"] = <<>>]
      <3>1. pbuf = <<>>
        BY <2>1 DEF Phases
      <3> QED
        BY <1>0, <2>1, <3>1, InNone
    <2> QED
      BY <1>1, <1>4, <2>1, DrainPolling
  <1>5. ASSUME NEW n \in 1 .. 2, TaskYields(n) PROVE Held(k)'
    <2>1. kind[running] \in Kinds /\ key[running] \in Keys
      BY <1>5 DEF TaskYields, TasksTyped
    <2>2. [i \in 1 .. n |-> key[running]] \in Seq(Keys)
      BY <2>1, SeqDef
    <2>3. /\ queue' = [queue EXCEPT ![kind[running]] = @ \o [i \in 1 .. n |-> key[running]]]
          /\ UNCHANGED buffers
      BY <1>5 DEF TaskYields
    <2>4. InSeq(k, queue[kind[running]]) =>
             InSeq(k, queue[kind[running]] \o [i \in 1 .. n |-> key[running]])
      BY <1>0, <2>1, <2>2, InConcat DEF Kinds
    <2> QED
      BY <1>0, <2>1, <2>3, <2>4 DEF Kinds, buffers
  <1>6. CASE TaskFinishes
    <2>1. UNCHANGED buffers /\ queue' = WakeJoiner
      BY <1>6 DEF TaskFinishes
    <2>2. CASE joinWaker[running] = None
      BY <1>1, <2>1, <2>2 DEF WakeJoiner
    <2>3. CASE joinWaker[running] # None
      <3>1. joinWaker[running] \in Tasks
        BY <1>6, <2>3 DEF TaskFinishes, TasksTyped, WaitsTyped
      <3> QED
        BY <1>2, <2>1, <2>3, <3>1 DEF WakeJoiner, Wake, TasksTyped
    <2> QED
      BY <2>2, <2>3
  <1>7. ASSUME NEW r \in Reactors, NEW t \in Tasks, FireOp(r, t) PROVE Held(k)'
    BY <1>2, <1>7 DEF FireOp, Wake, TasksTyped
  <1>8. CASE DrainTasks
    <2>1. /\ tbuf = <<>> /\ pbuf' = pbuf /\ tbuf' = Batch[1]
          /\ queue' = [queue EXCEPT !["normal"] = Batch[2]]
      BY <1>8 DEF DrainTasks, Phases
    <2> QED
      <3>1. program \in Programs
        BY DEF WaitsTyped
      <3> QED
        BY <1>0, <2>1, <3>1, InNone, InBatch
  <1>9. CASE ProgressPops
    <2>1. CASE left = 0 \/ queue["normal"] = <<>>
      BY <1>9, <2>1 DEF ProgressPops
    <2>2. CASE ~(left = 0 \/ queue["normal"] = <<>>)
      <3>1. /\ tbuf = <<>> /\ pbuf' = pbuf /\ tbuf' = <<Head(queue["normal"])>>
            /\ queue' = [queue EXCEPT !["normal"] = Tail(queue["normal"])]
        BY <1>9, <2>2 DEF ProgressPops, Phases
      <3>2. InSeq(k, queue["normal"]) =>
               InSeq(k, <<Head(queue["normal"])>>) \/ InSeq(k, Tail(queue["normal"]))
        BY <1>0, <2>2, InTail, InOne
      <3> QED
        BY <1>0, <3>1, <3>2, InNone
    <2> QED
      BY <2>1, <2>2
  <1>10. CASE CallProgress
    BY <1>10 DEF CallProgress
  <1> QED
    BY <1>1, <1>3, <1>4, <1>5, <1>6, <1>7, <1>8, <1>9, <1>10, QueuesFrame

(* The poll of a task takes out the key at the head of the buffer only.    *)
LEMMA PopKeeps ==
    QueuesTyped /\ PopBuffer /\ UNCHANGED queue =>
        \A k : Held(k) => Held(k)' \/ k = Head(Buffer)
  BY InTail DEF QueuesTyped, PopBuffer, Buffer, Held

(* What keeps a task that is in no queue from hanging.                     *)
Armed(t) ==
    /\ ~Resumable(t)
    /\ awaitJoin[t] # None => /\ st[awaitJoin[t]] = "live"
                              /\ joinWaker[awaitJoin[t]] = t

(* The state NoLostWakeup reads, apart from the queues.                    *)
LEMMA WakeupFrame ==
    Next => \/ UNCHANGED <<births, awaits, ops, running>>
            \/ /\ UNCHANGED <<awaits, ops, running>>
               /\ \E t \in Tasks, q \in Kinds : Spawn(t, q)
            \/ PollPending
            \/ PollResume
            \/ \E r \in Reactors : TaskStartsOp(r)
            \/ \E n \in 1 .. 2 : TaskYields(n)
            \/ \E rs \in SUBSET Reactors, u \in Tasks \cup {None} : TaskAwaits(rs, u)
            \/ TaskFinishes
            \/ \E r \in Reactors, t \in Tasks : FireOp(r, t)
  BY DEF Next, Loop, Body, Driver, Kinds, RunQueueHead, BlockOnHead, PollReactor,
         ReactorReturns, ReactorsDone, PollVacant, DrainTasks, ProgressPops,
         EndIteration, TaskSpawns, TaskRequestsShutdown, SpawnOutside,
         RegisterReactor, CallRunQueue, CallBlockOn, CallProgress, StartIteration,
         Exits
(* A step loses no wake-up.                                                *)
LEMMA WakeupStep ==
    TypeOK /\ SlabConsistent /\ Phases /\ Joins /\ NoLostWakeup /\ Next => NoLostWakeup'
  <1> SUFFICES ASSUME TypeOK, SlabConsistent, Phases, Joins, NoLostWakeup, Next,
                      NEW t \in Tasks, (st[t] = "live" /\ running # t)'
               PROVE  Queued(t)' \/ Armed(t)'
    BY DEF NoLostWakeup, Armed
  <1>0. TasksTyped /\ WaitsTyped /\ QueuesTyped /\ None \notin Tasks
    BY DEF TypeOK, None, Tasks
  <1>1. st[t] = "live" /\ running # t => Held(key[t]) \/ Armed(t)
    BY DEF NoLostWakeup, Armed, Queued, Held
  <1>2. ASSUME \A k : Held(k) => Held(k)', key' = key, Held(key[t]) PROVE Queued(t)'
    BY <1>2 DEF Held, Queued
  <1>3. CASE PollVacant
    <2>1. UNCHANGED <<births, awaits, ops, running, queue, slab>> /\ PopBuffer
      BY <1>3 DEF PollVacant
    <2>2. key[t] # Head(Buffer)
      BY <1>0, <1>3, <2>1 DEF PollVacant, SlabConsistent, births
    <2>3. Held(key[t]) => Queued(t)'
      BY <1>0, <2>1, <2>2, PopKeeps DEF births, Held, Queued
    <2> QED
      BY <1>1, <2>1, <2>3
      DEF births, awaits, Armed, Resumable, OpFired, JoinReady
  <1>4. CASE PollPending
    <2>1. /\ UNCHANGED <<births, awaitOps, awaitJoin, result, ops, running, queue, slab>>
          /\ PopBuffer
      BY <1>4 DEF PollPending
    <2>2. PICK u \in Tasks : /\ pool[Head(Buffer)] = u /\ ~Resumable(u)
                             /\ joinWaker' = IF awaitJoin[u] = None THEN joinWaker
                                             ELSE [joinWaker EXCEPT ![awaitJoin[u]] = u]
      BY <1>4 DEF PollPending
    <2>3. joinWaker' = joinWaker
      BY <1>0, <2>2 DEF Joins, Resumable, JoinReady, WaitsTyped
    <2>4. Armed(t) => Armed(t)'
      BY <2>1, <2>3 DEF births, Armed, Resumable, OpFired, JoinReady
    <2>5. CASE key[t] # Head(Buffer)
      <3>1. Held(key[t]) => Queued(t)'
        BY <1>0, <2>1, <2>5, PopKeeps DEF births, Held, Queued
      <3> QED
        BY <1>1, <2>1, <2>4, <3>1 DEF births
    <2>6. CASE key[t] = Head(Buffer)
      <3>1. u = t
        BY <2>1, <2>2, <2>6 DEF SlabConsistent, births
      <3>2. Armed(t)
        BY <1>0, <2>2, <3>1 DEF Armed, Joins, Resumable, JoinReady, WaitsTyped
      <3> QED
        BY <2>4, <3>2
    <2> QED
      BY <2>5, <2>6
  <1>5. CASE PollResume
    <2>1. UNCHANGED <<births, joinWaker, ops, queue, slab>> /\ PopBuffer
      BY <1>5 DEF PollResume
    <2>2. PICK u \in Tasks :
             /\ pool[Head(Buffer)] = u /\ running' = u
             /\ awaitOps' = [awaitOps EXCEPT ![u] = {}]
             /\ awaitJoin' = [awaitJoin EXCEPT ![u] = None]
             /\ result' = IF JoinReady(u) THEN [result EXCEPT ![awaitJoin[u]] = "taken"]
                          ELSE result
      BY <1>5 DEF PollResume
    <2>3. running = None /\ t # u /\ key[t] # Head(Buffer)
      BY <1>0, <2>1, <2>2 DEF PopBuffer, SlabConsistent, births
    <2>4. Held(key[t]) => Queued(t)'
      BY <1>0, <2>1, <2>3, PopKeeps DEF births, Held, Queued
    <2>5. /\ awaitOps'[t] = awaitOps[t] /\ awaitJoin'[t] = awaitJoin[t]
          /\ awaitJoin[t] # None => result'[awaitJoin[t]] = result[awaitJoin[t]]
      BY <1>0, <2>2, <2>3 DEF Joins, JoinReady, WaitsTyped
    <2>6. Armed(t) => Armed(t)'
      BY <2>1, <2>5 DEF births, Armed, Resumable, OpFired, JoinReady
    <2> QED
      BY <1>0, <1>1, <2>1, <2>3, <2>4, <2>6 DEF births
  <1> SUFFICES ASSUME \A k : Held(k) => Held(k)'
               PROVE  Queued(t)' \/ Armed(t)'
    BY <1>0, <1>3, <1>4, <1>5, KeysKept
  <1>6. CASE UNCHANGED <<births, awaits, ops, running>>
    BY <1>1, <1>2, <1>6 DEF births, awaits, Armed, Resumable, OpFired, JoinReady
  <1>7. ASSUME UNCHANGED <<awaits, ops, running>>,
               NEW u \in Tasks, NEW q \in Kinds, Spawn(u, q)
        PROVE  Queued(t)' \/ Armed(t)'
    <2>1. /\ NextKey \in Keys /\ st[u] = "unborn"
          /\ st' = [st EXCEPT ![u] = "live"]
          /\ key' = [key EXCEPT ![u] = NextKey]
          /\ queue' = [queue EXCEPT ![q] = Append(@, NextKey)]
      BY <1>0, <1>7, NextKeyFree DEF Spawn
    <2>2. CASE t = u
      <3>1. InSeq(NextKey, Append(queue[q], NextKey))
        BY <1>0, <2>1, InAppend DEF QueuesTyped
      <3> QED
        BY <1>0, <2>1, <2>2, <3>1 DEF Queued, QueuesTyped, TasksTyped, Kinds
    <2>3. CASE t # u
      <3>1. key'[t] = key[t] /\ st'[t] = st[t]
        BY <1>0, <2>1, <2>3 DEF TasksTyped
      <3>2. Held(key[t]) => Queued(t)'
        BY <3>1 DEF Held, Queued
      <3>3. Armed(t) => Armed(t)'
        BY <1>0, <1>7, <2>1
        DEF awaits, Armed, Resumable, OpFired, JoinReady, TasksTyped, WaitsTyped
      <3> QED
        BY <1>1, <1>7, <3>1, <3>2, <3>3
    <2> QED
      BY <2>2, <2>3
  <1>8. ASSUME NEW r \in Reactors, TaskStartsOp(r) PROVE Queued(t)' \/ Armed(t)'
    <2>1. /\ UNCHANGED <<births, awaits, running>>
          /\ ops' = [ops EXCEPT ![r] = @ \cup {running}]
      BY <1>8 DEF TaskStartsOp
    <2>2. Armed(t) => Armed(t)'
      BY <1>0, <2>1 DEF births, awaits, Armed, Resumable, OpFired, JoinReady, WaitsTyped
    <2> QED
      BY <1>1, <1>2, <2>1, <2>2 DEF births
  <1>9. ASSUME NEW n \in 1 .. 2, TaskYields(n) PROVE Queued(t)' \/ Armed(t)'
    <2>1. /\ UNCHANGED <<births, awaits, ops>>
          /\ queue' = [queue EXCEPT ![kind[running]] = @ \o [i \in 1 .. n |-> key[running]]]
      BY <1>9 DEF TaskYields
    <2>2. CASE t = running
      <3>1. kind[t] \in Kinds /\ key[t] \in Keys
        BY <1>0 DEF TasksTyped
      <3>2. [i \in 1 .. n |-> key[t]] \in Seq(Keys)
        BY <3>1, SeqDef
      <3>3. InSeq(key[t], [i \in 1 .. n |-> key[t]])
        <4>1. Len([i \in 1 .. n |-> key[t]]) = n /\ 1 \in 1 .. n
          BY <3>2, LenProperties
        <4> QED
          BY <4>1 DEF InSeq
      <3>4. InSeq(key[t], queue[kind[t]] \o [i \in 1 .. n |-> key[t]])
        BY <1>0, <3>1, <3>2, <3>3, InConcat DEF QueuesTyped
      <3> QED
        BY <1>0, <2>1, <2>2, <3>1, <3>4 DEF Queued, QueuesTyped, Kinds, births
    <2>3. CASE t # running
      BY <1>1, <1>2, <2>1, <2>3 DEF births, awaits, Armed, Resumable, OpFired, JoinReady
    <2> QED
      BY <2>2, <2>3
  <1>10. ASSUME NEW rs \in SUBSET Reactors, NEW u \in Tasks \cup {None}, TaskAwaits(rs, u)
         PROVE  Queued(t)' \/ Armed(t)'
    <2>1. /\ UNCHANGED <<births, result, ops>>
          /\ running \in Tasks
          /\ rs \subseteq {r \in Reactors : running \in ops[r]}
          /\ rs # {} \/ u # None
          /\ awaitOps' = [awaitOps EXCEPT ![running] = rs]
          /\ awaitJoin' = [awaitJoin EXCEPT ![running] = u]
          /\ joinWaker' = IF u = None THEN joinWaker ELSE [joinWaker EXCEPT ![u] = running]
      BY <1>0, <1>10 DEF TaskAwaits, TasksTyped
    <2>2. u # None => st[u] = "live" /\ joinWaker[u] \in {None, running} /\ result[u] = "none"
      BY <1>10 DEF TaskAwaits, Joinable, Joins
    <2>3. CASE t = running
      <3>1. awaitOps'[t] = rs /\ awaitJoin'[t] = u /\ (u # None => joinWaker'[u] = t)
        BY <1>0, <2>1, <2>3 DEF WaitsTyped
      <3> QED
        BY <2>1, <2>2, <2>3, <3>1 DEF Armed, Resumable, OpFired, JoinReady, births
    <2>4. CASE t # running
      <3>1. awaitOps'[t] = awaitOps[t] /\ awaitJoin'[t] = awaitJoin[t]
        BY <1>0, <2>1, <2>4 DEF WaitsTyped
      <3>2. awaitJoin[t] # None /\ joinWaker[awaitJoin[t]] = t => joinWaker'[awaitJoin[t]] = t
        BY <1>0, <2>1, <2>2, <2>4 DEF WaitsTyped
      <3>3. Armed(t) => Armed(t)'
        BY <2>1, <3>1, <3>2 DEF Armed, Resumable, OpFired, JoinReady, births
      <3> QED
        BY <1>1, <1>2, <2>1, <2>4, <3>3 DEF births
    <2> QED
      BY <2>3, <2>4
  <1>11. CASE TaskFinishes
    <2>1. /\ running \in Tasks /\ st[running] = "live"
          /\ result' = [result EXCEPT ![running] = "set"]
          /\ queue' = WakeJoiner
          /\ joinWaker' = [joinWaker EXCEPT ![running] = None]
          /\ st' = [st EXCEPT ![running] = "done"]
          /\ UNCHANGED <<key, kind, awaitOps, awaitJoin, ops>>
      BY <1>0, <1>11 DEF TaskFinishes, TasksTyped, SlabConsistent
    <2>2. t # running /\ st[t] = "live"
      BY <1>0, <2>1 DEF TasksTyped
    <2>3. CASE awaitJoin[t] = running
      <3>1. joinWaker[running] = t
        BY <1>0, <2>1, <2>2, <2>3 DEF Joins
      <3>2. queue' = [queue EXCEPT ![kind[t]] = Append(@, key[t])]
        BY <1>0, <2>1, <3>1 DEF WakeJoiner, Wake
      <3>3. InSeq(key[t], Append(queue[kind[t]], key[t])) /\ kind[t] \in Kinds
        BY <1>0, InAppend DEF QueuesTyped, TasksTyped
      <3> QED
        BY <1>0, <2>1, <3>2, <3>3 DEF Queued, QueuesTyped, Kinds
    <2>4. CASE awaitJoin[t] # running
      <3>1. Armed(t) => Armed(t)'
        BY <1>0, <2>1, <2>4 DEF Armed, Resumable, OpFired, JoinReady, WaitsTyped, TasksTyped
      <3> QED
        BY <1>1, <1>2, <2>1, <2>2, <3>1
    <2> QED
      BY <2>3, <2>4
  <1>12. ASSUME NEW r \in Reactors, NEW u \in Tasks, FireOp(r, u) PROVE Queued(t)' \/ Armed(t)'
    <2>1. /\ UNCHANGED <<births, awaits, running>>
          /\ ops' = [ops EXCEPT ![r] = @ \ {u}]
          /\ queue' = [queue EXCEPT ![kind[u]] = Append(@, key[u])]
      BY <1>12 DEF FireOp, Wake
    <2>2. CASE t = u
      <3>1. InSeq(key[t], Append(queue[kind[t]], key[t])) /\ kind[t] \in Kinds
        BY <1>0, InAppend DEF QueuesTyped, TasksTyped
      <3> QED
        BY <1>0, <2>1, <2>2, <3>1 DEF Queued, QueuesTyped, Kinds, births
    <2>3. CASE t # u
      <3>1. Armed(t) => Armed(t)'
        BY <1>0, <2>1, <2>3
        DEF births, awaits, Armed, Resumable, OpFired, JoinReady, WaitsTyped
      <3> QED
        BY <1>1, <1>2, <2>1, <3>1 DEF births
    <2> QED
      BY <2>2, <2>3
  <1> QED
    BY <1>4, <1>5, <1>6, <1>7, <1>8, <1>9, <1>10, <1>11, <1>12, WakeupFrame
-----------------------------------------------------------------------------
(* The inductive invariant.                                                *)
IInv ==
    /\ TypeOK
    /\ SlabConsistent
    /\ Phases
    /\ Bounds
    /\ Joins
    /\ Watched
    /\ NoLostWakeup

(* IInv is inductive.                                                      *)
LEMMA Invariance == Spec => []IInv
  <1>1. Init => IInv
    <2>1. Init => NoLostWakeup
      BY DEF Init, NoLostWakeup
    <2> QED
      BY <2>1, InitOK DEF IInv
  <1>2. IInv /\ Next => IInv'
    <2> SUFFICES ASSUME IInv, Next PROVE IInv'
      OBVIOUS
    <2> USE DEF IInv
    <2>1. TypeOK' /\ SlabConsistent'
      BY TypeStep, SlabStep DEF TypeOK
    <2>2. Phases' /\ Bounds'
      BY PhasesStep, BoundsStep DEF TypeOK
    <2>3. Joins' /\ Watched'
      BY JoinsStep, WatchedStep
    <2>4. NoLostWakeup'
      BY WakeupStep
    <2> QED
      BY <2>1, <2>2, <2>3, <2>4
  <1>3. IInv /\ UNCHANGED vars => IInv'
    <2> SUFFICES ASSUME IInv, UNCHANGED vars PROVE IInv'
      OBVIOUS
    <2> USE DEF vars, slab, births, awaits, cache, buffers, counters, blocked
    <2>1. TasksTyped'
      BY DEF IInv, TypeOK, TasksTyped
    <2>2. WaitsTyped'
      BY DEF IInv, TypeOK, WaitsTyped
    <2>3. QueuesTyped' /\ ReactorsTyped'
      BY DEF IInv, TypeOK, QueuesTyped, ReactorsTyped
    <2>4. CountersTyped' /\ LoopTyped'
      BY DEF IInv, TypeOK, CountersTyped, LoopTyped
    <2>5. FlagsTyped'
      BY DEF IInv, TypeOK, FlagsTyped
    <2>6. SlabConsistent' /\ Joins'
      BY DEF IInv, SlabConsistent, Joins
    <2>7. Phases' /\ Bounds' /\ Watched'
      BY DEF IInv, Phases, Bounds, Watched
    <2>8. NoLostWakeup'
      BY DEF IInv, NoLostWakeup, Queued, Resumable, OpFired, JoinReady
    <2> QED
      BY <2>1, <2>2, <2>3, <2>4, <2>5, <2>6, <2>7, <2>8 DEF IInv, TypeOK
  <1> QED
    BY <1>1, <1>2, <1>3, PTL DEF Spec

(* The state keeps its types, and run_queue's safety bound and the stuck   *)
(* detector never count past their limits.                                 *)
THEOREM TypeCorrect == Spec => []TypeOK
  BY Invariance, PTL DEF IInv

(* Slab, tasks and free list agree through any reuse of keys: a key read   *)
(* from a run queue reaches a live task that knows it, or nothing.         *)
THEOREM SlabIsConsistent == Spec => []SlabConsistent
  BY Invariance, PTL DEF IInv

(* No wake-up is lost, for any number of tasks, keys and reactors and any  *)
(* batch size, interval and cache time, in run_queue, block_on and         *)
(* progress alike.                                                         *)
THEOREM WakeupsAreKept == Spec => []NoLostWakeup
  BY Invariance, PTL DEF IInv

(* block_on always has its result when the key it watches leaves the slab. *)
THEOREM BlockOnResult == Spec => []BlockOnHasResult
  <1>1. IInv => BlockOnHasResult
    BY DEF IInv, Watched, BlockOnHasResult
  <1> QED
    BY <1>1, Invariance, PTL

-----------------------------------------------------------------------------
(* How long a reactor waits.  Iterations that poll no reactor, when no     *)
(* polling task is queued, before one that does.                           *)
Due(i) ==
    IF i <= 1 \/ i = PollInterval \/ PollInterval = 1 THEN 0
    ELSE IF i < PollInterval THEN PollInterval - i ELSE PollInterval - 1

Longest == IF StatusCache = 0 THEN 1 ELSE StatusCache

(* The cached status hides that r has work.                                *)
Hidden(r) == cached[r] = "Stopped" /\ valid_for[r] > 0

(* The iteration has still to look at r.                                   *)
AtHand(r) == pc = "reactors" /\ mode # "progress" /\ r \in todo

InIteration == mode \in {"run_queue", "block_on"} /\ pc \in {"reactors", "ptasks", "ttasks"}

(* Iterations until r is polled, if nothing hides its work: the safety     *)
(* bound may skip one round, but not before a round was counted again.     *)
Remaining == Due(iteration) + 1 + (IF reactor_only = 0 THEN 0 ELSE PollInterval)

Awaited(r) ==
    IF Hidden(r) THEN starve[r] + valid_for[r] <= Longest
    ELSE IF AtHand(r) THEN starve[r] <= Latency
    ELSE /\ starve[r] + Remaining <= Latency
         /\ InIteration /\ should_poll => starve[r] = 0

(* The rounds a reactor with work has waited and those it has still to     *)
(* wait are never more than Latency together.                              *)
Timely ==
    /\ \A r \in Reactors : valid_for[r] <= StatusCache
    /\ inReactor # {} => pc = "reactors"
    /\ \A r \in inReactor : starve[r] = 0
    /\ \A r \in Reactors : ops[r] = {} => starve[r] = 0
    /\ \A r \in Reactors : ops[r] # {} => r \in registered
    /\ \A r \in Reactors : program.status[r] = "prompt" /\ ops[r] # {} => Awaited(r)

(* The interval test, without the remainder.                               *)
LEMMA IntervalTest ==
    ASSUME NEW i \in 0 .. PollInterval + 1
    PROVE  i % PollInterval = 0 <=> i = 0 \/ i = PollInterval \/ PollInterval = 1
  <1> DEFINE p == PollInterval
  <1>0. p \in Nat \ {0} /\ i \in Nat
    BY ExecutorAssumption
  <1>1. CASE p = 1
    <2>1. i % 1 = 0
      BY <1>0
    <2> QED
      BY <1>1, <2>1
  <1>2. CASE p > 1 /\ i < p
    <2>1. i % p = i
      BY <1>0, <1>2
    <2> QED
      BY <1>0, <1>2, <2>1
  <1>3. CASE p > 1 /\ i = p
    <2>1. p % p = 0
      BY <1>0
    <2> QED
      BY <1>0, <1>3, <2>1
  <1>4. CASE p > 1 /\ i = p + 1
    <2>1. (p + 1) % p = 1
      BY <1>0, <1>4
    <2> QED
      BY <1>0, <1>4, <2>1
  <1> QED
    BY <1>0, <1>1, <1>2, <1>3, <1>4

(* Each iteration that polls no reactor is one less to wait for.           *)
LEMMA DueCounts ==
    ASSUME CountersTyped
    PROVE  /\ PollInterval \in Nat \ {0}
           /\ Due(iteration) \in 0 .. PollInterval - 1
           /\ Due(NextIteration) \in 0 .. PollInterval - 1
           /\ Due(iteration) > 0 => Due(NextIteration) = Due(iteration) - 1
           /\ Due(iteration) = 0 <=> iteration <= 1 \/ iteration % PollInterval = 0
  <1>1. PollInterval \in Nat \ {0} /\ iteration \in 0 .. PollInterval + 1
    BY ExecutorAssumption DEF CountersTyped
  <1>2. iteration % PollInterval = 0 <=> iteration = 0 \/ iteration = PollInterval \/ PollInterval = 1
    BY <1>1, IntervalTest
  <1>3. Due(iteration) \in 0 .. PollInterval - 1
    BY <1>1 DEF Due
  <1>4. NextIteration \in 1 .. PollInterval + 1
    BY <1>1 DEF NextIteration
  <1>5. Due(NextIteration) \in 0 .. PollInterval - 1
    BY <1>1, <1>4 DEF Due
  <1>6. Due(iteration) > 0 => Due(NextIteration) = Due(iteration) - 1
    BY <1>1 DEF Due, NextIteration
  <1>7. Due(iteration) = 0 <=> iteration <= 1 \/ iteration % PollInterval = 0
    BY <1>1, <1>2 DEF Due
  <1> QED
    BY <1>1, <1>3, <1>5, <1>6, <1>7

LEMMA LatencyIs ==
    /\ PollInterval \in Nat \ {0} /\ StatusCache \in Nat
    /\ Longest \in Nat \ {0} /\ StatusCache <= Longest
    /\ Latency = Longest + 2 * PollInterval - 1 /\ Latency \in Nat
  BY ExecutorAssumption DEF Longest, Latency

LEMMA RemainingIs ==
    ASSUME CountersTyped
    PROVE  Remaining \in 1 .. 2 * PollInterval /\ Remaining <= Latency
  <1>1. Due(iteration) \in 0 .. PollInterval - 1 /\ PollInterval \in Nat \ {0}
    BY DueCounts
  <1>2. Remaining \in 1 .. 2 * PollInterval
    BY <1>1 DEF Remaining
  <1> QED
    BY <1>2, LatencyIs

(* A reactor polled just now, or without work, has its whole wait ahead.   *)
LEMMA PolledAwaited ==
    CountersTyped /\ ReactorsTyped =>
        \A r \in Reactors : starve[r] = 0 /\ valid_for[r] <= StatusCache => Awaited(r)
  <1> SUFFICES ASSUME CountersTyped, ReactorsTyped, NEW r \in Reactors, starve[r] = 0,
                      valid_for[r] <= StatusCache
               PROVE  Awaited(r)
    OBVIOUS
  <1>1. valid_for[r] \in Nat
    BY DEF ReactorsTyped
  <1>2. starve[r] + valid_for[r] <= Longest /\ starve[r] <= Latency
    BY <1>1, LatencyIs
  <1>3. starve[r] + Remaining <= Latency
    BY RemainingIs, LatencyIs
  <1> QED
    BY <1>2, <1>3 DEF Awaited

LEMMA PolledAwaitedNext ==
    (CountersTyped /\ ReactorsTyped =>
        \A r \in Reactors : starve[r] = 0 /\ valid_for[r] <= StatusCache => Awaited(r))'
  BY PolledAwaited, PTL

(* Steps that leave the reactors and the counters alone, and do not go on  *)
(* to the tasks with a reactor still to be looked at.                      *)
Moves ==
    /\ UNCHANGED <<valid_for, cached, inReactor, starve, ops, registered, program, iteration,
                   reactor_only, should_poll>>
    /\ \A r \in Reactors : AtHand(r) => pc' = "reactors" /\ mode' # "progress" /\ r \in todo'
    /\ InIteration' => InIteration
    /\ inReactor # {} => pc' = "reactors"

LEMMA MovesKeep ==
    ASSUME TypeOK, Timely, Moves
    PROVE  Timely'
  <1>1. UNCHANGED <<valid_for, cached, inReactor, starve, ops, registered, program, iteration,
                    reactor_only, should_poll>>
    BY DEF Moves
  <1>2. \A r \in Reactors : valid_for'[r] <= StatusCache
    BY <1>1 DEF Timely
  <1>3. /\ inReactor' # {} => pc' = "reactors"
        /\ \A r \in inReactor' : starve'[r] = 0
        /\ \A r \in Reactors : ops'[r] = {} => starve'[r] = 0
        /\ \A r \in Reactors : ops'[r] # {} => r \in registered'
    BY <1>1 DEF Timely, Moves
  <1>4. ASSUME NEW r \in Reactors, program'.status[r] = "prompt", ops'[r] # {}
        PROVE  Awaited(r)'
    <2>1. Awaited(r)
      BY <1>1, <1>4 DEF Timely
    <2>2. Hidden(r)' <=> Hidden(r)
      BY <1>1 DEF Hidden
    <2>3. Remaining' = Remaining /\ starve' = starve /\ valid_for' = valid_for
      BY <1>1 DEF Remaining, Due
    <2>4. AtHand(r) => AtHand(r)'
      BY DEF Moves, AtHand
    <2>5. starve[r] \in Nat /\ Remaining \in Nat /\ Latency \in Nat
      BY RemainingIs, LatencyIs DEF TypeOK, ReactorsTyped
    <2>6. InIteration' /\ should_poll' => InIteration /\ should_poll
      BY <1>1 DEF Moves
    <2>7. CASE Hidden(r)
      BY <2>1, <2>2, <2>3, <2>7 DEF Awaited
    <2>8. CASE ~Hidden(r) /\ AtHand(r)
      BY <2>1, <2>2, <2>3, <2>4, <2>8 DEF Awaited
    <2>9. CASE ~Hidden(r) /\ ~AtHand(r)
      <3>1. starve[r] + Remaining <= Latency /\ (InIteration /\ should_poll => starve[r] = 0)
        BY <2>1, <2>9 DEF Awaited
      <3>2. starve[r] <= Latency
        BY <2>5, <3>1
      <3> QED
        BY <2>2, <2>3, <2>6, <2>9, <3>1, <3>2 DEF Awaited
    <2> QED
      BY <2>7, <2>8, <2>9
  <1> QED
    BY <1>2, <1>3, <1>4 DEF Timely

LEMMA SumBounds ==
    ASSUME NEW a \in Nat, NEW b \in Nat, NEW c \in Nat, NEW d \in Nat, a <= c, b <= 2 * d - 1
    PROVE  a + b <= c + 2 * d - 1
  OBVIOUS

(* An iteration begins: it looks at every reactor, or brings the iteration *)
(* that does, and the expiry of a cached status, nearer by one.            *)
LEMMA StartAwaited ==
    ASSUME TypeOK, Timely, NEW b \in BOOLEAN, StartIteration(b), pc = "head",
           mode \in {"run_queue", "block_on"},
           b => reactor_only # 0 /\ reactor_only' = 0,
           ~b => reactor_only' = reactor_only,
           NEW r \in Reactors, program.status[r] = "prompt", ops[r] # {}
    PROVE  Awaited(r)'
  <1> DEFINE poll == ShouldPoll(b)
             v == valid_for[r]
             s == starve[r]
             d == Due(iteration)
             e == Due(NextIteration)
  <1>1. Awaited(r) /\ r \in registered
    BY DEF Timely
  <1>2. s \in Nat /\ v \in Nat
    BY DEF TypeOK, ReactorsTyped
  <1>3. /\ PollInterval \in Nat \ {0} /\ d \in 0 .. PollInterval - 1 /\ e \in 0 .. PollInterval - 1
        /\ d > 0 => e = d - 1
    BY DueCounts DEF TypeOK
  <1>4. ~poll /\ ~b => d > 0
    BY <1>3, DueCounts DEF TypeOK, ShouldPoll
  <1>5. /\ Remaining = d + 1 + (IF reactor_only = 0 THEN 0 ELSE PollInterval)
        /\ Remaining' = e + 1 + (IF reactor_only' = 0 THEN 0 ELSE PollInterval)
    <2>1. iteration' = NextIteration
      BY DEF StartIteration
    <2> QED
      BY <2>1 DEF Remaining, Due
  <1>6. /\ Longest \in Nat \ {0} /\ Latency \in Nat
        /\ Latency = Longest + 2 * PollInterval - 1
    BY LatencyIs
  <1>7. ~AtHand(r)
    BY DEF AtHand
  <1>8. /\ Hidden(r) => s + v <= Longest
        /\ ~Hidden(r) => s + Remaining <= Latency
    BY <1>1, <1>7 DEF Awaited
  <1>9. s + 1 <= Latency
    <2>1. Hidden(r) => v > 0
      BY DEF Hidden
    <2>2. Remaining >= 1 /\ Remaining \in Nat
      BY <1>3, <1>5
    <2> HIDE DEF s, v
    <2> QED
      BY <1>2, <1>3, <1>6, <1>8, <2>1, <2>2
  <1>10. /\ cached' = cached
         /\ valid_for'[r] = (IF v = 0 THEN 0 ELSE v - 1)
         /\ starve'[r] = s + 1
    <2>1. starve'[r] = IF s > Latency THEN s ELSE s + 1
      BY DEF StartIteration
    <2>2. ~(s > Latency)
      BY <1>2, <1>6, <1>9
    <2>3. cached' = cached /\ valid_for'[r] = (IF v = 0 THEN 0 ELSE v - 1)
      BY DEF StartIteration, Aged
    <2> QED
      BY <2>1, <2>2, <2>3
  <1>11. poll => AtHand(r)'
    BY <1>1 DEF StartIteration, AtHand
  <1>12. should_poll' = poll
    BY DEF StartIteration
  <1>13. Hidden(r)' <=> cached[r] = "Stopped" /\ v > 1
    BY <1>2, <1>10 DEF Hidden
  <1> HIDE DEF poll, v, s, d, e
  <1>14. CASE Hidden(r)'
    <2>1. Hidden(r) /\ v > 1
      BY <1>2, <1>13, <1>14 DEF Hidden, v
    <2>2. starve'[r] + valid_for'[r] <= Longest
      BY <1>2, <1>6, <1>8, <1>10, <2>1
    <2> QED
      BY <1>14, <2>2 DEF Awaited
  <1>15. CASE ~Hidden(r)' /\ poll
    BY <1>9, <1>10, <1>11, <1>15 DEF Awaited
  <1>16. CASE ~Hidden(r)' /\ ~poll
    <2>1. s + 1 + Remaining' <= Latency
      <3>1. CASE Hidden(r)
        <4>1. s + 1 <= Longest
          BY <1>2, <1>6, <1>8, <3>1 DEF Hidden, v
        <4>2. Remaining' <= 2 * PollInterval - 1 /\ Remaining' \in Nat
          <5>1. CASE b
            BY <1>3, <1>5, <5>1
          <5>2. CASE ~b
            BY <1>3, <1>4, <1>5, <1>16, <5>2
          <5> QED
            BY <5>1, <5>2
        <4>3. s + 1 \in Nat
          BY <1>2
        <4> QED
          BY <1>3, <1>6, <4>1, <4>2, <4>3, SumBounds
      <3>2. CASE ~Hidden(r) /\ b
        <4>1. Remaining = d + 1 + PollInterval /\ Remaining' = e + 1
          BY <1>3, <1>5, <3>2
        <4> QED
          BY <1>2, <1>3, <1>6, <1>8, <3>2, <4>1
      <3>3. CASE ~Hidden(r) /\ ~b
        <4>1. Remaining' = Remaining - 1 /\ Remaining \in Nat
          BY <1>3, <1>4, <1>5, <1>16, <3>3
        <4> QED
          BY <1>2, <1>6, <1>8, <3>3, <4>1
      <3> QED
        BY <3>1, <3>2, <3>3
    <2>2. ~AtHand(r)'
      <3>1. todo' = {}
        BY <1>16 DEF StartIteration, poll
      <3> QED
        BY <3>1 DEF AtHand
    <2> QED
      BY <1>10, <1>12, <1>16, <2>1, <2>2 DEF Awaited
  <1> QED
    BY <1>14, <1>15, <1>16

LEMMA StartKeepsTimely ==
    ASSUME TypeOK, Timely, NEW b \in BOOLEAN, StartIteration(b), pc = "head",
           mode \in {"run_queue", "block_on"}, UNCHANGED program,
           b => reactor_only # 0 /\ reactor_only' = 0,
           ~b => reactor_only' = reactor_only
    PROVE  Timely'
  <1>1. inReactor' = {}
    BY DEF StartIteration, Timely
  <1>2. ops' = ops /\ registered' = registered
    BY DEF StartIteration
  <1>3. \A r \in Reactors : valid_for'[r] <= StatusCache
    BY LatencyIs DEF StartIteration, Aged, Timely, TypeOK, ReactorsTyped
  <1>4. \A r \in Reactors : ops'[r] = {} => starve'[r] = 0
    BY DEF StartIteration
  <1>5. \A r \in Reactors : program'.status[r] = "prompt" /\ ops'[r] # {} => Awaited(r)'
    BY <1>2, StartAwaited
  <1>6. \A r \in Reactors : ops'[r] # {} => r \in registered'
    BY <1>2 DEF Timely
  <1> QED
    BY <1>1, <1>3, <1>4, <1>5, <1>6 DEF Timely

(* A reactor is looked at: it is polled, or its cached status hides it, or *)
(* it has no work.                                                         *)
LEMMA PollKeepsTimely ==
    ASSUME TypeOK, TypeOK', Timely, NEW r \in Reactors, PollReactor(r), UNCHANGED program
    PROVE  Timely'
  <1>1. /\ UNCHANGED <<ops, registered, mode, pc, iteration, reactor_only, should_poll>>
        /\ todo' = todo \ {r} /\ pc = "reactors" /\ inReactor = {}
    BY DEF PollReactor, counters
  <1>2. PICK status \in {"Running", "Stopped"} :
            /\ IF mode # "progress" /\ valid_for[r] > 0
               THEN status = cached[r] /\ UNCHANGED cache
               ELSE /\ status \in StatusOf(r)
                    /\ IF mode = "progress" THEN UNCHANGED cache
                       ELSE /\ cached' = [cached EXCEPT ![r] = status]
                            /\ valid_for' = [valid_for EXCEPT ![r] = StatusCache]
            /\ IF status = "Running"
               THEN inReactor' = {r} /\ starve' = [starve EXCEPT ![r] = 0]
               ELSE UNCHANGED <<inReactor, starve>>
    BY DEF PollReactor
  <1>3. /\ valid_for \in [Reactors -> Nat] /\ cached \in [Reactors -> {"Running", "Stopped"}]
        /\ starve \in [Reactors -> Nat]
    BY DEF TypeOK, ReactorsTyped
  <1>4. \A q \in Reactors : q # r => /\ valid_for'[q] = valid_for[q] /\ cached'[q] = cached[q]
                                     /\ starve'[q] = starve[q]
    BY <1>2, <1>3 DEF cache
  <1>5. valid_for'[r] = valid_for[r] \/ valid_for'[r] = StatusCache
    BY <1>2, <1>3 DEF cache
  <1>6. starve'[r] = 0 \/ UNCHANGED <<inReactor, starve>>
    BY <1>2, <1>3
  <1>7. \A q \in Reactors : valid_for'[q] <= StatusCache
    BY <1>4, <1>5, LatencyIs DEF Timely
  <1>8. \A q \in inReactor' : starve'[q] = 0
    BY <1>1, <1>2, <1>3
  <1>9. \A q \in Reactors : ops'[q] = {} => starve'[q] = 0
    BY <1>1, <1>4, <1>6 DEF Timely
  <1>10. ASSUME NEW q \in Reactors, program.status[q] = "prompt", ops[q] # {}
         PROVE  Awaited(q)'
    <2>0. Awaited(q)
      BY <1>10 DEF Timely
    <2>1. CASE starve'[q] = 0
      BY <1>7, <2>1, PolledAwaitedNext DEF TypeOK
    <2>2. CASE q # r
      <3>1. (Hidden(q)' <=> Hidden(q)) /\ (AtHand(q)' <=> AtHand(q)) /\ (InIteration' <=> InIteration)
        BY <1>1, <1>4, <2>2 DEF Hidden, AtHand, InIteration
      <3>2. Remaining' = Remaining
        BY <1>1 DEF Remaining, Due
      <3> QED
        BY <1>1, <1>4, <2>0, <2>2, <3>1, <3>2 DEF Awaited
    <2>3. CASE q = r /\ starve'[q] # 0
      <3>1. status = "Stopped" /\ starve' = starve
        BY <1>2, <1>3, <2>3
      <3>2. StatusOf(r) = {"Running"}
        BY <1>10, <2>3 DEF StatusOf
      <3>3. Hidden(r) /\ UNCHANGED cache
        BY <1>2, <3>1, <3>2 DEF Hidden
      <3> QED
        BY <2>0, <2>3, <3>1, <3>3 DEF Awaited, Hidden, cache
    <2> QED
      BY <2>1, <2>2, <2>3
  <1>11. \A q \in Reactors : program'.status[q] = "prompt" /\ ops'[q] # {} => Awaited(q)'
    BY <1>1, <1>10
  <1>12. \A q \in Reactors : ops'[q] # {} => q \in registered'
    BY <1>1 DEF Timely
  <1> QED
    BY <1>1, <1>7, <1>8, <1>9, <1>11, <1>12 DEF Timely

(* Operations come and go: the first one finds the count at zero, and the  *)
(* last one ends in the reactor's poll.                                    *)
LEMMA OpsKeepTimely ==
    ASSUME TypeOK, Timely, NEW r \in Reactors,
           \/ TaskStartsOp(r) /\ UNCHANGED program
           \/ \E t \in Tasks : FireOp(r, t)
    PROVE  Timely'
  <1>1. UNCHANGED <<valid_for, cached, inReactor, starve, registered, program, iteration,
                    reactor_only, should_poll, mode, pc, todo>>
    BY DEF TaskStartsOp, FireOp, cache, counters
  <1>2. ops \in [Reactors -> SUBSET Tasks]
    BY DEF TypeOK, WaitsTyped
  <1>3. \A q \in Reactors : q # r => ops'[q] = ops[q]
    BY <1>2 DEF TaskStartsOp, FireOp
  <1>4. ops'[r] # {} => r \in registered
    BY <1>2 DEF TaskStartsOp, FireOp, Timely
  <1>5. ops'[r] = {} => starve[r] = 0
    BY <1>2 DEF TaskStartsOp, FireOp, Timely
  <1>6. ASSUME NEW q \in Reactors, program.status[q] = "prompt", ops'[q] # {}
        PROVE  Awaited(q)'
    <2>1. Awaited(q)
      <3>1. CASE ops[q] # {}
        BY <1>6, <3>1 DEF Timely
      <3>2. CASE ops[q] = {}
        BY <3>2, PolledAwaited DEF Timely, TypeOK
      <3> QED
        BY <3>1, <3>2
    <2> QED
      BY <1>1, <2>1 DEF Awaited, Hidden, AtHand, InIteration, Remaining, Due
  <1>7. \A q \in Reactors : ops'[q] = {} => starve'[q] = 0
    BY <1>1, <1>3, <1>5 DEF Timely
  <1>8. \A q \in Reactors : ops'[q] # {} => q \in registered'
    BY <1>1, <1>3, <1>4 DEF Timely
  <1> QED
    BY <1>1, <1>6, <1>7, <1>8 DEF Timely

LEMMA RegisterKeepsTimely ==
    ASSUME TypeOK, Timely, NEW r \in Reactors, RegisterReactor(r), UNCHANGED program
    PROVE  Timely'
  <1>1. /\ UNCHANGED <<ops, inReactor, starve, program, iteration, reactor_only, should_poll, mode,
                       pc, todo>>
        /\ registered' = registered \cup {r} /\ r \notin registered
    BY DEF RegisterReactor, counters
  <1>2. /\ valid_for \in [Reactors -> Nat] /\ cached \in [Reactors -> {"Running", "Stopped"}]
    BY DEF TypeOK, ReactorsTyped
  <1>3. \A q \in Reactors : IF q = r THEN valid_for'[q] = 0
                            ELSE valid_for'[q] = valid_for[q] /\ cached'[q] = cached[q]
    BY <1>2 DEF RegisterReactor
  <1>4. ops[r] = {}
    BY <1>1 DEF Timely
  <1>5. ASSUME NEW q \in Reactors, program.status[q] = "prompt", ops[q] # {}
        PROVE  Awaited(q)'
    <2>1. Awaited(q) /\ q # r
      BY <1>4, <1>5 DEF Timely
    <2>2. valid_for'[q] = valid_for[q] /\ cached'[q] = cached[q]
      BY <1>3, <2>1
    <2> QED
      BY <1>1, <2>1, <2>2 DEF Awaited, Hidden, AtHand, InIteration, Remaining, Due
  <1>6. \A q \in Reactors : valid_for'[q] <= StatusCache
    BY <1>3, LatencyIs DEF Timely
  <1> QED
    BY <1>1, <1>5, <1>6 DEF Timely

(* The round that run_queue counts towards its safety bound is one in      *)
(* which every reactor that could be polled was.                           *)
LEMMA EndKeepsTimely ==
    ASSUME TypeOK, TypeOK', Timely, EndIteration, UNCHANGED program
    PROVE  Timely'
  <1>1. /\ UNCHANGED <<ops, registered, valid_for, cached, inReactor, starve, iteration,
                       should_poll, todo>>
        /\ pc = "ttasks" /\ mode \in {"run_queue", "block_on"} /\ pc' \in {"head", "idle"}
    BY DEF EndIteration, Return, cache
  <1>2. inReactor = {}
    BY <1>1 DEF Timely
  <1>3. should_poll \/ reactor_only' = 0 \/ reactor_only' = reactor_only
    BY DEF EndIteration
  <1>4. ASSUME NEW r \in Reactors, program.status[r] = "prompt", ops[r] # {}
        PROVE  Awaited(r)'
    <2>1. Awaited(r)
      BY <1>4 DEF Timely
    <2>2. (Hidden(r)' <=> Hidden(r)) /\ ~AtHand(r) /\ ~AtHand(r)' /\ InIteration /\ ~InIteration'
      BY <1>1 DEF Hidden, AtHand, InIteration
    <2>3. CASE Hidden(r)
      BY <1>1, <2>1, <2>2, <2>3 DEF Awaited
    <2>4. CASE ~Hidden(r) /\ should_poll
      <3>1. starve'[r] = 0 /\ valid_for'[r] <= StatusCache
        BY <1>1, <2>1, <2>2, <2>4 DEF Awaited, Timely
      <3> QED
        BY <3>1, PolledAwaitedNext DEF TypeOK
    <2>5. CASE ~Hidden(r) /\ ~should_poll
      <3>1. starve[r] + Remaining <= Latency
        BY <2>1, <2>2, <2>5 DEF Awaited
      <3>2. Due(iteration)' = Due(iteration) /\ Due(iteration) \in Nat /\ PollInterval \in Nat
        BY <1>1, DueCounts DEF Due, TypeOK
      <3>3. Remaining' <= Remaining /\ Remaining' \in Nat /\ Remaining \in Nat
        BY <1>3, <2>5, <3>2 DEF Remaining
      <3>4. starve[r] \in Nat /\ Latency \in Nat
        BY LatencyIs DEF TypeOK, ReactorsTyped
      <3>5. starve'[r] + Remaining' <= Latency
        BY <1>1, <3>1, <3>3, <3>4
      <3> QED
        BY <2>2, <2>5, <3>5 DEF Awaited
    <2> QED
      BY <2>3, <2>4, <2>5
  <1> QED
    BY <1>1, <1>2, <1>4 DEF Timely

(* The steps of tasks, of the calls and of the walk over the buffers.      *)
LEMMA TimelyFrame ==
    ASSUME LoopTyped, Phases, Timely, Next
    PROVE  \/ Moves
           \/ RunQueueHead \/ BlockOnHead \/ EndIteration \/ ReactorReturns
           \/ \E r \in Reactors : PollReactor(r) \/ RegisterReactor(r) \/ TaskStartsOp(r)
           \/ \E r \in Reactors, t \in Tasks : FireOp(r, t)
  <1> USE DEF cache, counters
  <1>1. CASE \/ PollVacant \/ PollPending \/ PollResume
             \/ \E t \in Tasks, q \in Kinds : TaskSpawns(t, q) \/ SpawnOutside(t, q)
             \/ TaskRequestsShutdown \/ TaskFinishes
             \/ \E n \in 1 .. 2 : TaskYields(n)
             \/ \E rs \in SUBSET Reactors, u \in Tasks \cup {None} : TaskAwaits(rs, u)
    <2>1. CASE UNCHANGED program
      <3>1. UNCHANGED <<valid_for, cached, inReactor, starve, registered, iteration, reactor_only,
                        should_poll, mode, pc, todo, ops>>
        BY <1>1 DEF PollVacant, PollPending, PollResume, TaskSpawns, SpawnOutside,
           TaskRequestsShutdown, TaskFinishes, TaskYields, TaskAwaits
      <3> QED
        BY <2>1, <3>1 DEF Moves, AtHand, InIteration, Timely
    <2> QED
      BY <2>1, ProgramFixed
  <1>2. CASE CallRunQueue \/ (\E t \in Tasks : CallBlockOn(t)) \/ CallProgress
    <2>1. pc = "idle" /\ (pc' = "head" \/ mode' = "progress") /\ inReactor = {}
      BY <1>2 DEF CallRunQueue, CallBlockOn, CallProgress, Call, Phases, Timely
    <2>2. UNCHANGED <<valid_for, cached, inReactor, starve, registered, iteration, reactor_only,
                      should_poll, ops>>
      BY <1>2 DEF CallRunQueue, CallBlockOn, CallProgress
    <2> QED
      BY <2>1, <2>2, ProgramFixed DEF Moves, AtHand, InIteration
  <1>3. CASE DrainTasks \/ ProgressPops
    <2>1. /\ pc \in {"ptasks", "ttasks"} /\ inReactor = {}
          /\ (InIteration \/ mode = "progress")
          /\ mode' \in {mode, "none"}
      BY <1>3 DEF DrainTasks, ProgressPops, Return, Timely, InIteration
    <2>2. UNCHANGED <<valid_for, cached, inReactor, starve, registered, iteration, reactor_only,
                      should_poll, ops>>
      BY <1>3 DEF DrainTasks, ProgressPops
    <2> QED
      BY <2>1, <2>2, ProgramFixed DEF Moves, AtHand, InIteration
  <1>4. CASE ReactorsDone
    BY <1>4, ProgramFixed DEF ReactorsDone, Moves, AtHand, InIteration
  <1> QED
    BY <1>1, <1>2, <1>3, <1>4 DEF Next, Loop, Body, Driver

LEMMA HeadKeepsTimely ==
    ASSUME TypeOK, Timely, RunQueueHead \/ BlockOnHead, UNCHANGED program
    PROVE  Timely'
  <1>1. pc = "head" /\ mode \in {"run_queue", "block_on"} /\ inReactor = {}
    BY DEF RunQueueHead, BlockOnHead, Timely
  <1>2. ASSUME NEW how, Exits(how) PROVE Timely'
    <2>1. Moves
      BY <1>1, <1>2 DEF Exits, Return, Moves, AtHand, InIteration, cache, counters
    <2> QED
      BY <2>1, MovesKeep
  <1>3. CASE SafetyOverride /\ reactor_only' = 0 /\ StartIteration(TRUE)
    <2>1. reactor_only # 0
      BY <1>3, ExecutorAssumption DEF SafetyOverride, TypeOK, CountersTyped
    <2> QED
      BY <1>1, <1>3, <2>1, StartKeepsTimely
  <1>4. CASE StartIteration(FALSE) /\ UNCHANGED reactor_only
    BY <1>1, <1>4, StartKeepsTimely
  <1> QED
    BY <1>2, <1>3, <1>4 DEF RunQueueHead, BlockOnHead

LEMMA TimelyStep == IInv /\ Timely /\ Next => Timely'
  <1> SUFFICES ASSUME IInv, Timely, Next PROVE Timely'
    OBVIOUS
  <1>1. TypeOK /\ TypeOK' /\ LoopTyped /\ Phases
    BY TypeStep DEF IInv, TypeOK
  <1>2. UNCHANGED program
    BY ProgramFixed
  <1>3. CASE RunQueueHead \/ BlockOnHead
    BY <1>1, <1>2, <1>3, HeadKeepsTimely
  <1>4. CASE EndIteration
    BY <1>1, <1>2, <1>4, EndKeepsTimely
  <1>5. CASE ReactorReturns
    BY <1>2, <1>5 DEF ReactorReturns, Timely, Awaited, Hidden, AtHand, InIteration, Remaining, Due,
       cache, counters
  <1>6. CASE \E r \in Reactors : PollReactor(r) \/ RegisterReactor(r) \/ TaskStartsOp(r)
    BY <1>1, <1>2, <1>6, PollKeepsTimely, RegisterKeepsTimely, OpsKeepTimely
  <1>7. CASE \E r \in Reactors, t \in Tasks : FireOp(r, t)
    BY <1>1, <1>7, OpsKeepTimely
  <1>8. CASE Moves
    BY <1>1, <1>8, MovesKeep
  <1> QED
    BY <1>1, <1>3, <1>4, <1>5, <1>6, <1>7, <1>8, TimelyFrame

(* A registered reactor that says Running while it has work is polled      *)
(* within Latency iterations, for every interval, cache time and safety    *)
(* bound, and whichever of run_queue, block_on and progress is called.     *)
THEOREM PolledInTime == Spec => []ReactorPolledInTime
  <1>1. Init => Timely
    BY ExecutorAssumption DEF Init, Timely
  <1>2. IInv /\ Timely /\ [Next]_vars => Timely'
    <2>1. Timely /\ UNCHANGED vars => Timely'
      BY DEF vars, Timely, Awaited, Hidden, AtHand, InIteration, Remaining, Due, cache, counters
    <2> QED
      BY <2>1, TimelyStep
  <1>3. IInv /\ Timely => ReactorPolledInTime
    <2> SUFFICES ASSUME IInv, Timely, NEW r \in registered, program.status[r] = "prompt"
                 PROVE  starve[r] <= Latency
      BY DEF ReactorPolledInTime
    <2>1. r \in Reactors /\ starve[r] \in Nat /\ valid_for[r] \in Nat /\ CountersTyped
      BY DEF IInv, TypeOK, ReactorsTyped
    <2>2. CASE ops[r] = {}
      BY <2>1, <2>2, LatencyIs DEF Timely
    <2>3. CASE ops[r] # {}
      <3>1. Awaited(r)
        BY <2>1, <2>3 DEF Timely
      <3>2. CASE Hidden(r)
        <4>1. starve[r] + valid_for[r] <= Longest
          BY <3>1, <3>2 DEF Awaited
        <4> QED
          BY <2>1, <4>1, LatencyIs
      <3>3. CASE ~Hidden(r) /\ AtHand(r)
        BY <3>1, <3>3 DEF Awaited
      <3>4. CASE ~Hidden(r) /\ ~AtHand(r)
        <4>1. starve[r] + Remaining <= Latency /\ Remaining \in Nat /\ Latency \in Nat
          BY <2>1, <3>1, <3>4, RemainingIs, LatencyIs DEF Awaited
        <4> QED
          BY <2>1, <4>1
      <3> QED
        BY <3>2, <3>3, <3>4
    <2> QED
      BY <2>2, <2>3
  <1> QED
    BY <1>1, <1>2, <1>3, Invariance, PTL DEF Spec
=============================================================================
