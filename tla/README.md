# pluvio in TLA+

pluvio is a single-threaded async runtime for Rust with reactors for io_uring,
UCX, MPI and timers, and a library of collective communication on top of it.
This directory models its core in TLA+, checks the models with TLC on small
instances and proves the central safety properties with TLAPS for all
instances. `PROJECT.json` lists components, runs, mutants, the map from
definitions to source lines, findings, hazards and theorems.

## 1. Inventory

### Parts, their state and operations

| part (source) | state | operations |
|---|---|---|
| spsc channel (`pluvio_runtime/src/executor/spsc.rs`) | ring of `MaybeUninit` cells, head, tail, sender and receiver flags, `Rc` | send, recv, grow, clone and drop of both ends, drop of the ring |
| executor (`executor/mod.rs`, `task/`, `select.rs`) | slab of tasks, two queues of slab keys, reusable buffers, registered reactors with cached status, iteration/stuck/reactor-only counters, `SharedState` of every JoinHandle | spawn (normal, polling), `run_queue`, `block_on`, `progress`, `register_reactor`, `request_shutdown`, wake, poll of a task, JoinHandle, Select2 |
| fixed-buffer allocator (`pluvio_uring/src/allocator.rs`) | free buffers, queue of waiting `LazyAcquireState`s | acquire, try_acquire, poll and drop of LazyAcquire, drop of a buffer, drop of the allocator |
| io_uring reactor (`reactor.rs`, `builder.rs`, `file.rs`, `socket.rs`) | SQ, CQ, map from user_data to HandleState, two counters, last submit time, SubmitThread (flag, park token) | push_sqe, poll_submit_and_completions, status, wait_cqueue, WaitHandle::poll, file and UDP operations |
| timer (`pluvio_timer/src/lib.rs`) | map from deadline to timers, counter of timers | Delay and Timeout (poll, drop), TimerReactor::poll, status |
| UCX worker and reactor (`pluvio_ucx/src/`) | state of each worker, its listener ids, counter of active or waiting workers | activate, wait_connect, deactivate, the endpoint operations (those that leave the state alone too: flush, close), AM streams, listeners, reactor poll |
| AM router (`pluvio_collective/src/ucx_backend/am_router.rs`) | slot (Pending, Early) per key | deliver, dispatcher loop, RecvFuture (poll, drop) |
| UCX collectives (`ucx_backend/{ring,pipelined_ring,recursive_doubling,adaptive,bruck,broadcast,scatter}.rs`) | buffers, round and chains in flight of each rank, messages | six algorithms and the choice among three of them |
| bootstrap (`ucx_backend/bootstrap.rs`) | listener, connections and addresses at rank 0, attempts and stream of the others | bind, accept, read, reply; connect with retries, send, receive; endpoints |
| MPI backend (`mpi_backend/`) | table of requests, counter, state of each future | futures for four collectives (poll, drop), reactor poll, status |
| tracks, statistics | ids, counters | observability only |

### How they interact

Everything but the kernel, the SubmitThread and remote ranks runs on one
thread. A future that has to wait leaves its waker with a reactor or another
future; a waker is a slab key and the sending end of an spsc channel. The
executor's loop asks each reactor for its `status()` (cached for some
iterations), calls `poll()` on those that are Running, and polls the tasks
whose keys are queued. Reactors compute `status()` from counters kept beside
their real tables (timers, workers, operations), so a counter that goes wrong
stops the reactor for ever. The collectives sit on UCX tags or on the AM router,
whose dispatcher is itself a task, and get their endpoints from the bootstrap,
which is plain blocking TCP between processes; the MPI backend is a reactor of
its own beside futures that start MPI calls.

### What is hard

* wake-ups by reused keys, duplicate or late, and status that is cached;
* futures that are dropped or moved at any await (timeouts, select);
* counters that must mirror tables through overlapping and cancelled calls;
* results that arrive before anybody asks for them (early messages, CQEs of
  futures not yet polled), and ranks that are whole calls apart;
* unsafe code whose contract spans several operations (ring cells, raw receive
  targets, memory given to the kernel);
* the SubmitThread and the kernel, which run beside the reactor;
* processes that are launched wrongly, come late, crash or come back during the
  bootstrap, and sends that fail within a collective.

The hazards, at their lines and with the properties that cover them, are in
`PROJECT.json`.

### What makes each part correct

| part | correctness |
|---|---|
| spsc | initialised cells are exactly those between head and tail; nothing leaks; it is a FIFO queue |
| executor | slab and tasks agree; no wake-up is lost; reactors with work are polled in bounded time; no starvation; `run_queue` finishes, `block_on` returns its own result |
| allocator | a buffer has one owner and is never lost; free buffers and waiters do not stay side by side |
| io_uring | counters, map and rings agree; a CQE finds its map entry and its waker; every awaited operation resolves; memory outlives the operation |
| timer | counter, map and futures agree; futures resolve, not before their time |
| UCX | the counter mirrors the workers; the reactor is polled while anything is in flight, and rests when all is closed |
| AM router | no write through a dead target, no stale waker; each receive gets its own message |
| collectives | each rank returns, with the promised data of that call |
| MPI backend | the counter mirrors the table; a poll misses no finished request; futures resolve, dropped ones leave nothing behind |
| bootstrap | the tables of all processes fit together; a proper launch succeeds; nobody is left waiting by a failure |

## 2. Modules

| module | models | extends / instantiates |
|---|---|---|
| `Fifo` | what a channel promises: an unbounded or bounded queue with ends that close | |
| `Spsc` | the ring; `ImplementsFifo` is its refinement of `Fifo` | INSTANCE `Fifo` |
| `SpscProofs` | theorems about `Spsc` | `Spsc`, TLAPS |
| `Executor`, `ExecutorProofs` | slab, queues, wakers, JoinHandles, the three loops | |
| `Allocator`, `AllocatorProofs` | buffer pool and its waiters | |
| `Reactor` | what the executor relies on in a reactor that answers promptly: Running exactly while something is outstanding, nothing forgotten without a wake-up | |
| `Timer`, `TimerProofs` | TimerReactor, Delay, Timeout; `ImplementsReactor` is its refinement of `Reactor` | INSTANCE `Reactor` |
| `MpiReactor`, `MpiReactorProofs` | MpiReactor and the four futures; refines `Reactor` too | INSTANCE `Reactor` |
| `Uring`, `UringProofs` | io_uring reactor, SubmitThread, file and UDP operations | |
| `UcxWorker`, `UcxWorkerProofs` | worker states, reactor counter, AM streams, listeners | |
| `AmRouter`, `BackendProofs` | slots, dispatcher, RecvFuture | |
| `Collective`, `BackendProofs` | six algorithms over tags or the router, and the adaptive choice | |
| `Bootstrap`, `BackendProofs` | exchange of worker addresses over TCP | |
| `BackendProofs` | the proofs about the three modules of the UCX backend | `AmRouter`, `Bootstrap`, `Collective`, TLAPS |
| `MC*` | values of constants for TLC | the module of that name |

`AmRouter`, `Bootstrap` and `Collective` share no names, so that `BackendProofs`
can extend all three; in the last two the specification, its parts and the type
invariant therefore carry the module's name (`CollectiveSpec`,
`BootstrapTypeOK`).

In every module a definition whose name carries a suffix saying what is wrong
(`Rest_not_popped`, `Expired_rounded_up`) is a plausible slip in the code and is
used by no specification. Replacing the definition it is named after by it
must make a property fail; the pairs are the `mutants` of `PROJECT.json`.

### State and actions against the code

* **Spsc.** `buf` holds a message or `Uninit` per cell; head, tail and capacity
  are the code's. `TrySend` and `TryRecv` are `try_send` and `try_recv` (and the
  forms built on them), growth included; `GrownBuf` is the two copies of
  `try_grow`. Reading or overwriting a cell in the wrong state is what
  `InitializedExactly` excludes. `Clone*`/`Drop*` are the handles, `DropInner`
  the destructor of the ring. `unbounded` is chosen in `Init` and never changes.
* **Executor.** A task is a number in spawn order; its slab key is reused. `pc`
  walks through an iteration: head, reactors, polling tasks, normal tasks, end;
  `running` is the future being polled, whose body is any sequence of spawns,
  operations, yields, an await (operations, a JoinHandle, or a select of both)
  and an end. Whoever holds a JoinHandle may await it, so tasks may also wait for
  each other in a circle (`Hung`). Reactors differ in how `status()` answers (`StatusOf`: prompt,
  gated by a timeout, always Running). `iteration` and cache validity are folded
  to what the loop compares. `program`, chosen in `Init` from `Programs`, says
  which reactors there are and how they answer, how many tasks there are and how
  much they do, the size of a batch and what `progress` is called with. `starve`
  is a history variable.
* **Allocator.** Buffers are numbers; a LazyAcquireState is an object that the
  queue may hold after its future is gone, and twice if the future is polled
  again before it is woken. The history variable `disturbed` says that a future
  was dropped or polled unasked; the properties on wake-ups end there.
* **Timer.** `Poll` is `Delay::poll` and, around it, `Timeout::poll`; `Tick` is
  the clock; a future can be moved to another task before or after its first
  poll, which the history variable `moved` keeps.
* **Uring.** A reactor poll is split where others act: submit or signal,
  unpark, look at the CQ, one CQE at a time. `io_uring_enter` may consume part
  of the queue or fail, which is ignored in the SubmitThread and a panic
  elsewhere (`SubmitFails`). Nothing keeps clients from pushing more than the
  submission queue holds: `push_sqe` then panics with the map already updated.
  `panicked` says which panic ended the thread. `FileOp` pushes and polls in one
  step, as an `async fn` does; `UdpOp` only pushes, and `unpolled` is the set of
  such operations nobody has polled; `receives` are those of `recv_from`, which
  end only when a peer sends. Time is ticks since the last submit, up to
  the longer timeout. `mode`, `always_poll` and `queue_size` are the builder's
  choices, taken from `Configs` in `Init`. A panic ends the program: nothing
  happens after it.
* **UcxWorker.** An operation is activate, await, deactivate, with other steps
  between; `am_send` leaves its message behind ("buffered"); `flush`, `close`,
  `Listener::next` and `recv_data` only await (`StartBare`). The counter is
  taken modulo `Word`, as a `usize`. Callers may do anything; the history
  variable `strayed` is set when a worker is used otherwise than
  `pluvio_collective` uses it: one AM stream, open before the first call and
  until after the last.
* **AmRouter.** Messages and receives of a key are numbered, so that a mismatch
  shows; a Pending slot keeps the future its raw pointer belongs to. The history
  variable `strayed` holds the keys under which a receive was given up or a
  message was lost (a failed receive, a second early arrival); matching is
  promised for the others.
* **Reactor.** `outstanding` are operations with the task their waker belongs
  to, `futures` those whose future exists, `status` the answer of `status()`.
  Every step leaves `status` Running exactly while something is outstanding; an
  operation leaves by a `Poll`, which wakes its task, or with its future.
* **MpiReactor.** A future, its request and its completion slot have one number.
  A reactor poll is its loop, `Test` being one `MPI_Test` and what follows, so
  that MPI may finish requests between two of them. `PollNotStarted`,
  `PollRefused` and `PollInFlight` are the states of the futures, the same in
  all four; there is no `Drop`, so `Drop` leaves the request with the reactor.
  `moved` and `due` are history variables.
* **Collective.** Each algorithm is its round: what a rank sends, receives,
  whether it reduces. One engine runs them: the sends and the receive of a round
  start in one poll, messages are in order per pair, early arrivals queue (tags)
  or are kept one per key (router). The pipelined ring is M such loops at a time,
  one per micro-chunk, of which `Launched` are those the window lets run. A send
  is complete at once (eager) or when its data was taken (rendezvous); one may
  fail, its message delivered or not. A value is the bag of contributions
  reduced into it, each with rank, call and slot. `job`, chosen in `Init`, says
  which algorithm, how many ranks, which root, shape and configuration, how many
  calls in a row. `Rejected` are the calls that every rank refuses before it
  sends; a `send_buf` of a wrong length is seen by the root of a scatter alone
  (`RejectedAlone`).
* **Bootstrap.** A process goes through `exchange_addresses` by its `pc`; the
  locals of rank 0 (`conns`, `addresses`, `tcp_stream`, `turn`) belong to the
  process that has the port. An incarnation of a process is its worker address,
  and the connection it makes. `Leave` is the return from the exchange, in
  whatever way, which closes all the process has open; `Crash` is the same done
  by the kernel. The `*Fails` actions are the early returns and the panics
  (rank out of range, `expect("missing connection")`); `Alone` is a rank 0 of
  size 1, or of size 0, which panics.

## 3. Runs

A run marked ✗ is expected to fail: it shows a disagreement between the code
and its documentation, and is a finding in `PROJECT.json`.

| run | shows |
|---|---|
| `Spsc` | unsafe contracts, leaks, refinement of `Fifo`, for the growing channel (2 → 4, with wrap-around) and the bounded one (full exactly at capacity) |
| `Executor` | slab, wake-ups, `block_on` result, with key reuse, all loops, shutdown; a reactor with work is polled within `Latency` iterations, cached statuses notwithstanding; `run_queue` and `block_on` return once their tasks end (also when the key of the `block_on` task was reused), neither spinning for ever nor giving up as deadlocked, unless tasks they have to wait for wait for each other; no runnable task starves beside tasks that yield for ever |
| ✗ `Executor_block_on` | a task that got the key of the finished `block_on` task and yields for ever keeps `block_on` from returning |
| `Allocator` | ownership with cancelled and repeated polls; without those, free buffers find their waiters |
| `Timer` | it implements `Reactor`: counter, map and futures agree; every future that keeps its task, or is moved before its first poll, resolves |
| `MpiReactor` | it implements `Reactor`; a poll finds all that was finished when it began; futures that keep their task resolve; after dropped futures the reactor comes to rest |
| `AmRouter` | targets and wakers under cancellation, moves, failed receives and duplicates; matching and return under every key of which no message was lost |
| `UcxWorker` | counter and polling, calls overlapping and cancelled, used as `pluvio_collective` does; rest after the last stream |
| `Uring` | bookkeeping, panics and results in all submission modes, with a submission queue that runs full; every awaited operation resolves, with both timeouts |
| `Collective` | ring, pipelined ring, recursive doubling, adaptive choice, Bruck: calls in a row, ranks apart; broadcast, scatter: from every root; eager and rendezvous, with a failing send; right data, everybody returns unless a send failed; bad roots, shapes and parameters are rejected |
| `Bootstrap` | proper and improper launches with crashes and restarts: tables that fit together, success of a proper launch, nobody left waiting except behind a rank 0 that waits for a peer |
| ✗ `Collective_ahead` | three broadcasts in a row: data of the wrong call |

### Limits of the code met on the way

Where a ✗ run is named, it shows the case and is a finding. Where a variable is
named, it is the condition by which the passing properties exclude the case:
without it TLC produces the case as a counterexample. The others are visible in
the actions but stated by no property.

* spsc: dropping one of several `Receiver` clones disconnects the senders
  (`spsc.rs:469`); `Fifo` has the same rule, and the runtime never clones one.
* executor: completions of polling tasks do not reset `reactor_only_count`
  (`executor/mod.rs:478`), so the safety bound may skip one round of reactor
  polling although tasks complete; `Latency` allows for it. The stuck counter of
  `block_on` counts iterations without a completed task or a polled reactor and
  panics with "deadlock detected" also when tasks only yield (`executor/mod.rs:741`).
  `block_on` asks whether the slab still has the key of its task (`:653`); a task
  spawned in the iteration in which that one finished may have taken the key.
  `block_on` then returns when the other has ended too, which `CallsComplete`
  shows of tasks that end; if it never ends, `block_on` does not return
  (`Executor_block_on`), although its comment (`:571`) says that background tasks
  "don't block this call".
* allocator: the wake-up for a returned buffer may go to a LazyAcquire that was
  dropped, and a waiting client sleeps beside a free buffer (`disturbed`).
* timer: a Delay keeps the waker of its first poll; moved to another task after
  it, it never wakes that one and does not resolve (`moved`), although `lib.rs:212`
  says that a Delay "resolves after a specified duration".
* AM router: a second early arrival under a key loses both (`strayed`, `Collective_ahead`).
* UCX: without a listener, the first of two overlapping calls to end makes the
  worker Inactive while the other, or the message of an `am_send`, is in flight,
  which `am_send` means to avoid (`worker/am.rs:64`); `flush` and `close` do not
  activate it at all; `deactivate` of an Inactive worker that has a listener makes
  it WaitConnect without counting it (`strayed`).
* io_uring: the CQE of a UDP operation nobody has polled yet reaches
  `unreachable!` (`reactor.rs:287`, `unpolled`): the assertion is wrong there,
  and `OnlyUnpolledMissed` says that it is right everywhere else; nothing keeps
  clients from filling the submission queue, which is a panic (a future dropped
  in flight gives its FixedBuffer back, so the pool is no bound either); a future
  dropped in flight frees memory the kernel still has; `wait_cqueue` calls
  `submit_and_wait(0)` and does not wait.
* MPI: a future moved to another task after its first poll never wakes that one
  (`moved`); one dropped in flight gives its buffer back to the caller while MPI
  may still write to it.
* collectives: after a failed send a rank returns with an error and its peers
  wait for ever; the same happens when the root of a scatter rejects its buffer
  (`errs`).
* bootstrap: rank 0 waits in `accept` without a timeout for a peer that never
  comes, and all others behind it. A rank that connects twice (a wrong launch, a
  restart) uses up the turn of another: a peer may get a table with an empty
  address and go on with it, and rank 0 then panics on the missing connection. A
  process that crashes and comes back after the table was sent is in it with its
  old address.

### Bounds

* Spsc: three messages and capacity 2 to 4 make the ring wrap before and after
  growth; two handles per end. Messages are symmetric.
* Executor: `Mixed` are four programs: two tasks that start an operation or
  yield; three tasks on two keys, which forces reuse of a key while a stale waker
  exists; a task whose reactor may hide its operation; and two tasks that yield
  for ever, in batches of one. A status is cached for 2 iterations with a poll
  interval of 2: a cached Stopped is used at the second iteration, which always
  polls, and in every one with polling tasks. The safety bound is 1, so that it
  skips rounds. The stuck detector has room for what cache, interval and safety
  bound hide together, as the code's million iterations have, and runs out when
  nothing happens. `fuel` bounds operations and yields. `Executor_block_on` has
  no reactor, which it does not need to go wrong, and a stuck detector of 2, the
  least with which its two tasks get into the right order.
* Allocator: three clients for two buffers; two LazyAcquireStates, so that one is
  reused and one client has to come back.
* Timer: two futures, two tasks, three instants: equal, earlier and later
  deadlines.
* MpiReactor: three futures, so that `swap_remove` changes the order of requests
  still to be tested; two tasks, of which one starts collectives and the other
  is handed a future.
* Uring: two operations, on a ring of two entries in all three modes and of one,
  which runs full, where the reactor is polled all the time; timeouts of one and
  two ticks.
* UcxWorker: two workers, two calls, one stream per worker with a clone.
* AmRouter: two keys, three messages per key, two receives: early, late, two in a
  row under a key, a second early arrival.
* Collective: up to four ranks for the ring, recursive doubling, Bruck and
  scatter, five for a broadcast tree of three rounds; three and five are no
  powers of two. Two calls: a third cannot meet the first because a rank that
  finished a call has heard of every rank's start of it. The pipelined ring has
  more micro-chunks than the window, fewer, and a window of one. One send fails.
  Every way of being rejected occurs.
* Bootstrap: three processes, nine launches (a proper one, a rank twice, a rank
  out of range, sizes that differ, two of rank 0, none, sizes 0 and 1), two
  attempts for the code's 200, two crashes, each of which may be followed by a
  restart: rank 0 and a peer, two peers, or one process twice.

`CHECK_DEADLOCK FALSE` is set where the bounded clients may all be done, or the
processes have returned.

### Fairness

* Executor: the loop runs while it is called; a future's `poll` returns; an
  operation whose reactor is polled over and over is found complete (strong
  fairness: it is only found during a poll).
* Timer: the clock advances; the reactor is polled while Running (what
  `ReactorPolledInTime` shows of the executor; strong, because arming and
  cancelling switch Running on and off); woken tasks run (`StarvationFree`).
* MpiReactor: the same without the clock; MPI finishes its requests.
* Allocator, AmRouter: a woken task is polled.
* Uring: the same, plus the kernel and the SubmitThread are scheduled, the
  kernel finishes what it was given, and `io_uring_enter` does not fail for
  ever. A `recv_from` waits for a peer and gets no such promise: it is claimed
  to resolve once its CQE is there.
* UcxWorker: none. Most of its calls wait for a peer, so nothing is claimed to
  end; that the reactor is polled as long as they need it is a safety property.
* Collective: some rank or message moves.
* Bootstrap: every process goes on when it can; crashes and restarts owe nothing.

No fairness is assumed of a reactor that is Stopped, of a future nobody woke or
of clients.

## 4. Proofs

| theorem | statement |
|---|---|
| `SpscProofs!TypeCorrect`, `ContractsHold`, `NothingLeaks` | `Spec => []` of `TypeOK`, `InitializedExactly`, `NoLeak` |
| `SpscProofs!RingImplementsFifo` | `Spec => ImplementsFifo` |
| `ExecutorProofs!TypeCorrect`, `SlabIsConsistent`, `WakeupsAreKept`, `BlockOnResult`, `PolledInTime` | `Spec => []` of `TypeOK`, `SlabConsistent`, `NoLostWakeup`, `BlockOnHasResult`, `ReactorPolledInTime` |
| `AllocatorProofs!TypeCorrect`, `OwnersUnique`, `NothingLost` | `Spec => []` of `TypeOK`, `OneOwner`, `NoneLost` |
| `AllocatorProofs!WakeupsSuffice` | `Spec => []EnoughWoken` (a property of undisturbed behaviours) |
| `TimerProofs!TypeCorrect`, `NothingLeaked`, `NoSleeperForgotten` | `Spec => []` of `TypeOK`, `NoTimerLeaked`, `SleepersArmed` |
| `TimerProofs!TimerImplementsReactor` | `Spec => ImplementsReactor` |
| `MpiReactorProofs!TypeCorrect`, `PollSkipsNone`, `MpiImplementsReactor` | `Spec => []TypeOK`, `Spec => NoneSkipped`, `Spec => ImplementsReactor` |
| `UcxWorkerProofs!TypeCorrect`, `CounterExact`, `PolledWhileInFlight`, `RestsClosed` | `Spec => []` of `TypeOK`, `CountMirrorsStates`, `InFlightPolled`, `RestsWhenClosed` |
| `BackendProofs!TypeCorrect`, `PointerValid`, `NoneForgotten`, `PairedInOrder` | `Spec => []` of `TypeOK`, `TargetValid`, `WakersCurrent`, `MatchedInOrder` |
| `BackendProofs!ExchangeTyped`, `TablesAgree` | `BootstrapSpec => []` of `BootstrapTypeOK`, `TablesUsable` |
| `BackendProofs!RingTyped`, `RingReducesAll` | `CollectiveSpec => []` of `CollectiveTypeOK`, `ResultCorrect`, for the ring and the pipelined ring |
| `BackendProofs!ScatterGivesShares` | `CollectiveSpec => []ResultCorrect`, for a scatter called once |
| `UringProofs!TypeCorrect`, `ResultsFound`, `CountersExact`, `OnlyUnpolledPanics` | `Spec => []` of `TypeOK`, `NoLostCompletion`, `OutstandingTracked`, `OnlyUnpolledMissed` |

They hold for all constants that satisfy the modules' assumptions: any capacity,
number of tasks, keys, reactors, buffers, clients, futures, workers, messages,
requests and operations, any interval and timeout. Each inductive invariant was
model-checked on small instances before it was proved.

**Spsc.** The invariant is the type, `InitializedExactly`, and the relation of
flags and handle counts. The refinement maps the queue to the sequence of cells
from head to tail; the work is in lemmas on how that sequence changes when head
or tail advance modulo the capacity and when `try_grow` lays it out anew.

**Executor.** `NoLostWakeup` is not inductive: it needs to know that slab and
tasks agree (`SlabConsistent`), so that a queued key still means this task; that
buffers and `running` fit the place in the loop (`Phases`); that an operation a
suspended task awaits, or the JoinHandle it awaits, still holds its waker
(`Joins`, `Watched`). `block_on` has its result because the only step that frees
the target's key is the one that stores the result, and until then the key
cannot be given out again.

**Allocator.** Ownership is inductive with a shape invariant (free buffers are
distinct, held ones disjoint). `EnoughWoken` needs, beside it, that the queue
has no state twice, that each queued state belongs to a waiting client with its
waker set, and that unwoken waiters are queued; then free buffers never
outnumber the woken while anybody is queued. All of that is claimed while
`disturbed` is false, which is what makes it inductive.

**Executor, the wait of a reactor.** `ReactorPolledInTime` bounds a history
count, so its invariant (`Timely`) says how much of the wait is left: what a
reactor with work has waited and what it has still to wait are at most `Latency`
together. While a cached Stopped hides its work (`Hidden`) that is the rest of
the cache time; then it is the iterations to the next one that polls reactors
(`Due`), and one interval more if the safety bound may skip that round. It may
do so once only: the counter is zero after a skipped round, and the next round it
counts is one in which the reactor was polled (the last conjunct of `Awaited`).

**Timer and MpiReactor.** In both the counter that `status()` reads is the size
of the table (`Counted`, `Listed`): it neither wraps nor misses an entry, because
an id or a request is made once per future (`Spent`, `Started`). For the
refinement the table is mapped to the abstract set of operations, a poll that
expires several timers to one abstract `Poll`, and a `Test` to one of a single
request. `Armed` says that a timer stays in the map, with the waker of the
future's task, until its deadline or its future goes. `NoneSkipped` needs
`Walking`: requests that had finished when the poll began and are still in the
Vec lie at the index or behind it; `swap_remove` keeps that by moving the last
entry to the index and not advancing.

**UcxWorker.** While used as intended, a worker has at most one stream or
listener, its id is registered only while it is held, and a worker with a call
in progress has its id registered and is not Inactive (`Intended`); so every
change of state is counted once. That the reactor rests when all is closed needs
the converse, that a worker which is not Inactive has its id registered. The
counter is `usize` arithmetic; `Word` has
to exceed the number of workers.

**AmRouter.** `TargetValid` and `WakersCurrent` are inductive with `Linked`: a
slot and the future it points to know of each other, and a key has one live
future. `MatchedInOrder` needs the stream as well: under a key that was not
disturbed it holds the messages from `Drained` + 1 on, in order, an early
message is the last that left it, and the receive that waits is the last that
was posted (`Order`).

**Bootstrap.** `TablesUsable` compares tables of processes that never spoke to
each other, so the invariant (`BInv`) follows the tables back to the rank 0 that
made them. What a listening rank 0 has collected fits the connections it keeps:
an entry is a worker launched with that rank, entry 0 is itself, a kept
connection is the one whose address is in the table, and every rank it has
already replied to has an entry (`Gathering`). A table in a socket or in the hands
of a process has that process at its own rank (`Replied`, `Held`). Of the tables
that have left a rank 0, two with the same entry 0 are equal (`Agree`); this is
inductive only with `Past`, that no table is about from a worker that may still be
gathering: a worker is a process in one of its lives, it issues one table, and
lives only grow. That rank 0 holds no table with an empty entry follows from the
order of the replies: an empty entry has no connection and ends the call with an
error. `Roles`, `Silent` and `Counted` say who may listen and connect, that a new
connection carries nothing yet, and that restarts are paid for with crashes.

**Collective, the rings.** `RingReducesAll` is about every job that ends up in the
ring or in the pipelined ring (`Rings`): asked for, chosen by the adaptive
communicator, or in place of recursive doubling. It holds for any number of
ranks, micro-chunks and calls and any window, with eager and rendezvous sends
and when a send fails. The invariant (`CInv`) says which contributions a
rank has in chunk `idx` after k rounds (`BuffersRight`): those of the ranks from
`idx` up to itself once the chunk has come by, its own before, all of them after
the second phase (`Have`). A step keeps that if the message it stores is the one
of this round of this call, and here is the difficulty: a key names source,
phase, step and micro-chunk but not the call, so the next call uses the same keys
again. The rounds of a chain are therefore numbered through all calls (`At`); what
is on its way to a rank lies between what the rank was given and what its
predecessor has sent (`Flows`), and a rank is never ahead of another by more than
its distance from it in the ring (`Leads`), hence by less than one call. So two
messages on their way to a rank have different keys, the AM router never sees a
second arrival under one, and a receive that matches a key gets the message
meant for it (`Matched`, `OthersLater`, `FreshKey`). That the chunks and ranks
modulo N come out right is a set of lemmas on `Gap`, `Out` and `In`.

**Collective, scatter.** Whatever is sent to rank q, waits there or was received
by it is its chunk of the root's data (`SInv`). This is claimed of one call: in
the next the root uses the same keys, nothing keeps it from getting ahead, and
what `Collective_ahead` shows of broadcasts happens here too.

**Uring.** `NoLostCompletion` is inductive with the types and `Balanced`, which
says that map and counters agree. The other two need that every `user_data` of
the map is in one of the queues or the kernel, and once (`Placed`), and that an
outstanding operation has a waker or was never polled (`Registered`). A
`push_sqe` that finds the submission queue full breaks `Placed`: it has entered
the operation in the map already. But it ends the thread, so no CQE is looked at
after it, and the invariant (`FInv`) claims the rest only until then. Nothing is
assumed of the clients.

Only model-checked:

* liveness under fairness, which is out of the prover's reach: `CallsComplete`,
  `StarvationFree`, `FreeBuffersAreTaken`, `Resolves`, `Received`,
  `Completes`, `Quiesces`, `Established`, `NobodyHangs`,
  `AllReturn`;
* `Collective!ResultCorrect` for recursive doubling, Bruck and broadcast. Their
  rounds go by powers of two, of which the provers know nothing (not even
  `2^(k + 1) = 2 * 2^k`, which would need an induction over data). Of several
  broadcasts or scatters in a row it is false, see `Collective_ahead`.

## 5. Not modelled

* `progress()` called from inside a task (from a polling task it panics with a
  BorrowMutError, since `run_queue` holds the buffer it walks), the drop of a
  Runtime with wakers still alive, panicking tasks.
* A completion-queue overflow; an error of `MPI_Test`, which a debug build
  asserts not to happen and a release build takes for "not finished".
* Ranks that call a collective with different lengths, other than the root of a
  scatter.
* Payloads, alignment, address conversion, statistics, tracing; an empty
  contribution, with which `bruck_allgather` panics.
* `split_disjoint_mut`, which nothing calls; examples and benchmarks.
* The kernel, TCP, UCX, MPI and slab are external, modelled by how the code uses
  them.

## 6. Plan

Done, in this order: Spsc and Fifo, Executor, Allocator, Timer, AmRouter,
UcxWorker, Uring, Collective; then the pipelined ring, the adaptive choice and
failing sends in Collective, Reactor with its two refinements, MpiReactor,
Bootstrap.

Proved: the safety properties of all modules, in Collective those of the rings
and of scatter, and the three refinements.

Next proofs, given arithmetic of powers of two in the prover: `ResultCorrect` for
recursive doubling, Bruck and broadcast, along the lines of the rings.

Next modules, if any: nested `progress()` in `Executor`; CQ overflow in `Uring`;
compositions of Allocator with Uring (a FixedBuffer returned while the kernel
uses it) and of AmRouter with cancelled collectives.
