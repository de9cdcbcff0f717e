------------------------------- MODULE Uring --------------------------------
(***************************************************************************)
(* pluvio_uring: IoUringReactor, its submission and completion queues, the *)
(* map from user_data to the state a WaitHandle shares with it, the two    *)
(* counters its status is computed from, and the ways SQEs get to the      *)
(* kernel: a submit() by the reactor ("direct"), the SubmitThread          *)
(* ("thread"), the kernel's SQ thread ("sqpoll").                          *)
(*                                                                         *)
(* Tasks and the reactor share one thread: a task step happens while       *)
(* reactor = "idle".  The kernel and the SubmitThread run beside them.     *)
(***************************************************************************)
EXTENDS Naturals, FiniteSets, Sequences

CONSTANTS
    Configs,            \* values mode, always_poll and queue_size may have
    SubmitDepth,        \* submit_depth
    WaitSubmit,         \* wait_submit_timeout, in ticks
    WaitComplete,       \* wait_complete_timeout
    MaxOps              \* bound: SQEs pushed altogether

ASSUME UringAssumption ==
    /\ Configs \subseteq {"direct", "thread", "sqpoll"} \X BOOLEAN \X (Nat \ {0})
    /\ SubmitDepth \in Nat
    /\ WaitSubmit \in Nat /\ WaitComplete \in Nat
    /\ MaxOps \in Nat

VARIABLES
    mode,               \* how SQEs are submitted: "direct", "thread", "sqpoll"
    always_poll,        \* PLUVIO_URING_ALWAYS_POLL
    queue_size,         \* entries of the submission queue
    sq,                 \* user_data of SQEs the kernel has not consumed
    kernel,             \* of operations the kernel works on
    cq,                 \* [id, res] of CQEs the reactor has not consumed
    need_wakeup,        \* the kernel's SQ thread sleeps
    flag, token,        \* of the SubmitThread: AtomicBool, unpark token
    thread,             \* where it is: "swap", "park", "enter"
    reactor,            \* "idle", or where poll_submit_and_completions is:
                        \* "signalled", "submitted", "draining"
    left,               \* CQEs left of those seen by ring.completion()
    completions,        \* keys of the map
    user_data_counter, completed_count,
    elapsed,            \* since last_submit_time
    phase,              \* of each WaitHandle, see Phase
    unpolled,           \* UDP operations whose future was never polled
    receives,           \* operations that are a recv_from, and wait for a peer
    waker,              \* HandleState.waker is Some
    result,             \* HandleState.result
    panicked            \* why the thread panicked, see Panic

config == <<mode, always_poll, queue_size>>
queues == <<sq, kernel, cq, need_wakeup>>
offload == <<flag, token, thread>>
polling == <<reactor, left>>
counts == <<completions, user_data_counter, completed_count>>
handles == <<phase, unpolled, receives, waker, result>>
vars == <<config, queues, offload, polling, counts, elapsed, handles, panicked>>

Ids == 0..(MaxOps - 1)
Result == {"ok", "err"}

(* "held": the future exists and was not polled; "waiting": it returned    *)
(* Pending; "woken": its waker was called since.                           *)
Phase == {"unused", "held", "waiting", "woken", "done", "dropped"}

(* "full": push_sqe found no room; "submit": a system call failed; and the *)
(* two unreachable! of the CQE loop, a missing waker and a missing entry.  *)
Panic == {"none", "full", "submit", "no waker", "unknown"}

Init ==
    /\ \E c \in Configs : mode = c[1] /\ always_poll = c[2] /\ queue_size = c[3]
    /\ sq = <<>> /\ kernel = {} /\ cq = <<>> /\ need_wakeup = FALSE
    /\ flag = FALSE /\ token = FALSE /\ thread = "swap"
    /\ reactor = "idle" /\ left = 0
    /\ completions = {} /\ user_data_counter = 0 /\ completed_count = 0
    /\ elapsed = 0
    /\ phase = [i \in Ids |-> "unused"]
    /\ unpolled = {} /\ receives = {}
    /\ waker = [i \in Ids |-> FALSE]
    /\ result = [i \in Ids |-> "none"]
    /\ panicked = "none"

-----------------------------------------------------------------------------
(* Clients.  A panic ends the program.  (A definition whose name says what *)
(* is wrong with it is a slip that the checks must catch.)                 *)
Alive == panicked = "none"
TaskRuns == reactor = "idle" /\ Alive

(* push_sqe, the future being left in phase p with its waker set or not,   *)
(* for a receive or not.  A full submission queue is a panic, after the    *)
(* map was updated: nothing holds a client back before.                    *)
push_sqe(p, w, recv) ==
    LET id == user_data_counter
    IN  /\ user_data_counter < MaxOps
        /\ user_data_counter' = id + 1
        /\ completions' = completions \cup {id}
        /\ IF Len(sq) = queue_size
           THEN panicked' = "full" /\ UNCHANGED <<sq, handles>>
           ELSE /\ sq' = Append(sq, id)
                /\ phase' = [phase EXCEPT ![id] = p]
                /\ waker' = [waker EXCEPT ![id] = w]
                /\ unpolled' = IF p = "held" THEN unpolled \cup {id} ELSE unpolled
                /\ receives' = IF recv THEN receives \cup {id} ELSE receives
                /\ UNCHANGED <<result, panicked>>
        /\ UNCHANGED <<config, kernel, cq, need_wakeup, offload, polling,
                       completed_count, elapsed>>

(* An async fn of DmaFile pushes and polls its WaitHandle in one poll.     *)
FileOp_unregistered == TaskRuns /\ push_sqe("waiting", FALSE, FALSE)

FileOp == TaskRuns /\ push_sqe("waiting", TRUE, FALSE)

(* UdpSocket::send_to and recv_from push when they are called.             *)
UdpOp(recv) == TaskRuns /\ push_sqe("held", FALSE, recv)

(* WaitHandle::poll, of the futures around it too.                         *)
Poll(id) ==
    /\ TaskRuns /\ phase[id] \in {"held", "waiting", "woken"}
    /\ IF result[id] \in Result
       THEN /\ result' = [result EXCEPT ![id] = "none"]
            /\ phase' = [phase EXCEPT ![id] = "done"]
            /\ UNCHANGED waker
       ELSE /\ waker' = [waker EXCEPT ![id] = TRUE]
            /\ phase' = [phase EXCEPT ![id] = "waiting"]
            /\ UNCHANGED result
    /\ unpolled' = unpolled \ {id}
    /\ UNCHANGED <<config, queues, offload, polling, counts, elapsed, receives, panicked>>

(* The task that was woken polls the future again.                         *)
PollWoken(id) == phase[id] = "woken" /\ Poll(id)

(* A pending future is dropped, and the memory the SQE points to with it;  *)
(* the map keeps its half of the HandleState.                              *)
Drop(id) ==
    /\ TaskRuns /\ phase[id] \in {"held", "waiting", "woken"}
    /\ phase' = [phase EXCEPT ![id] = "dropped"]
    /\ UNCHANGED <<config, queues, offload, polling, counts, elapsed, unpolled, receives,
                   waker, result, panicked>>

-----------------------------------------------------------------------------
(* The kernel.  io_uring_enter may consume fewer SQEs than there are.      *)
Consume(n) ==
    /\ kernel' = kernel \cup {sq[i] : i \in 1..n}
    /\ sq' = SubSeq(sq, n + 1, Len(sq))
    /\ UNCHANGED cq

KernelCompletes(id, res) ==
    /\ Alive /\ id \in kernel
    /\ kernel' = kernel \ {id}
    /\ cq' = Append(cq, [id |-> id, res |-> res])
    /\ UNCHANGED <<config, sq, need_wakeup, offload, polling, counts, elapsed, handles, panicked>>

KernelConsumes ==
    /\ Alive /\ mode = "sqpoll" /\ ~need_wakeup /\ sq # <<>>
    /\ Consume(1)
    /\ UNCHANGED <<config, need_wakeup, offload, polling, counts, elapsed, handles, panicked>>

KernelSleeps ==
    /\ Alive /\ mode = "sqpoll" /\ ~need_wakeup /\ sq = <<>>
    /\ need_wakeup' = TRUE
    /\ UNCHANGED <<config, sq, kernel, cq, offload, polling, counts, elapsed, handles, panicked>>

(* Submitter::submit by the reactor's thread.                              *)
Submit ==
    \/ /\ mode = "sqpoll" /\ need_wakeup' = FALSE /\ UNCHANGED <<sq, kernel, cq>>
    \/ /\ mode # "sqpoll" /\ sq # <<>>
       /\ \E n \in 1..Len(sq) : Consume(n)
       /\ UNCHANGED need_wakeup
    \/ mode # "sqpoll" /\ sq = <<>> /\ UNCHANGED queues

-----------------------------------------------------------------------------
(* SubmitThread: swap the flag, park while it was not set, enter.          *)
ThreadSwaps ==
    /\ Alive /\ mode = "thread" /\ thread = "swap"
    /\ flag' = FALSE
    /\ thread' = IF flag THEN "enter" ELSE "park"
    /\ UNCHANGED <<config, queues, token, polling, counts, elapsed, handles, panicked>>

ThreadUnparks ==
    /\ Alive /\ thread = "park" /\ token
    /\ token' = FALSE /\ thread' = "swap"
    /\ UNCHANGED <<config, queues, flag, polling, counts, elapsed, handles, panicked>>

ThreadEnters ==
    /\ Alive /\ thread = "enter"
    /\ thread' = "swap"
    /\ \E n \in 1..Len(sq) : Consume(n)
    /\ UNCHANGED <<config, need_wakeup, flag, token, polling, counts, elapsed, handles, panicked>>

(* EINTR, EAGAIN, or nothing to consume.                                   *)
ThreadEnterFails ==
    /\ Alive /\ thread = "enter"
    /\ thread' = "swap"
    /\ UNCHANGED <<config, queues, flag, token, polling, counts, elapsed, handles, panicked>>

-----------------------------------------------------------------------------
(* status()                                                                *)
has_pending_sqe == sq # <<>>
has_pending_io == completed_count < user_data_counter

Running ==
    IF always_poll
    THEN has_pending_sqe \/ has_pending_io
    ELSE \/ has_pending_io /\ elapsed >= WaitComplete
         \/ mode = "sqpoll" /\ has_pending_sqe /\ need_wakeup
         \/ /\ mode # "sqpoll"
            /\ \/ Len(sq) >= SubmitDepth
               \/ has_pending_sqe /\ elapsed >= WaitSubmit

MaxElapsed == IF WaitSubmit > WaitComplete THEN WaitSubmit ELSE WaitComplete

(* Time passes; what is past both timeouts is one value.                   *)
Tick ==
    /\ Alive /\ elapsed < MaxElapsed
    /\ elapsed' = elapsed + 1
    /\ UNCHANGED <<config, queues, offload, polling, counts, handles, panicked>>

-----------------------------------------------------------------------------
(* poll_submit_and_completions, first the submission.  With a SubmitThread *)
(* the reactor sets the flag and then unparks, two steps of the thread's.  *)
SubmitsItself ==
    /\ has_pending_sqe
    /\ mode = "direct" \/ (mode = "sqpoll" /\ need_wakeup)

PollSubmits ==
    /\ TaskRuns
    /\ \/ SubmitsItself /\ reactor' = "submitted" /\ Submit /\ UNCHANGED flag
       \/ /\ has_pending_sqe /\ mode = "thread"
          /\ reactor' = "signalled" /\ flag' = TRUE /\ UNCHANGED queues
       \/ /\ ~SubmitsItself /\ (has_pending_sqe => mode # "thread")
          /\ reactor' = "submitted" /\ UNCHANGED <<queues, flag>>
    /\ elapsed' = IF has_pending_sqe THEN 0 ELSE elapsed
    /\ UNCHANGED <<config, token, thread, left, counts, handles, panicked>>

Unpark_forgotten ==
    /\ reactor = "signalled"
    /\ reactor' = "submitted"
    /\ UNCHANGED <<config, queues, offload, left, counts, elapsed, handles, panicked>>

Unpark ==
    /\ reactor = "signalled"
    /\ token' = TRUE
    /\ reactor' = "submitted"
    /\ UNCHANGED <<config, queues, flag, thread, left, counts, elapsed, handles, panicked>>

(* ring.completion() sees the CQEs that are there.                         *)
SeeCompletions ==
    /\ reactor = "submitted"
    /\ reactor' = "draining" /\ left' = Len(cq)
    /\ UNCHANGED <<config, queues, offload, counts, elapsed, handles, panicked>>

(* The status, Stopped or Running, may be a cached one: poll is called in  *)
(* either case, but only a Running reactor can count on it.                *)
PollRunning == Running /\ PollSubmits

(* completed_count after a CQE with result res.                            *)
Counted_twice(res) == completed_count + 2
Counted_if_ok(res) == IF res = "ok" THEN completed_count + 1 ELSE completed_count
Counted(res) == completed_count + 1

(* What waker.wake() does to a future in phase p.                          *)
Woken_never(p) == p
Woken(p) == IF p = "waiting" THEN "woken" ELSE p

(* One CQE: a missing map entry and a missing waker are unreachable!.      *)
DrainOne ==
    /\ Alive /\ reactor = "draining" /\ left > 0
    /\ left' = left - 1
    /\ cq' = Tail(cq)
    /\ LET id == Head(cq).id
           res == Head(cq).res
       IN  IF id \notin completions
           THEN panicked' = "unknown" /\ UNCHANGED <<counts, handles>>
           ELSE /\ completions' = completions \ {id}
                /\ completed_count' = Counted(res)
                /\ result' = [result EXCEPT ![id] = res]
                /\ waker' = [waker EXCEPT ![id] = FALSE]
                /\ phase' = [phase EXCEPT ![id] = Woken(@)]
                /\ panicked' = IF waker[id] THEN "none" ELSE "no waker"
                /\ UNCHANGED <<user_data_counter, unpolled, receives>>
    /\ UNCHANGED <<config, sq, kernel, need_wakeup, offload, reactor, elapsed>>

DrainEnd ==
    /\ Alive /\ reactor = "draining" /\ left = 0
    /\ reactor' = "idle"
    /\ UNCHANGED <<config, queues, offload, left, counts, elapsed, handles, panicked>>

(* wait_cqueue: submit_and_wait(0) while something is outstanding.         *)
WaitCqueue ==
    /\ TaskRuns /\ has_pending_io
    /\ Submit
    /\ UNCHANGED <<config, offload, polling, counts, elapsed, handles, panicked>>

(* The expect() of the three submitting calls, in the poll of the reactor  *)
(* and in wait_cqueue.                                                     *)
SubmitFails ==
    /\ TaskRuns /\ (SubmitsItself \/ has_pending_io)
    /\ panicked' = "submit"
    /\ UNCHANGED <<config, queues, offload, polling, counts, elapsed, handles>>

-----------------------------------------------------------------------------
Next ==
    \/ FileOp \/ (\E recv \in BOOLEAN : UdpOp(recv))
    \/ WaitCqueue \/ SubmitFails
    \/ \E id \in Ids : Poll(id) \/ Drop(id)
    \/ \E id \in Ids, res \in Result : KernelCompletes(id, res)
    \/ KernelConsumes \/ KernelSleeps
    \/ ThreadSwaps \/ ThreadUnparks \/ ThreadEnters \/ ThreadEnterFails
    \/ Tick \/ PollSubmits \/ Unpark \/ SeeCompletions \/ DrainOne \/ DrainEnd

Spec == Init /\ [][Next]_vars

(* Time passes, the kernel gets done with what does not wait for a peer,   *)
(* the executor polls a reactor that stays Running (Executor:              *)
(* ReactorPolledInTime) and runs a woken task, threads are scheduled, and  *)
(* io_uring_enter does not fail for ever.                                  *)
FairSpec ==
    /\ Spec
    /\ WF_vars(Tick) /\ WF_vars(PollRunning)
    /\ WF_vars(Unpark) /\ WF_vars(SeeCompletions) /\ WF_vars(DrainOne) /\ WF_vars(DrainEnd)
    /\ WF_vars(KernelConsumes)
    /\ WF_vars(ThreadSwaps) /\ WF_vars(ThreadUnparks) /\ SF_vars(ThreadEnters)
    /\ \A id \in Ids :
         /\ WF_vars(id \notin receives /\ \E res \in Result : KernelCompletes(id, res))
         /\ SF_vars(PollWoken(id))

-----------------------------------------------------------------------------
QueuedIds == {sq[i] : i \in 1..Len(sq)}
CompletedIds == {cq[i].id : i \in 1..Len(cq)}

(* Type invariant: queues stay within the ring, the counters within what   *)
(* was pushed.                                                             *)
TypeOK ==
    /\ config \in Configs
    /\ sq \in Seq(Ids) /\ Len(sq) <= queue_size
    /\ kernel \subseteq Ids
    /\ cq \in Seq([id : Ids, res : Result])
    /\ need_wakeup \in BOOLEAN /\ flag \in BOOLEAN /\ token \in BOOLEAN
    /\ thread \in {"swap", "park", "enter"}
    /\ reactor \in {"idle", "signalled", "submitted", "draining"}
    /\ left \in 0..Len(cq)
    /\ completions \subseteq Ids
    /\ user_data_counter \in 0..MaxOps
    /\ completed_count \in 0..user_data_counter
    /\ elapsed \in 0..MaxElapsed
    /\ phase \in [Ids -> Phase]
    /\ unpolled \subseteq Ids /\ receives \subseteq Ids
    /\ waker \in [Ids -> BOOLEAN]
    /\ result \in [Ids -> Result \cup {"none"}]
    /\ panicked \in Panic

(* status() computes has_pending_io from two counters (reactor.rs:380-384) *)
(* that push_sqe and the CQE loop keep apart from the map: their           *)
(* difference is the number of map entries.  Unless push_sqe found the     *)
(* submission queue full and panicked between the map and the queue, the   *)
(* entries are exactly the operations in the submission queue, the kernel  *)
(* or the completion queue, each in one of them and once.                  *)
OutstandingTracked ==
    /\ user_data_counter = completed_count + Cardinality(completions)
    /\ panicked # "full" =>
          /\ completions = QueuedIds \cup kernel \cup CompletedIds
          /\ Cardinality(completions) = Len(sq) + Cardinality(kernel) + Len(cq)

(* The CQE loop has two unreachable!.  The second (reactor.rs:291) is not  *)
(* reached: no CQE is without a map entry.  The first (287), a future      *)
(* without a waker, IS reached, in one case only: the CQE of a UDP         *)
(* operation comes before its future was polled at all.                    *)
OnlyUnpolledMissed ==
    /\ panicked # "unknown"
    /\ panicked = "no waker" => unpolled \ completions # {}

(* A future finds its result whenever it is polled: one that returned      *)
(* Pending is registered with its waker until it is woken, one that was    *)
(* not polled yet, or was woken, has its result kept for it.               *)
NoLostCompletion ==
    \A id \in Ids :
        /\ phase[id] = "waiting" => waker[id] /\ id \in completions
        /\ phase[id] = "held" => id \in completions \/ result[id] \in Result
        /\ phase[id] = "woken" => result[id] \in Result

(* An operation that is awaited resolves or is dropped: its SQE is         *)
(* submitted below submit_depth too, a failed or short io_uring_enter of   *)
(* the SubmitThread is retried, a sleeping SQ thread is woken, its CQE is  *)
(* found although status() is gated by the timeouts, and its task woken.   *)
(* A recv_from does so once the kernel has its datagram.  (Unless the      *)
(* thread panics.)                                                         *)
Completes ==
    \A id \in Ids :
        (phase[id] = "waiting" /\ (id \in receives => id \in CompletedIds))
            ~> (phase[id] \in {"done", "dropped"} \/ panicked # "none")
=============================================================================
