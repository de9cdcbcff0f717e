----------------------------- MODULE UcxWorker ------------------------------
(***************************************************************************)
(* pluvio_ucx: the state of each Worker (Active, WaitConnect, Inactive),   *)
(* the counter of workers that are not Inactive, by which the UCXReactor   *)
(* tells the executor whether it has to be polled, and the operations,     *)
(* AM streams and listeners that move both.                                *)
(*                                                                         *)
(* Most operations are an async fn that activates the worker, awaits UCX   *)
(* and deactivates it; others run between its await and its end.  Some     *)
(* only await UCX.  A worker is only driven by UCXReactor::poll, which the *)
(* executor calls while status() says Running.                             *)
(***************************************************************************)
EXTENDS Naturals, FiniteSets

CONSTANTS
    Workers,
    Ops,           \* names for calls in progress, reused
    Ids,           \* ids of AM streams and listeners
    Word,          \* 2^w, the range of the usize counter
    MaxHandles     \* bound: clones of an AmStream

ASSUME UcxAssumption ==
    /\ IsFiniteSet(Workers) /\ Workers # {}
    /\ Word \in Nat /\ Word > Cardinality(Workers)
    /\ MaxHandles \in Nat \ {0}

VARIABLES
    state,         \* WorkerState
    listener_ids,  \* of each worker
    count,         \* active_or_waiting_count of the reactor
    handles,       \* live AmStream clones or Listeners, by worker and id
    on,            \* the worker a call was made on
    kind,          \* "op" (activate .. deactivate), "send" (am_send), "wait" (wait_msg),
                   \* "bare" (neither)
    phase,         \* "idle", "flight" (UCX has it), "complete" (the task has not
                   \* been polled since), "buffered" (am_send returned before
                   \* UCX put the message on the wire)
    strayed        \* history: a worker was used otherwise than pluvio_collective
                   \* uses it, see Used

vars == <<state, listener_ids, count, handles, on, kind, phase, strayed>>
calls == <<on, kind, phase>>

(* What on holds for a call that is not in progress.                       *)
AnyWorker == CHOOSE w \in Workers : TRUE

Init ==
    /\ state = [w \in Workers |-> "Inactive"]
    /\ listener_ids = [w \in Workers |-> {}]
    /\ count = 0
    /\ handles = [w \in Workers |-> [i \in Ids |-> 0]]
    /\ on = [o \in Ops |-> AnyWorker]
    /\ kind = [o \in Ops |-> "op"]
    /\ phase = [o \in Ops |-> "idle"]
    /\ strayed = FALSE

-----------------------------------------------------------------------------
(* Transitions of a worker.  (A definition whose name says what is wrong   *)
(* with it is a slip that the checks must catch.)                          *)

(* The counter after a transition away from Inactive.                      *)
Counted(w) == IF state[w] = "Inactive" THEN (count + 1) % Word ELSE count

activate(w) ==
    /\ state' = [state EXCEPT ![w] = "Active"]
    /\ count' = Counted(w)

wait_connect(w) ==
    /\ state' = [state EXCEPT ![w] = "WaitConnect"]
    /\ count' = Counted(w)

(* Called when listener_ids of w is ids.                                   *)
deactivate_always_counted(w, ids) ==
    /\ state' = [state EXCEPT ![w] = IF ids = {} THEN "Inactive" ELSE "WaitConnect"]
    /\ count' = IF ids = {} THEN (count + Word - 1) % Word ELSE count

deactivate_with_listeners(w, ids) ==
    /\ state' = [state EXCEPT ![w] = "Inactive"]
    /\ count' = IF state[w] # "Inactive" THEN (count + Word - 1) % Word ELSE count

deactivate(w, ids) ==
    /\ state' = [state EXCEPT ![w] = IF ids = {} THEN "Inactive" ELSE "WaitConnect"]
    /\ count' = IF ids = {} /\ state[w] # "Inactive" THEN (count + Word - 1) % Word ELSE count

-----------------------------------------------------------------------------
(* pluvio_collective uses a worker with one AM stream, registered before   *)
(* anything is sent or received and dropped after all of it is over.  The  *)
(* library accepts any other order too; history keeps that it happened.    *)
Outstanding(w) == {o \in Ops : on[o] = w /\ phase[o] # "idle"}

Used(asIntended) == strayed' = (strayed \/ ~asIntended)

(* The first poll of the future: UCX may have the answer at once.          *)
Start(o, w, k) ==
    /\ phase[o] = "idle"
    /\ on' = [on EXCEPT ![o] = w]
    /\ kind' = [kind EXCEPT ![o] = k]
    /\ \E p \in {"flight", "complete"} : phase' = [phase EXCEPT ![o] = p]
    /\ UNCHANGED <<listener_ids, handles>>

(* put, get, stream_send, stream_recv, tag_send, tag_recv, connect_socket, *)
(* accept, and the vectored forms.                                         *)
StartOp(o, w) == Start(o, w, "op") /\ activate(w) /\ Used(listener_ids[w] # {})

(* am_send and am_send_vectorized.                                         *)
StartSend(o, w) == Start(o, w, "send") /\ activate(w) /\ Used(listener_ids[w] # {})

(* AmStream::wait_msg.                                                     *)
StartWait(o, w, i) ==
    /\ handles[w][i] > 0
    /\ Start(o, w, "wait") /\ wait_connect(w) /\ Used(listener_ids[w] # {})

(* Endpoint::flush and close, Listener::next and the recv_data of a        *)
(* message: they await UCX and leave the worker as it is.  The dispatcher  *)
(* of pluvio_collective reads its data after a wait_msg.                   *)
StartBare(o, w) ==
    /\ Start(o, w, "bare")
    /\ Used(listener_ids[w] # {} /\ state[w] # "Inactive")
    /\ UNCHANGED <<state, count>>

(* The call is over: its name can be given to another.                     *)
Over(o) ==
    /\ phase' = [phase EXCEPT ![o] = "idle"]
    /\ on' = [on EXCEPT ![o] = AnyWorker]
    /\ kind' = [kind EXCEPT ![o] = "op"]

(* The rest of the async fn after its await; am_send leaves the state as   *)
(* it is, and so do the bare calls.                                        *)
Finish(o) ==
    /\ phase[o] = "complete"
    /\ \/ /\ kind[o] = "send"
          /\ \/ Over(o)
             \/ phase' = [phase EXCEPT ![o] = "buffered"] /\ UNCHANGED <<on, kind>>
          /\ UNCHANGED <<state, count>>
       \/ kind[o] = "bare" /\ Over(o) /\ UNCHANGED <<state, count>>
       \/ /\ kind[o] \in {"op", "wait"}
          /\ Over(o)
          /\ deactivate(on[o], listener_ids[on[o]])
    /\ UNCHANGED <<listener_ids, handles, strayed>>

(* The future is dropped instead: nothing after the await runs.            *)
Cancel(o) ==
    /\ phase[o] \in {"flight", "complete"}
    /\ Over(o)
    /\ UNCHANGED <<state, listener_ids, count, handles, strayed>>

-----------------------------------------------------------------------------
(* UCXReactor.                                                             *)
Running == count > 0

(* UCXReactor::poll drives every registered worker; one call or buffered   *)
(* message gets done.                                                      *)
Progress(o) ==
    /\ Running
    /\ \/ /\ phase[o] = "flight"
          /\ phase' = [phase EXCEPT ![o] = "complete"]
          /\ UNCHANGED <<on, kind>>
       \/ phase[o] = "buffered" /\ Over(o)
    /\ UNCHANGED <<state, listener_ids, count, handles, strayed>>

-----------------------------------------------------------------------------
(* Worker::am_stream, and clones of the stream.                            *)
OpenStream(w, i) ==
    /\ handles[w][i] = 0
    /\ Used((\A j \in Ids : handles[w][j] = 0) /\ Outstanding(w) = {})
    /\ listener_ids' = [listener_ids EXCEPT ![w] = @ \cup {i}]
    /\ handles' = [handles EXCEPT ![w][i] = 1]
    /\ UNCHANGED <<state, count, calls>>

CloneStream(w, i) ==
    /\ handles[w][i] \in 1 .. MaxHandles - 1
    /\ handles' = [handles EXCEPT ![w][i] = @ + 1]
    /\ UNCHANGED <<state, listener_ids, count, calls, strayed>>

CreateListener(w, i) ==
    /\ handles[w][i] = 0
    /\ Used((\A j \in Ids : handles[w][j] = 0) /\ Outstanding(w) = {})
    /\ IF state[w] = "Inactive" THEN wait_connect(w) ELSE UNCHANGED <<state, count>>
    /\ listener_ids' = [listener_ids EXCEPT ![w] = @ \cup {i}]
    /\ handles' = [handles EXCEPT ![w][i] = 1]
    /\ UNCHANGED calls

(* AmStream::close wakes every wait_msg, without the reactor.              *)
CloseStream(w, i) ==
    /\ handles[w][i] > 0
    /\ \E o \in Ops : on[o] = w /\ kind[o] = "wait" /\ phase[o] = "flight"
    /\ phase' = [o \in Ops |-> IF on[o] = w /\ kind[o] = "wait" /\ phase[o] = "flight"
                               THEN "complete" ELSE phase[o]]
    /\ UNCHANGED <<state, listener_ids, count, handles, on, kind, strayed>>

(* Drop for AmStream and for Listener: also the drop of one clone of       *)
(* several removes the id.                                                 *)
DropHandle_deactivating_first(w, i) ==
    /\ handles[w][i] > 0
    /\ Used(Outstanding(w) = {})
    /\ handles' = [handles EXCEPT ![w][i] = @ - 1]
    /\ listener_ids' = [listener_ids EXCEPT ![w] = @ \ {i}]
    /\ deactivate(w, listener_ids[w])
    /\ UNCHANGED calls

DropHandle(w, i) ==
    /\ handles[w][i] > 0
    /\ Used(Outstanding(w) = {})
    /\ handles' = [handles EXCEPT ![w][i] = @ - 1]
    /\ listener_ids' = [listener_ids EXCEPT ![w] = @ \ {i}]
    /\ deactivate(w, listener_ids[w] \ {i})
    /\ UNCHANGED calls

Next ==
    \/ \E o \in Ops :
          \/ \E w \in Workers : StartOp(o, w) \/ StartSend(o, w) \/ StartBare(o, w)
          \/ \E w \in Workers, i \in Ids : StartWait(o, w, i)
          \/ Finish(o) \/ Cancel(o) \/ Progress(o)
    \/ \E w \in Workers, i \in Ids :
          \/ OpenStream(w, i) \/ CloneStream(w, i) \/ CreateListener(w, i)
          \/ CloseStream(w, i) \/ DropHandle(w, i)

Spec == Init /\ [][Next]_vars

-----------------------------------------------------------------------------
(* Types; used as intended, the counter stays between zero and the number  *)
(* of workers.  (Otherwise it may wrap around below zero.)                 *)
TypeOK ==
    /\ state \in [Workers -> {"Active", "WaitConnect", "Inactive"}]
    /\ listener_ids \in [Workers -> SUBSET Ids]
    /\ count \in 0 .. (IF strayed THEN Word - 1 ELSE Cardinality(Workers))
    /\ handles \in [Workers -> [Ids -> 0 .. MaxHandles]]
    /\ on \in [Ops -> Workers]
    /\ kind \in [Ops -> {"op", "send", "wait", "bare"}]
    /\ phase \in [Ops -> {"idle", "flight", "complete", "buffered"}]
    /\ strayed \in BOOLEAN

(* What the field says ("Atomic counter for active/waiting workers") and   *)
(* what deactivate's comment relies on ("No counter change: Active ->      *)
(* WaitConnect (both counted)"): the counter is the number of workers that *)
(* are not Inactive, whichever calls overlap and whichever are dropped, as *)
(* long as the workers are used as pluvio_collective uses them.            *)
CountMirrorsStates ==
    ~strayed => count = Cardinality({w \in Workers : state[w] # "Inactive"})

(* UCX holds the call, or the message am_send left with it.                *)
InFlight(o) == phase[o] \in {"flight", "buffered"}

(* What am_send says ("Do not deactivate here - messages may still be in   *)
(* flight in UCX layer"): while UCX holds a call or a message, the reactor *)
(* is polled, under the same condition.                                    *)
InFlightPolled == ~strayed /\ (\E o \in Ops : InFlight(o)) => Running

(* Once the last stream or listener is gone, no worker is counted any      *)
(* more, under the same condition: the reactor says Stopped, and the       *)
(* executor no longer polls it for nothing, whichever of the calls were    *)
(* dropped in flight.                                                      *)
RestsWhenClosed ==
    ~strayed /\ (\A w \in Workers, i \in Ids : handles[w][i] = 0) => ~Running
=============================================================================
