----------------------------- MODULE Collective -----------------------------
(***************************************************************************)
(* The collectives of pluvio_collective's UCX backend, run by N ranks and  *)
(* called several times in a row: ring, pipelined ring and recursive-      *)
(* doubling allreduce and the adaptive choice among them, Bruck allgather, *)
(* binomial broadcast and scatter.  Ring and recursive doubling use UCX    *)
(* tag matching, the others the AM router.                                 *)
(*                                                                         *)
(* An algorithm is its rounds: what a rank sends and receives in round k.  *)
(* All of them are loops that start the sends and post the receive of a    *)
(* round together, in one poll, await both, and go on.  The pipelined ring *)
(* runs several such loops at a time, its chains, one per micro-chunk; the *)
(* other algorithms have one chain.                                        *)
(*                                                                         *)
(* A value is the bag of the contributions reduced into it: <<i, c, s>> is *)
(* what rank i passed to call c in slot s.                                 *)
(*                                                                         *)
(* BackendProofs extends this module together with the others of the       *)
(* backend; so its specification, vars and type invariant carry its name.  *)
(***************************************************************************)
EXTENDS Naturals, Sequences, FiniteSets, Bags, SequencesExt

CONSTANT
    Jobs            \* what may be run: an algorithm, on how many ranks, how many
                    \* calls in a row (a bound), from which root, on how many
                    \* elements of which total size, with which PipelineConfig,
                    \* whether the buffers have the lengths a call asks for,
                    \* whether UCX sends by rendezvous, how many sends may fail

ASSUME CollectiveAssumption ==
    /\ Jobs \subseteq [algorithm : {"ring", "pipelined", "recursive_doubling", "adaptive",
                                    "bruck", "broadcast", "scatter"},
                       ranks : Nat \ {0}, calls : Nat \ {0}, root : Nat,
                       len : Nat, size : {"small", "medium", "large"},
                       micro_chunks : Nat, max_in_flight : Nat,
                       fits : BOOLEAN, rndv : BOOLEAN, faults : 0..1]
    \* A single rank that broadcasts never looks at its root.
    /\ \A j \in Jobs : j.algorithm = "broadcast" /\ j.ranks = 1 => j.root = 0

VARIABLES
    job,            \* what is run
    call,           \* of each rank: the call it is in
    round,          \* of each chain of a rank; Rounds: the chain has returned
    started,        \* the sends and the receive of this round were started
    received,       \* what the posted receive was given, a sequence of values or <<>>
    buf,            \* of each rank: its values, by slot
    wire,           \* messages between two ranks, in order
    early,          \* of each rank: arrivals no receive was posted for
    failed,         \* <<rank, chain>> that has an error for a send of this round
    errs            \* ranks whose call returned Err when others may be in theirs

collectiveVars ==
    <<job, call, round, started, received, buf, wire, early, failed, errs>>

N == job.ranks
root == job.root
Calls == job.calls
Ranks == 0..(N - 1)

IsPowerOfTwo(n) == \E k \in 0..n : 2^k = n

(* The number of bits of x.                                                *)
Bits(x) == CHOOSE k \in 0..x : 2^k > x /\ (k = 0 \/ 2^(k - 1) <= x)

(* AdaptivePolicy: small messages are below small_threshold, large ones at *)
(* or above large_threshold.                                               *)
choose_allreduce ==
    IF job.size = "small" /\ IsPowerOfTwo(N) /\ N >= 2 THEN "recursive_doubling"
    ELSE IF job.size = "large" THEN "pipelined"
    ELSE "ring"

(* recursive_doubling falls back to the ring.                              *)
Used ==
    CASE job.algorithm = "adaptive" -> choose_allreduce
      [] job.algorithm = "recursive_doubling" /\ ~IsPowerOfTwo(N) -> "ring"
      [] OTHER -> job.algorithm

(* UCX queues messages with a tag nobody asked for yet; the AM router      *)
(* keeps one per key.                                                      *)
Routed == Used \in {"pipelined", "bruck", "broadcast", "scatter"}

(* The calls that return Err(BadShape) or Err(Protocol) on every rank      *)
(* before they send.                                                       *)
Rejected ==
    CASE Used = "ring" -> N > 1 /\ job.len % N # 0
      [] Used = "pipelined" ->
           /\ N > 1
           /\ \/ job.micro_chunks = 0 \/ job.max_in_flight = 0 \/ job.micro_chunks > 255
              \/ job.len % N # 0
              \/ (job.len \div N) % job.micro_chunks # 0
      [] Used = "bruck" -> ~job.fits
      [] Used = "broadcast" -> N > 1 /\ root \notin Ranks
      [] Used = "scatter" -> root \notin Ranks \/ (N = 1 /\ ~job.fits)
      [] OTHER -> FALSE

(* Only the root of a scatter has a send_buf whose length it can reject;   *)
(* the others then wait for it.                                            *)
RejectedAlone ==
    {r \in Ranks : Used = "scatter" /\ N > 1 /\ r = root /\ ~job.fits}

(* The micro-chunks of a pipelined ring.                                   *)
M == IF Used = "pipelined" /\ ~Rejected THEN job.micro_chunks ELSE 1
Chains == 0..(M - 1)

Rounds ==
    IF N = 1 \/ Rejected THEN 0
    ELSE CASE Used \in {"ring", "pipelined"} -> 2 * (N - 1)
           [] Used = "scatter" -> 1
           [] OTHER -> Bits(N - 1)

-----------------------------------------------------------------------------
(* Values.                                                                 *)
Nothing == EmptyBag
One(i, c, s) == SetToBag({<<i, c, s>>})
reduce_in_place(dst, src) == dst (+) src
All(c, s) == SetToBag({<<i, c, s>> : i \in Ranks})

(* recv_buf of scatter; its slots below N are send_buf of the root.        *)
RecvSlot == N
Slots ==
    CASE Used \in {"ring", "pipelined"} -> 0..(N * M - 1)
      [] Used = "bruck" -> Ranks
      [] Used = "scatter" -> Ranks \cup {RecvSlot}
      [] OTHER -> {0}

(* The buffers of rank r when it makes call c.  Root copies its own chunk  *)
(* of a scatter before it sends.                                           *)
Input(r, c) ==
    [s \in Slots |->
        CASE Used \in {"ring", "pipelined", "recursive_doubling"} -> One(r, c, s)
          [] Used = "bruck" -> IF s = 0 THEN One(r, c, 0) ELSE Nothing
          [] Used = "broadcast" -> IF r = root THEN One(r, c, 0) ELSE Nothing
          [] Used = "scatter" ->
               IF r # root THEN Nothing
               ELSE One(r, c, IF s = RecvSlot THEN r ELSE s)]

CollectiveInit ==
    /\ job \in Jobs
    /\ call = [r \in Ranks |-> 1]
    /\ round = [r \in Ranks |-> [m \in Chains |-> 0]]
    /\ started = [r \in Ranks |-> [m \in Chains |-> FALSE]]
    /\ received = [r \in Ranks |-> [m \in Chains |-> <<>>]]
    /\ buf = [r \in Ranks |-> Input(r, 1)]
    /\ wire = [p \in Ranks \X Ranks |-> <<>>]
    /\ early = [r \in Ranks |-> <<>>]
    /\ failed = {} /\ errs = RejectedAlone

-----------------------------------------------------------------------------
(* The rounds: sends, [to, slots] for every message; recv, {} or the one   *)
(* [from, slots] that is received; reduce; the step and phase of the tag   *)
(* or header.  (A definition whose name says what is wrong with it is a    *)
(* slip that the checks must catch.)                                       *)
RingIndex_not_shifted(r, step, phase) == (r + N - step) % N
RingIndex(r, step, phase) == (r + N - step + phase) % N

RingReduces_always(phase) == TRUE
RingReduces(phase) == phase = 0

(* Phase 0 is the reduce-scatter, phase 1 the allgather; chunk idx has its *)
(* micro-chunk m in slot idx * M + m.                                      *)
RingRound(r, m, k) ==
    LET phase == k \div (N - 1)
        step == k % (N - 1)
        send_idx == RingIndex(r, step, phase)
        recv_idx == (send_idx + N - 1) % N
    IN  [sends |-> {[to |-> (r + 1) % N, slots |-> <<send_idx * M + m>>]},
         recv |-> {[from |-> (r + N - 1) % N, slots |-> <<recv_idx * M + m>>]},
         reduce |-> RingReduces(phase), step |-> step, phase |-> phase]

(* The peer rank ^ (1 << k).                                               *)
Peer(r, k) == IF (r \div 2^k) % 2 = 0 THEN r + 2^k ELSE r - 2^k

RecursiveDoublingRound(r, k) ==
    [sends |-> {[to |-> Peer(r, k), slots |-> <<0>>]},
     recv |-> {[from |-> Peer(r, k), slots |-> <<0>>]},
     reduce |-> TRUE, step |-> k, phase |-> 3]

Least(a, b) == IF a < b THEN a ELSE b

(* Slot s holds the contribution of rank r + s; count = 2^k of them.       *)
BruckRound(r, k) ==
    LET count == 2^k
        to_send == Least(count, N - count)
    IN  [sends |-> {[to |-> (r + N - count) % N, slots |-> [i \in 1..to_send |-> i - 1]]},
         recv |-> {[from |-> (r + count) % N, slots |-> [i \in 1..to_send |-> count + i - 1]]},
         reduce |-> FALSE, step |-> k, phase |-> 4]

(* logical_highest_bit                                                     *)
HighestBit(x) == Bits(x) - 1

(* The binomial tree, root being logical rank 0: a rank receives in the    *)
(* round of its highest bit and sends in all later ones.                   *)
BroadcastRound(r, k) ==
    LET logical == (r + N - root) % N
        have_data == logical = 0 \/ HighestBit(logical) < k
        peer == logical + 2^k
    IN  [sends |-> IF have_data /\ peer < N
                   THEN {[to |-> (peer + root) % N, slots |-> <<0>>]} ELSE {},
         recv |-> IF ~have_data /\ HighestBit(logical) = k
                  THEN {[from |-> (logical - 2^k + root) % N, slots |-> <<0>>]} ELSE {},
         reduce |-> FALSE, step |-> k, phase |-> 5]

ScatterRound(r, k) ==
    [sends |-> IF r = root
               THEN {[to |-> q, slots |-> <<q>>] : q \in Ranks \ {root}} ELSE {},
     recv |-> IF r = root THEN {} ELSE {[from |-> root, slots |-> <<RecvSlot>>]},
     reduce |-> FALSE, step |-> root, phase |-> 2]

Round(r, m, k) ==
    CASE Used \in {"ring", "pipelined"} -> RingRound(r, m, k)
      [] Used = "recursive_doubling" -> RecursiveDoublingRound(r, k)
      [] Used = "bruck" -> BruckRound(r, k)
      [] Used = "broadcast" -> BroadcastRound(r, k)
      [] Used = "scatter" -> ScatterRound(r, k)

Current(r, m) == Round(r, m, round[r][m])

-----------------------------------------------------------------------------
(* The key of what a chain m of src sends in round p, which the chain m of *)
(* its peer receives.                                                      *)
Key_without_micro_chunk(src, m, p) == [src |-> src, step |-> p.step, phase |-> p.phase]

Key(src, m, p) ==
    [src |-> src, step |-> p.step, phase |-> p.phase, micro_chunk |-> m]

(* pipelined_ring pushes the chains of a phase in order; from the          *)
(* max_in_flight-th on it awaits the end of one chain after every push.    *)
(* The allgather phase begins when all chains of the reduce-scatter ended. *)
Launched(r, m) ==
    Used = "pipelined" =>
        LET phase == round[r][m] \div (N - 1)
            ended == {c \in Chains : round[r][c] >= (phase + 1) * (N - 1)}
        IN  /\ \A c \in Chains : round[r][c] >= phase * (N - 1)
            /\ m < job.max_in_flight + Cardinality(ended)

(* A chain starts its round: messages leave with the values buf has, and   *)
(* the receive takes the first early arrival with its key, or is posted.   *)
(* A send that fails may have delivered its message or not; only `out' are *)
(* delivered.                                                              *)
Start(r, m, out, fails) ==
    LET p == Current(r, m)
        Message(s) == [key |-> Key(r, m, p),
                       vals |-> [i \in DOMAIN s.slots |-> buf[r][s.slots[i]]]]
        waits == {i \in DOMAIN early[r] :
                     \E f \in p.recv : early[r][i].key = Key(f.from, m, p)}
        first == CHOOSE i \in waits : \A j \in waits : i <= j
    IN  /\ started' = [started EXCEPT ![r][m] = TRUE]
        /\ wire' = [q \in Ranks \X Ranks |->
                     LET new == {s \in out : q = <<r, s.to>>}
                     IN  IF new = {} THEN wire[q]
                         ELSE Append(wire[q], Message(CHOOSE s \in new : TRUE))]
        /\ IF waits = {}
           THEN UNCHANGED <<received, early>>
           ELSE /\ received' = [received EXCEPT ![r][m] = early[r][first].vals]
                /\ early' = [early EXCEPT ![r] = RemoveAt(@, first)]
        /\ failed' = IF fails THEN failed \cup {<<r, m>>} ELSE failed
        /\ UNCHANGED <<job, call, round, buf, errs>>

MayStart(r, m) ==
    r \notin errs /\ round[r][m] < Rounds /\ ~started[r][m] /\ Launched(r, m)

StartRound(r, m) == MayStart(r, m) /\ Start(r, m, Current(r, m).sends, FALSE)

StartAndFail(r, m) ==
    /\ MayStart(r, m)
    /\ job.faults > 0 /\ failed = {} /\ errs = {}
    /\ Current(r, m).sends # {}
    /\ \E out \in SUBSET Current(r, m).sends : Start(r, m, out, TRUE)

(* Chain m of rank r has a receive with this key posted.                   *)
Posted(r, m, key) ==
    /\ r \notin errs /\ started[r][m] /\ received[r][m] = <<>>
    /\ \E f \in Current(r, m).recv : key = Key(f.from, m, Current(r, m))

EarlyAfter_dropped(e, x) == e

(* What is early at a rank after the arrival of message x there: a second  *)
(* one under its key is lost in the AM router, and the first one with it.  *)
EarlyAfter(e, x) ==
    LET twin == {i \in DOMAIN e : e[i].key = x.key}
    IN  IF Routed /\ twin # {}
        THEN RemoveAt(e, CHOOSE i \in twin : TRUE)
        ELSE Append(e, x)

(* A message arrives: at the posted receive it matches, or early.          *)
Deliver(src, dst) ==
    LET x == Head(wire[<<src, dst>>])
        at == {m \in Chains : Posted(dst, m, x.key)}
    IN  /\ wire[<<src, dst>>] # <<>>
        /\ wire' = [wire EXCEPT ![<<src, dst>>] = Tail(@)]
        /\ IF at # {}
           THEN /\ received' = [received EXCEPT ![dst][CHOOSE m \in at : TRUE] = x.vals]
                /\ UNCHANGED early
           ELSE early' = [early EXCEPT ![dst] = EarlyAfter(@, x)] /\ UNCHANGED received
        /\ UNCHANGED <<job, call, round, started, buf, failed, errs>>

(* The last step of bruck_allgather: slot s holds rank r + s.              *)
Rotated(r, b) == [s \in Slots |-> b[(s + N - r) % N]]

(* The values of the receive are stored or reduced into the buffer.        *)
Stored(r, m, p) ==
    [s \in Slots |->
        LET at == {i \in 1..Len(received[r][m]) : \E f \in p.recv : f.slots[i] = s}
        IN  IF at = {} THEN buf[r][s]
            ELSE LET v == received[r][m][CHOOSE i \in at : TRUE]
                 IN  IF p.reduce THEN reduce_in_place(buf[r][s], v) ELSE v]

(* An eager send is complete when it was started; a rendezvous ends when   *)
(* the data was fetched, for a tag by the receive it matched.              *)
Unsent(r, m, p) ==
    /\ job.rndv
    /\ \E s \in p.sends :
          \/ \E i \in DOMAIN wire[<<r, s.to>>] : wire[<<r, s.to>>][i].key = Key(r, m, p)
          \/ ~Routed /\ \E i \in DOMAIN early[s.to] : early[s.to][i].key = Key(r, m, p)

(* All futures of the round are ready.  A failed send ends the call, after *)
(* the receive of the round.                                               *)
Finish(r, m) ==
    LET p == Current(r, m)
        last == round[r][m] = Rounds - 1
        b == Stored(r, m, p)
    IN  /\ r \notin errs /\ started[r][m]
        /\ p.recv = {} \/ received[r][m] # <<>>
        /\ ~Unsent(r, m, p)
        /\ IF <<r, m>> \in failed
           THEN errs' = errs \cup {r} /\ UNCHANGED <<buf, received, started, round>>
           ELSE /\ buf' = [buf EXCEPT ![r] =
                             IF Used = "bruck" /\ last THEN Rotated(r, b) ELSE b]
                /\ received' = [received EXCEPT ![r][m] = <<>>]
                /\ started' = [started EXCEPT ![r][m] = FALSE]
                /\ round' = [round EXCEPT ![r][m] = @ + 1]
                /\ UNCHANGED errs
        /\ UNCHANGED <<job, call, wire, early, failed>>

Returned(r) == \A m \in Chains : round[r][m] = Rounds

CallAgain(r) ==
    /\ Returned(r) /\ call[r] < Calls
    /\ call' = [call EXCEPT ![r] = @ + 1]
    /\ round' = [round EXCEPT ![r] = [m \in Chains |-> 0]]
    /\ buf' = [buf EXCEPT ![r] = Input(r, call[r] + 1)]
    /\ UNCHANGED <<job, started, received, wire, early, failed, errs>>

CollectiveNext ==
    \/ \E r \in Ranks, m \in Chains : StartRound(r, m) \/ StartAndFail(r, m) \/ Finish(r, m)
    \/ \E r \in Ranks : CallAgain(r)
    \/ \E src, dst \in Ranks : Deliver(src, dst)

CollectiveSpec == CollectiveInit /\ [][CollectiveNext]_collectiveVars

(* Every rank runs its task and UCX delivers.                              *)
CollectiveFairSpec == CollectiveSpec /\ WF_collectiveVars(CollectiveNext)

-----------------------------------------------------------------------------
Contributions == Ranks \X (1..Calls) \X Slots
IsValue(v) == DOMAIN v \subseteq Contributions /\ \A x \in DOMAIN v : v[x] = 1

(* Type invariant; no contribution is ever reduced into a value twice.     *)
CollectiveTypeOK ==
    /\ job \in Jobs
    /\ call \in [Ranks -> 1..Calls]
    /\ round \in [Ranks -> [Chains -> 0..Rounds]]
    /\ started \in [Ranks -> [Chains -> BOOLEAN]]
    /\ \A r \in Ranks : \A s \in Slots : IsValue(buf[r][s])
    /\ \A r \in Ranks, m \in Chains : \A i \in 1..Len(received[r][m]) : IsValue(received[r][m][i])
    /\ failed \subseteq Ranks \X Chains
    /\ errs \subseteq Ranks

(* When a call returns Ok, a rank has what the collective promises: the    *)
(* reduction of every rank's input of this call, once each, in every       *)
(* chunk; every rank's contribution in its place; the root's data; its own *)
(* chunk of the root's data.  For every root, although ranks are rounds    *)
(* and whole calls apart, chains of a rank overtake each other, and a send *)
(* of some rank fails.                                                     *)
ResultCorrect ==
    \A r \in Ranks : Returned(r) /\ ~Rejected =>
        LET c == call[r]
        IN  CASE Used \in {"ring", "pipelined", "recursive_doubling"} ->
                   \A s \in Slots : buf[r][s] = All(c, s)
              [] Used = "bruck" -> \A s \in Ranks : buf[r][s] = One(s, c, 0)
              [] Used = "broadcast" -> buf[r][0] = One(root, c, 0)
              [] Used = "scatter" -> buf[r][RecvSlot] = One(root, c, r)

(* Nobody waits for ever: unless a send fails or the root of a scatter     *)
(* rejects its buffer, every rank returns from every call, whatever the    *)
(* window of chains in flight, and also when a send is complete only with  *)
(* its receive.                                                            *)
AllReturn ==
    <>[](failed # {} \/ errs # {} \/ \A r \in Ranks : call[r] = Calls /\ Returned(r))

=============================================================================
