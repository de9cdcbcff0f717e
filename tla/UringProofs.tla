---------------------------- MODULE UringProofs -----------------------------
(***************************************************************************)
(* For any sizes of the queues, timeouts and number of operations, however *)
(* many of them clients keep outstanding: the futures find their results;  *)
(* the map and the two counters tell exactly what is in the rings and the  *)
(* kernel, until push_sqe panics at a full queue; and the CQE loop panics  *)
(* only for a UDP operation that completes before it was polled.           *)
(***************************************************************************)
EXTENDS Uring, FiniteSetTheorems, TLAPS

(* The user_data of the map are of SQEs pushed, and the counters differ by *)
(* the size of the map.                                                    *)
Balanced ==
    /\ completions \subseteq 0 .. user_data_counter - 1
    /\ user_data_counter = completed_count + Cardinality(completions)

IInv == TypeOK /\ Balanced /\ NoLostCompletion

(* A user_data of the map is in one place, and there once.                 *)
Placed ==
    /\ completions = QueuedIds \cup kernel \cup CompletedIds
    /\ \A i, j \in 1 .. Len(sq) : sq[i] = sq[j] => i = j
    /\ \A i, j \in 1 .. Len(cq) : cq[i].id = cq[j].id => i = j
    /\ kernel \cap QueuedIds = {}
    /\ kernel \cap CompletedIds = {}
    /\ QueuedIds \cap CompletedIds = {}

(* An operation outstanding has a waker, or its future was never polled;   *)
(* one with a result was pushed and is outstanding no more.                *)
Registered ==
    /\ \A id \in completions : waker[id] \/ id \in unpolled
    /\ \A id \in Ids : result[id] \in Result => id < user_data_counter /\ id \notin completions

PInv == IInv /\ Placed /\ Registered /\ OnlyUnpolledMissed

(* A push_sqe that panics leaves an entry in the map that is nowhere else; *)
(* the thread does nothing after it.                                       *)
FInv == IInv /\ (panicked # "full" => PInv)

-----------------------------------------------------------------------------
(* The map is finite, and has room for the next user_data.                 *)
LEMMA MapFinite ==
    ASSUME IInv
    PROVE  /\ IsFiniteSet(completions)
           /\ Cardinality(completions) \in Nat
           /\ user_data_counter \notin completions
  <1>1. user_data_counter \in Nat /\ completions \subseteq 0 .. user_data_counter - 1
    BY UringAssumption DEF IInv, TypeOK, Balanced
  <1>2. IsFiniteSet(0 .. user_data_counter - 1)
    BY <1>1, FS_Interval
  <1>3. IsFiniteSet(completions)
    BY <1>1, <1>2, FS_Subset
  <1> QED
    BY <1>1, <1>3, FS_CardinalityType

LEMMA SizeTyped == config \in Configs => queue_size \in Nat
  BY UringAssumption DEF config

LEMMA InitIInv == Init => IInv
  <1> SUFFICES ASSUME Init PROVE IInv
    OBVIOUS
  <1>1. TypeOK
    <2>0. PICK c \in Configs : mode = c[1] /\ always_poll = c[2] /\ queue_size = c[3]
      BY DEF Init
    <2>1. config \in Configs
      <3>1. c = <<c[1], c[2], c[3]>>
        BY UringAssumption
      <3> QED
        BY <2>0, <3>1 DEF config
    <2>8. queue_size \in Nat
      BY <2>1, SizeTyped
    <2>2. MaxElapsed \in Nat
      BY UringAssumption DEF MaxElapsed
    <2>3. sq \in Seq(Ids) /\ Len(sq) = 0 /\ cq \in Seq([id : Ids, res : Result]) /\ Len(cq) = 0
      BY DEF Init
    <2>4. phase \in [Ids -> Phase] /\ result \in [Ids -> Result \cup {"none"}]
      BY DEF Init, Phase
    <2>5. waker \in [Ids -> BOOLEAN]
      BY DEF Init
    <2>6. left \in 0 .. Len(cq) /\ user_data_counter \in 0 .. MaxOps /\ elapsed \in 0 .. MaxElapsed
      BY <2>2, <2>3, UringAssumption DEF Init
    <2>7. completed_count \in 0 .. user_data_counter /\ Len(sq) <= queue_size
      BY <2>3, <2>8 DEF Init
    <2> QED
      BY <2>1, <2>3, <2>4, <2>5, <2>6, <2>7 DEF Init, TypeOK, Panic
  <1>2. Balanced
    BY FS_EmptySet DEF Init, Balanced
  <1>3. NoLostCompletion
    BY DEF Init, NoLostCompletion
  <1> QED
    BY <1>1, <1>2, <1>3 DEF IInv

(* push_sqe updates counter and map together, and so they agree even when  *)
(* it panics.                                                              *)
LEMMA PushKeeps ==
    ASSUME IInv, NEW p \in {"held", "waiting"}, NEW w \in BOOLEAN, NEW recv \in BOOLEAN,
           push_sqe(p, w, recv), p = "waiting" => w
    PROVE  IInv'
  <1> DEFINE id == user_data_counter
  <1>1. id \in Ids /\ id \in Nat /\ id + 1 \in 0 .. MaxOps
    BY UringAssumption DEF IInv, TypeOK, push_sqe, Ids
  <1>2. /\ user_data_counter' = id + 1
        /\ completions' = completions \cup {id}
        /\ completed_count' = completed_count
    BY DEF push_sqe
  <1>3. Cardinality(completions') = Cardinality(completions) + 1
    BY <1>2, MapFinite, FS_AddElement
  <1>4. Balanced'
    <2>1. completions' \subseteq 0 .. user_data_counter' - 1
      <3> SUFFICES ASSUME NEW x \in completions' PROVE x \in 0 .. user_data_counter' - 1
        OBVIOUS
      <3>1. user_data_counter' - 1 = id
        BY <1>1, <1>2
      <3>2. x = id \/ x \in 0 .. id - 1
        BY <1>2 DEF IInv, Balanced
      <3> QED
        BY <1>1, <3>1, <3>2
    <2>2. completed_count \in Nat /\ Cardinality(completions) \in Nat
      BY <1>1, MapFinite DEF IInv, TypeOK
    <2>3. user_data_counter' = completed_count' + Cardinality(completions')
      BY <1>1, <1>2, <1>3, <2>2 DEF IInv, Balanced
    <2> QED
      BY <2>1, <2>3 DEF Balanced
  <1>5. CASE Len(sq) = queue_size
    <2>1. panicked' = "full" /\ UNCHANGED <<sq, handles>>
      BY <1>5 DEF push_sqe
    <2>2. TypeOK'
      <3>1. panicked' \in Panic
        BY <2>1 DEF Panic
      <3>2. completions' \subseteq Ids /\ user_data_counter' \in 0 .. MaxOps
        BY <1>1, <1>2 DEF IInv, TypeOK
      <3>3. completed_count' \in 0 .. user_data_counter'
        BY <1>1, <1>2 DEF IInv, TypeOK
      <3> QED
        BY <2>1, <3>1, <3>2, <3>3
        DEF push_sqe, IInv, TypeOK, config, offload, polling, handles, MaxElapsed
    <2>3. NoLostCompletion'
      BY <1>2, <2>1 DEF IInv, NoLostCompletion, handles
    <2> QED
      BY <1>4, <2>2, <2>3 DEF IInv
  <1>6. CASE Len(sq) # queue_size
    <2>1. /\ sq' = Append(sq, id)
          /\ phase' = [phase EXCEPT ![id] = p]
          /\ waker' = [waker EXCEPT ![id] = w]
          /\ unpolled' \subseteq unpolled \cup {id} /\ receives' \subseteq receives \cup {id}
          /\ UNCHANGED <<result, panicked>>
      BY <1>6 DEF push_sqe
    <2>2. sq' \in Seq(Ids) /\ Len(sq') <= queue_size
      <3>1. queue_size \in Nat /\ sq \in Seq(Ids) /\ Len(sq) <= queue_size
        BY SizeTyped DEF IInv, TypeOK
      <3>2. queue_size' = queue_size
        BY DEF push_sqe, config
      <3> QED
        BY <1>1, <1>6, <2>1, <3>1, <3>2
    <2>3. TypeOK'
      BY <1>1, <1>2, <2>1, <2>2 DEF push_sqe, IInv, TypeOK, config, queues, offload, polling, MaxElapsed, Phase
    <2>4. NoLostCompletion'
      <3> SUFFICES ASSUME NEW i \in Ids
                   PROVE  /\ phase'[i] = "waiting" => waker'[i] /\ i \in completions'
                          /\ phase'[i] = "held" => i \in completions' \/ result'[i] \in Result
                          /\ phase'[i] = "woken" => result'[i] \in Result
        BY DEF NoLostCompletion
      <3>1. CASE i = id
        BY <3>1, <1>1, <1>2, <2>1 DEF IInv, TypeOK
      <3>2. CASE i # id
        BY <3>2, <1>1, <1>2, <2>1 DEF IInv, TypeOK, NoLostCompletion
      <3> QED
        BY <3>1, <3>2
    <2> QED
      BY <1>4, <2>3, <2>4 DEF IInv
  <1> QED
    BY <1>5, <1>6

(* A step that leaves the map, the counters and the handles alone has only *)
(* types to keep.                                                          *)
LEMMA FrameKeeps ==
    ASSUME IInv, UNCHANGED <<counts, handles>>, TypeOK'
    PROVE  IInv'
  BY DEF IInv, Balanced, NoLostCompletion, counts, handles

(* What is left of the submission queue after the kernel took n SQEs.      *)
LEMMA SubSeqTyped ==
    ASSUME NEW S, NEW s \in Seq(S), NEW n \in 1 .. Len(s)
    PROVE  /\ SubSeq(s, n + 1, Len(s)) \in Seq(S)
           /\ Len(SubSeq(s, n + 1, Len(s))) = Len(s) - n
           /\ \A i \in 1 .. Len(s) - n : SubSeq(s, n + 1, Len(s))[i] = s[n + i]
  OBVIOUS

LEMMA ConsumeTyped ==
    ASSUME TypeOK, NEW n \in 1 .. Len(sq), Consume(n)
    PROVE  sq' \in Seq(Ids) /\ Len(sq') <= queue_size /\ kernel' \subseteq Ids /\ cq' = cq
  <1>1. sq' = SubSeq(sq, n + 1, Len(sq)) /\ cq' = cq /\ kernel' = kernel \cup {sq[i] : i \in 1 .. n}
    BY DEF Consume
  <1>2. sq \in Seq(Ids) /\ Len(sq) <= queue_size /\ kernel \subseteq Ids
    BY DEF TypeOK
  <1>3. sq' \in Seq(Ids) /\ Len(sq') = Len(sq) - n
    BY <1>1, <1>2, SubSeqTyped
  <1>4. \A i \in 1 .. n : sq[i] \in Ids
    BY <1>2
  <1>5. queue_size \in Nat
    BY SizeTyped DEF TypeOK
  <1> QED
    BY <1>1, <1>2, <1>3, <1>4, <1>5

LEMMA SubmitTyped ==
    ASSUME TypeOK, Submit
    PROVE  /\ sq' \in Seq(Ids) /\ Len(sq') <= queue_size /\ kernel' \subseteq Ids /\ cq' = cq
           /\ need_wakeup' \in BOOLEAN
  <1>1. CASE \E n \in 1 .. Len(sq) : Consume(n) /\ UNCHANGED need_wakeup
    BY <1>1, ConsumeTyped DEF TypeOK
  <1>2. CASE need_wakeup' = FALSE /\ UNCHANGED <<sq, kernel, cq>>
    BY <1>2 DEF TypeOK
  <1>3. CASE UNCHANGED queues
    BY <1>3 DEF TypeOK, queues
  <1> QED
    BY <1>1, <1>2, <1>3 DEF Submit

(* The steps that leave the map and the handles alone.                     *)
QuietStep ==
    \/ WaitCqueue \/ KernelConsumes \/ KernelSleeps
    \/ \E id \in Ids, res \in Result : KernelCompletes(id, res)
    \/ ThreadSwaps \/ ThreadUnparks \/ ThreadEnters \/ ThreadEnterFails
    \/ Tick \/ PollSubmits \/ Unpark \/ SeeCompletions \/ DrainEnd

LEMMA SubmitFailsKeeps ==
    ASSUME IInv, SubmitFails
    PROVE  IInv'
  <1>1. panicked' = "submit" /\ UNCHANGED <<config, queues, offload, polling, counts, elapsed, handles>>
    BY DEF SubmitFails
  <1>2. TypeOK'
    BY <1>1 DEF IInv, TypeOK, config, queues, offload, polling, counts, handles, Panic
  <1> QED
    BY <1>1, <1>2, FrameKeeps

LEMMA QuietKeeps ==
    ASSUME IInv, QuietStep
    PROVE  IInv' /\ UNCHANGED <<counts, handles, panicked>>
  <1> USE DEF config, queues, offload, polling, counts, handles
  <1>0. TypeOK
    BY DEF IInv
  <1>1. CASE WaitCqueue
    <2>1. TypeOK'
      BY <1>0, <1>1, SubmitTyped DEF TypeOK, WaitCqueue
    <2> QED
      BY <1>1, <2>1, FrameKeeps DEF WaitCqueue
  <1>2. CASE KernelConsumes
    <2>1. 1 \in 1 .. Len(sq)
      BY <1>0, <1>2 DEF TypeOK, KernelConsumes
    <2>2. TypeOK'
      BY <1>0, <1>2, <2>1, ConsumeTyped DEF TypeOK, KernelConsumes
    <2> QED
      BY <1>2, <2>2, FrameKeeps DEF KernelConsumes
  <1>3. CASE KernelSleeps
    <2>1. TypeOK'
      BY <1>0, <1>3 DEF TypeOK, KernelSleeps
    <2> QED
      BY <1>3, <2>1, FrameKeeps DEF KernelSleeps
  <1>4. CASE \E id \in Ids, res \in Result : KernelCompletes(id, res)
    <2> PICK id \in Ids, res \in Result : KernelCompletes(id, res)
      BY <1>4
    <2>1. cq' \in Seq([id : Ids, res : Result]) /\ Len(cq') = Len(cq) + 1
      BY <1>0 DEF TypeOK, KernelCompletes
    <2>2. left' \in 0 .. Len(cq')
      BY <1>0, <2>1 DEF TypeOK, KernelCompletes
    <2>3. TypeOK'
      BY <1>0, <2>1, <2>2 DEF TypeOK, KernelCompletes
    <2> QED
      BY <2>3, FrameKeeps DEF KernelCompletes
  <1>5. CASE ThreadSwaps \/ ThreadUnparks \/ ThreadEnterFails
    <2>1. TypeOK'
      BY <1>0, <1>5 DEF TypeOK, ThreadSwaps, ThreadUnparks, ThreadEnterFails
    <2> QED
      BY <1>5, <2>1, FrameKeeps DEF ThreadSwaps, ThreadUnparks, ThreadEnterFails
  <1>6. CASE ThreadEnters
    <2>1. TypeOK'
      BY <1>0, <1>6, ConsumeTyped DEF TypeOK, ThreadEnters
    <2> QED
      BY <1>6, <2>1, FrameKeeps DEF ThreadEnters
  <1>7. CASE Tick
    <2>1. MaxElapsed \in Nat
      BY UringAssumption DEF MaxElapsed
    <2>2. elapsed' \in 0 .. MaxElapsed
      BY <1>0, <1>7, <2>1 DEF TypeOK, Tick
    <2>3. TypeOK'
      BY <1>0, <1>7, <2>2 DEF TypeOK, Tick
    <2> QED
      BY <1>7, <2>3, FrameKeeps DEF Tick
  <1>8. CASE PollSubmits
    <2>1. MaxElapsed \in Nat
      BY UringAssumption DEF MaxElapsed
    <2>2. elapsed' \in 0 .. MaxElapsed
      BY <1>0, <1>8, <2>1 DEF TypeOK, PollSubmits
    <2>3. /\ sq' \in Seq(Ids) /\ Len(sq') <= queue_size /\ kernel' \subseteq Ids /\ cq' = cq
          /\ need_wakeup' \in BOOLEAN
      BY <1>0, <1>8, SubmitTyped DEF TypeOK, PollSubmits
    <2>4. flag' \in BOOLEAN /\ reactor' \in {"submitted", "signalled"}
      BY <1>0, <1>8 DEF TypeOK, PollSubmits
    <2>5. TypeOK'
      BY <1>0, <1>8, <2>2, <2>3, <2>4 DEF TypeOK, PollSubmits
    <2> QED
      BY <1>8, <2>5, FrameKeeps DEF PollSubmits
  <1>9. CASE Unpark \/ SeeCompletions \/ DrainEnd
    <2>1. Len(cq) \in 0 .. Len(cq)
      BY <1>0 DEF TypeOK
    <2>2. TypeOK'
      BY <1>0, <1>9, <2>1 DEF TypeOK, Unpark, SeeCompletions, DrainEnd
    <2> QED
      BY <1>9, <2>2, FrameKeeps DEF Unpark, SeeCompletions, DrainEnd
  <1> QED
    BY <1>1, <1>2, <1>3, <1>4, <1>5, <1>6, <1>7, <1>8, <1>9 DEF QuietStep

(* A future that is polled without a result is one the map still has: it   *)
(* was never woken.                                                        *)
LEMMA PollKeeps ==
    ASSUME IInv, NEW id \in Ids, Poll(id)
    PROVE  IInv'
  <1> USE DEF config, queues, offload, polling, counts
  <1>1. phase[id] \in {"held", "waiting", "woken"} /\ unpolled' = unpolled \ {id}
    BY DEF Poll
  <1>2. /\ result \in [Ids -> Result \cup {"none"}] /\ waker \in [Ids -> BOOLEAN]
        /\ phase \in [Ids -> Phase]
    BY DEF IInv, TypeOK
  <1>3. CASE result[id] \in Result
    <2>1. /\ result' = [result EXCEPT ![id] = "none"] /\ waker' = waker
          /\ phase' = [phase EXCEPT ![id] = "done"]
      BY <1>3 DEF Poll
    <2>2. TypeOK'
      BY <1>1, <1>2, <2>1 DEF Poll, IInv, TypeOK, Phase
    <2>3. \A i \in Ids : IF i = id THEN phase'[i] = "done"
                                   ELSE phase'[i] = phase[i] /\ result'[i] = result[i]
      BY <1>2, <2>1
    <2>4. NoLostCompletion'
      BY <2>1, <2>3 DEF Poll, IInv, NoLostCompletion
    <2> QED
      BY <2>2, <2>4 DEF Poll, IInv, Balanced
  <1>4. CASE result[id] \notin Result
    <2>1. /\ waker' = [waker EXCEPT ![id] = TRUE] /\ result' = result
          /\ phase' = [phase EXCEPT ![id] = "waiting"]
      BY <1>4 DEF Poll
    <2>2. TypeOK'
      BY <1>1, <1>2, <2>1 DEF Poll, IInv, TypeOK, Phase
    <2>3. id \in completions
      BY <1>1, <1>4 DEF IInv, NoLostCompletion
    <2>4. NoLostCompletion'
      <3> SUFFICES ASSUME NEW i \in Ids
                   PROVE  /\ phase'[i] = "waiting" => waker'[i] /\ i \in completions'
                          /\ phase'[i] = "held" => i \in completions' \/ result'[i] \in Result
                          /\ phase'[i] = "woken" => result'[i] \in Result
        BY DEF NoLostCompletion
      <3>1. CASE i = id
        BY <3>1, <1>2, <2>1, <2>3 DEF Poll
      <3>2. CASE i # id
        BY <3>2, <1>2, <2>1 DEF Poll, IInv, NoLostCompletion
      <3> QED
        BY <3>1, <3>2
    <2> QED
      BY <2>2, <2>4 DEF Poll, IInv, Balanced
  <1> QED
    BY <1>3, <1>4

LEMMA DropKeeps ==
    ASSUME IInv, NEW id \in Ids, Drop(id)
    PROVE  IInv'
  <1> USE DEF config, queues, offload, polling, counts
  <1>1. phase \in [Ids -> Phase] /\ phase' = [phase EXCEPT ![id] = "dropped"]
    BY DEF IInv, TypeOK, Drop
  <1>2. TypeOK'
    BY <1>1 DEF Drop, IInv, TypeOK, Phase
  <1>3. \A i \in Ids : IF i = id THEN phase'[i] = "dropped" ELSE phase'[i] = phase[i]
    BY <1>1
  <1>4. NoLostCompletion'
    BY <1>3 DEF Drop, IInv, NoLostCompletion
  <1> QED
    BY <1>2, <1>4 DEF Drop, IInv, Balanced

LEMMA TailTyped ==
    ASSUME NEW S, NEW s \in Seq(S), s # <<>>
    PROVE  /\ Head(s) = s[1] /\ Head(s) \in S
           /\ Tail(s) \in Seq(S) /\ Len(Tail(s)) = Len(s) - 1
           /\ \A i \in 1 .. Len(s) - 1 : Tail(s)[i] = s[i + 1]
  OBVIOUS

(* The CQE that the loop takes, and the ones it leaves.                    *)
LEMMA DrainTyped ==
    ASSUME TypeOK, DrainOne
    PROVE  /\ Len(cq) \in Nat \ {0} /\ cq # <<>>
           /\ Head(cq) = cq[1] /\ Head(cq).id \in Ids /\ Head(cq).res \in Result
           /\ cq' = Tail(cq) /\ cq' \in Seq([id : Ids, res : Result])
           /\ Len(cq') = Len(cq) - 1
           /\ \A i \in 1 .. Len(cq) - 1 : cq'[i] = cq[i + 1]
           /\ left' \in 0 .. Len(cq')
  <1>1. cq \in Seq([id : Ids, res : Result]) /\ left \in 0 .. Len(cq) /\ left > 0
    BY DEF TypeOK, DrainOne
  <1>2. Len(cq) \in Nat \ {0} /\ cq # <<>>
    BY <1>1
  <1>3. /\ Head(cq) = cq[1] /\ Head(cq) \in [id : Ids, res : Result]
        /\ Tail(cq) \in Seq([id : Ids, res : Result]) /\ Len(Tail(cq)) = Len(cq) - 1
        /\ \A i \in 1 .. Len(cq) - 1 : Tail(cq)[i] = cq[i + 1]
    BY <1>1, <1>2, TailTyped
  <1>4. cq' = Tail(cq) /\ left' = left - 1
    BY DEF DrainOne
  <1> QED
    BY <1>1, <1>2, <1>3, <1>4

(* A CQE leaves its result with the handle before its entry goes.          *)
LEMMA DrainKeeps ==
    ASSUME IInv, DrainOne
    PROVE  IInv'
  <1> USE DEF config, offload
  <1> DEFINE id == Head(cq).id
             res == Head(cq).res
  <1>0. TypeOK
    BY DEF IInv
  <1>1. id \in Ids /\ res \in Result
    BY <1>0, DrainTyped
  <1>2. cq' \in Seq([id : Ids, res : Result]) /\ left' \in 0 .. Len(cq')
    BY <1>0, DrainTyped
  <1>3. CASE id \notin completions
    <2>1. panicked' = "unknown" /\ UNCHANGED <<counts, handles>>
      BY <1>3 DEF DrainOne
    <2>2. TypeOK'
      BY <1>0, <1>2, <2>1 DEF TypeOK, DrainOne, counts, handles, Panic
    <2> QED
      BY <2>1, <2>2, FrameKeeps
  <1>4. CASE id \in completions
    <2>1. /\ completions' = completions \ {id}
          /\ completed_count' = completed_count + 1
          /\ result' = [result EXCEPT ![id] = res]
          /\ waker' = [waker EXCEPT ![id] = FALSE]
          /\ phase' = [phase EXCEPT ![id] = Woken(@)]
          /\ panicked' = IF waker[id] THEN "none" ELSE "no waker"
          /\ UNCHANGED <<user_data_counter, unpolled, receives>>
      BY <1>4 DEF DrainOne, Counted
    <2>2. /\ result \in [Ids -> Result \cup {"none"}] /\ waker \in [Ids -> BOOLEAN]
          /\ phase \in [Ids -> Phase]
      BY <1>0 DEF TypeOK
    <2>3. Cardinality(completions') = Cardinality(completions) - 1
      BY <1>4, <2>1, MapFinite, FS_RemoveElement
    <2>4. Cardinality(completions') \in Nat
      BY <2>1, MapFinite, FS_RemoveElement, FS_CardinalityType
    <2>5. completed_count \in Nat /\ user_data_counter \in Nat
      BY <1>0, UringAssumption DEF TypeOK
    <2>6. user_data_counter' = completed_count' + Cardinality(completions')
      <3>1. completed_count' = completed_count + 1 /\ user_data_counter' = user_data_counter
        BY <2>1
      <3>2. user_data_counter = completed_count + Cardinality(completions)
        BY DEF IInv, Balanced
      <3>3. Cardinality(completions) \in Nat
        BY MapFinite
      <3> QED
        BY <2>3, <2>4, <2>5, <3>1, <3>2, <3>3
    <2>7. completed_count' \in 0 .. user_data_counter'
      <3>1. completed_count' = completed_count + 1
        BY <2>1
      <3> QED
        BY <2>4, <2>5, <2>6, <3>1
    <2>8. Balanced'
      BY <2>1, <2>6 DEF IInv, Balanced
    <2>9. phase' \in [Ids -> Phase] /\ result' \in [Ids -> Result \cup {"none"}]
      BY <1>1, <2>1, <2>2 DEF Woken, Phase
    <2>10. waker' \in [Ids -> BOOLEAN] /\ panicked' \in Panic
      BY <1>1, <2>1, <2>2 DEF Panic
    <2>11. TypeOK'
      BY <1>0, <1>2, <2>1, <2>7, <2>9, <2>10 DEF TypeOK, DrainOne
    <2>12. NoLostCompletion'
      <3> SUFFICES ASSUME NEW i \in Ids
                   PROVE  /\ phase'[i] = "waiting" => waker'[i] /\ i \in completions'
                          /\ phase'[i] = "held" => i \in completions' \/ result'[i] \in Result
                          /\ phase'[i] = "woken" => result'[i] \in Result
        BY DEF NoLostCompletion
      <3>1. CASE i = id
        <4>1. result'[i] = res /\ phase'[i] = Woken(phase[id])
          BY <3>1, <1>1, <2>1, <2>2
        <4> QED
          BY <4>1, <1>1 DEF Woken
      <3>2. CASE i # id
        BY <3>2, <1>1, <2>1, <2>2 DEF IInv, NoLostCompletion
      <3> QED
        BY <3>1, <3>2
    <2> QED
      BY <2>8, <2>11, <2>12 DEF IInv
  <1> QED
    BY <1>3, <1>4

LEMMA NextIInv == IInv /\ [Next]_vars => IInv'
  <1> SUFFICES ASSUME IInv, [Next]_vars PROVE IInv'
    OBVIOUS
  <1>1. CASE UNCHANGED vars
    <2>1. TypeOK'
      BY <1>1 DEF IInv, TypeOK, vars, config, queues, offload, polling, counts, handles
    <2> QED
      BY <1>1, <2>1, FrameKeeps DEF vars
  <1>2. CASE FileOp
    BY <1>2, PushKeeps DEF FileOp
  <1>3. CASE \E recv \in BOOLEAN : UdpOp(recv)
    BY <1>3, PushKeeps DEF UdpOp
  <1>4. CASE \E id \in Ids : Poll(id) \/ Drop(id)
    BY <1>4, PollKeeps, DropKeeps
  <1>5. CASE DrainOne
    BY <1>5, DrainKeeps
  <1>6. CASE QuietStep
    BY <1>6, QuietKeeps
  <1>7. CASE SubmitFails
    BY <1>7, SubmitFailsKeeps
  <1> QED
    BY <1>1, <1>2, <1>3, <1>4, <1>5, <1>6, <1>7 DEF Next, QuietStep

LEMMA AlwaysIInv == Spec => []IInv
  BY InitIInv, NextIInv, PTL DEF Spec

(* The state keeps its types: the submission queue its size, completed     *)
(* operations their number, below the number of SQEs pushed.               *)
THEOREM TypeCorrect == Spec => []TypeOK
  <1>1. IInv => TypeOK
    BY DEF IInv
  <1> QED
    BY <1>1, AlwaysIInv, PTL

(* Whatever the clients, the kernel and the SubmitThread do, a full        *)
(* submission queue and panics included, WaitHandle::poll finds the result *)
(* of a future that was woken or never polled, and a future that returned  *)
(* Pending is in the map with its waker.                                   *)
THEOREM ResultsFound == Spec => []NoLostCompletion
  <1>1. IInv => NoLostCompletion
    BY DEF IInv
  <1> QED
    BY <1>1, AlwaysIInv, PTL

-----------------------------------------------------------------------------
(* Where the operations are.  A list without repetition has as many        *)
(* elements as entries.                                                    *)
LEMMA DistinctCount ==
    ASSUME NEW n \in Nat, NEW S, NEW f \in [1 .. n -> S],
           \A i, j \in 1 .. n : f[i] = f[j] => i = j,
           \A x \in S : \E i \in 1 .. n : f[i] = x
    PROVE  IsFiniteSet(S) /\ Cardinality(S) = n
  <1>1. f \in Bijection(1 .. n, S)
    BY DEF Bijection, Injection, Surjection, IsInjective
  <1>2. ExistsBijection(1 .. n, S)
    BY <1>1 DEF ExistsBijection
  <1>3. IsFiniteSet(1 .. n) /\ Cardinality(1 .. n) = n
    BY FS_Interval
  <1> QED
    BY <1>2, <1>3, FS_Bijection

LEMMA DisjointCount ==
    ASSUME NEW S, NEW T, IsFiniteSet(S), IsFiniteSet(T), S \cap T = {}
    PROVE  IsFiniteSet(S \cup T) /\ Cardinality(S \cup T) = Cardinality(S) + Cardinality(T)
  <1>1. Cardinality(S) \in Nat /\ Cardinality(T) \in Nat
    BY FS_CardinalityType
  <1>2. Cardinality(S \cap T) = 0
    BY FS_EmptySet
  <1>3. /\ IsFiniteSet(S \cup T)
        /\ Cardinality(S \cup T) = Cardinality(S) + Cardinality(T) - Cardinality(S \cap T)
    BY FS_Union
  <1> QED
    BY <1>1, <1>2, <1>3

(* The map has an entry for every SQE, operation and CQE there is.         *)
LEMMA PlacesCounted ==
    ASSUME IInv, Placed
    PROVE  /\ Cardinality(completions) = Len(sq) + Cardinality(kernel) + Len(cq)
           /\ Len(sq) <= Cardinality(completions)
  <1>1. sq \in Seq(Ids) /\ cq \in Seq([id : Ids, res : Result])
    BY DEF IInv, TypeOK
  <1>2. Len(sq) \in Nat /\ Len(cq) \in Nat
    BY <1>1
  <1>3. IsFiniteSet(QueuedIds) /\ Cardinality(QueuedIds) = Len(sq)
    <2> DEFINE f == [i \in 1 .. Len(sq) |-> sq[i]]
    <2>1. \A i, j \in 1 .. Len(sq) : f[i] = f[j] => i = j
      BY DEF Placed
    <2>2. f \in [1 .. Len(sq) -> QueuedIds] /\ \A x \in QueuedIds : \E i \in 1 .. Len(sq) : f[i] = x
      BY DEF QueuedIds
    <2> HIDE DEF f
    <2> QED
      BY <1>2, <2>1, <2>2, DistinctCount
  <1>4. IsFiniteSet(CompletedIds) /\ Cardinality(CompletedIds) = Len(cq)
    <2> DEFINE f == [i \in 1 .. Len(cq) |-> cq[i].id]
    <2>1. \A i, j \in 1 .. Len(cq) : f[i] = f[j] => i = j
      BY DEF Placed
    <2>2. f \in [1 .. Len(cq) -> CompletedIds] /\ \A x \in CompletedIds : \E i \in 1 .. Len(cq) : f[i] = x
      BY DEF CompletedIds
    <2> HIDE DEF f
    <2> QED
      BY <1>2, <2>1, <2>2, DistinctCount
  <1>5. IsFiniteSet(kernel) /\ Cardinality(kernel) \in Nat
    BY MapFinite, FS_Subset, FS_CardinalityType DEF Placed
  <1>6. /\ IsFiniteSet(QueuedIds \cup kernel)
        /\ Cardinality(QueuedIds \cup kernel) = Len(sq) + Cardinality(kernel)
    BY <1>3, <1>5, DisjointCount DEF Placed
  <1>7. (QueuedIds \cup kernel) \cap CompletedIds = {}
    BY DEF Placed
  <1>8. Cardinality((QueuedIds \cup kernel) \cup CompletedIds)
            = Cardinality(QueuedIds \cup kernel) + Cardinality(CompletedIds)
    BY <1>4, <1>6, <1>7, DisjointCount
  <1>9. completions = (QueuedIds \cup kernel) \cup CompletedIds
    BY DEF Placed
  <1> QED
    BY <1>2, <1>4, <1>5, <1>6, <1>8, <1>9

LEMMA PushPlaces ==
    ASSUME PInv, NEW p, NEW w \in BOOLEAN, NEW recv \in BOOLEAN, push_sqe(p, w, recv),
           Len(sq) # queue_size
    PROVE  Placed'
  <1> DEFINE id == user_data_counter
  <1>1. /\ sq' = Append(sq, id) /\ completions' = completions \cup {id}
        /\ UNCHANGED <<kernel, cq>>
    BY DEF push_sqe
  <1>2. id \notin completions /\ sq \in Seq(Ids) /\ id \in Ids
    BY MapFinite, UringAssumption DEF PInv, IInv, TypeOK, push_sqe, Ids
  <1>3. Len(sq) \in Nat /\ Len(sq') = Len(sq) + 1
    BY <1>1, <1>2
  <1>4. \A i \in 1 .. Len(sq) : sq'[i] = sq[i] /\ sq[i] # id
    <2>1. \A i \in 1 .. Len(sq) : sq[i] \in completions
      BY DEF PInv, Placed, QueuedIds
    <2> QED
      BY <1>1, <1>2, <2>1
  <1>5. sq'[Len(sq) + 1] = id
    BY <1>1, <1>2
  <1>6. QueuedIds' = QueuedIds \cup {id}
    BY <1>3, <1>4, <1>5 DEF QueuedIds
  <1>7. CompletedIds' = CompletedIds
    BY <1>1 DEF CompletedIds
  <1>8. \A i, j \in 1 .. Len(sq') : sq'[i] = sq'[j] => i = j
    <2> SUFFICES ASSUME NEW i \in 1 .. Len(sq'), NEW j \in 1 .. Len(sq'), sq'[i] = sq'[j]
                 PROVE  i = j
      OBVIOUS
    <2>1. i \in 1 .. Len(sq) \/ i = Len(sq) + 1
      BY <1>3
    <2>2. j \in 1 .. Len(sq) \/ j = Len(sq) + 1
      BY <1>3
    <2> QED
      BY <1>4, <1>5, <2>1, <2>2 DEF PInv, Placed
  <1> QED
    BY <1>1, <1>2, <1>6, <1>7, <1>8 DEF PInv, Placed

(* The first n SQEs move from the queue to the kernel.                     *)
LEMMA ConsumePlaces ==
    ASSUME PInv, NEW n \in 1 .. Len(sq), Consume(n), UNCHANGED completions
    PROVE  Placed'
  <1> DEFINE T == {sq[i] : i \in 1 .. n}
  <1>1. sq' = SubSeq(sq, n + 1, Len(sq)) /\ cq' = cq /\ kernel' = kernel \cup T
    BY DEF Consume
  <1>2. sq \in Seq(Ids)
    BY DEF PInv, IInv, TypeOK
  <1>3. /\ Len(sq) \in Nat /\ Len(sq') = Len(sq) - n
        /\ \A i \in 1 .. Len(sq) - n : sq'[i] = sq[n + i]
    BY <1>1, <1>2, SubSeqTyped
  <1>4. \A i, j \in 1 .. Len(sq) : sq[i] = sq[j] => i = j
    BY DEF PInv, Placed
  <1>5. QueuedIds' = {sq'[i] : i \in 1 .. Len(sq')}
    BY DEF QueuedIds
  <1>6. QueuedIds' \cap T = {}
    <2> SUFFICES ASSUME NEW i \in 1 .. Len(sq'), NEW j \in 1 .. n, sq'[i] = sq[j] PROVE FALSE
      BY <1>5
    <2>1. n + i \in 1 .. Len(sq) /\ j \in 1 .. Len(sq) /\ n + i # j /\ sq'[i] = sq[n + i]
      BY <1>3
    <2> QED
      BY <1>4, <2>1
  <1>7. QueuedIds' \cup T = QueuedIds
    <2>1. \A x \in QueuedIds' : x \in QueuedIds
      <3> SUFFICES ASSUME NEW i \in 1 .. Len(sq') PROVE sq'[i] \in QueuedIds
        BY <1>5
      <3>1. n + i \in 1 .. Len(sq) /\ sq'[i] = sq[n + i]
        BY <1>3
      <3> QED
        BY <3>1 DEF QueuedIds
    <2>2. \A x \in T : x \in QueuedIds
      BY <1>3 DEF QueuedIds
    <2>3. \A x \in QueuedIds : x \in QueuedIds' \cup T
      <3> SUFFICES ASSUME NEW i \in 1 .. Len(sq), i \notin 1 .. n PROVE sq[i] \in QueuedIds'
        BY DEF QueuedIds
      <3>1. i - n \in 1 .. Len(sq') /\ n + (i - n) = i
        BY <1>3
      <3> QED
        BY <1>3, <1>5, <3>1
    <2> QED
      BY <2>1, <2>2, <2>3
  <1>8. \A i, j \in 1 .. Len(sq') : sq'[i] = sq'[j] => i = j
    <2> SUFFICES ASSUME NEW i \in 1 .. Len(sq'), NEW j \in 1 .. Len(sq'), sq'[i] = sq'[j]
                 PROVE  i = j
      OBVIOUS
    <2>1. n + i \in 1 .. Len(sq) /\ n + j \in 1 .. Len(sq) /\ sq[n + i] = sq[n + j]
      BY <1>3
    <2>2. n + i = n + j
      BY <1>4, <2>1
    <2> QED
      BY <1>3, <2>2
  <1>9. CompletedIds' = CompletedIds
    BY <1>1 DEF CompletedIds
  <1> HIDE DEF T
  <1> QED
    BY <1>1, <1>6, <1>7, <1>8, <1>9 DEF PInv, Placed

LEMMA SamePlaces ==
    ASSUME PInv, UNCHANGED <<sq, kernel, cq, completions>>
    PROVE  Placed'
  <1>1. QueuedIds' = QueuedIds /\ CompletedIds' = CompletedIds
    BY DEF QueuedIds, CompletedIds
  <1> QED
    BY <1>1 DEF PInv, Placed

LEMMA SubmitPlaces ==
    ASSUME PInv, Submit, UNCHANGED completions
    PROVE  Placed'
  <1>1. CASE \E n \in 1 .. Len(sq) : Consume(n)
    BY <1>1, ConsumePlaces
  <1>2. CASE UNCHANGED <<sq, kernel, cq>>
    BY <1>2, SamePlaces
  <1> QED
    BY <1>1, <1>2 DEF Submit, queues

LEMMA CompletePlaces ==
    ASSUME PInv, NEW id \in Ids, NEW res \in Result, KernelCompletes(id, res)
    PROVE  Placed'
  <1>1. /\ id \in kernel /\ kernel' = kernel \ {id} /\ cq' = Append(cq, [id |-> id, res |-> res])
        /\ UNCHANGED <<sq, completions>>
    BY DEF KernelCompletes, counts
  <1>2. cq \in Seq([id : Ids, res : Result])
    BY DEF PInv, IInv, TypeOK
  <1>3. Len(cq) \in Nat /\ Len(cq') = Len(cq) + 1 /\ cq'[Len(cq) + 1].id = id
    BY <1>1, <1>2
  <1>4. \A i \in 1 .. Len(cq) : cq'[i] = cq[i]
    BY <1>1, <1>2
  <1>5. \A i \in 1 .. Len(cq) : cq[i].id # id
    BY <1>1 DEF PInv, Placed, CompletedIds
  <1>6. CompletedIds' = CompletedIds \cup {id}
    BY <1>3, <1>4 DEF CompletedIds
  <1>7. QueuedIds' = QueuedIds
    BY <1>1 DEF QueuedIds
  <1>8. \A i, j \in 1 .. Len(cq') : cq'[i].id = cq'[j].id => i = j
    <2> SUFFICES ASSUME NEW i \in 1 .. Len(cq'), NEW j \in 1 .. Len(cq'), cq'[i].id = cq'[j].id
                 PROVE  i = j
      OBVIOUS
    <2>1. i \in 1 .. Len(cq) \/ i = Len(cq) + 1
      BY <1>3
    <2>2. j \in 1 .. Len(cq) \/ j = Len(cq) + 1
      BY <1>3
    <2> QED
      BY <1>3, <1>4, <1>5, <2>1, <2>2 DEF PInv, Placed
  <1> QED
    BY <1>1, <1>6, <1>7, <1>8 DEF PInv, Placed

LEMMA DrainPlaces ==
    ASSUME PInv, DrainOne
    PROVE  Head(cq).id \in completions /\ Placed'
  <1> DEFINE id == Head(cq).id
  <1>1. /\ Len(cq) \in Nat \ {0} /\ Len(cq') = Len(cq) - 1 /\ Head(cq) = cq[1]
        /\ \A i \in 1 .. Len(cq) - 1 : cq'[i] = cq[i + 1]
    BY DrainTyped DEF PInv, IInv
  <1>2. id = cq[1].id /\ 1 \in 1 .. Len(cq)
    BY <1>1
  <1>3. id \in CompletedIds
    BY <1>2 DEF CompletedIds
  <1>4. id \in completions
    BY <1>3 DEF PInv, Placed
  <1>5. completions' = completions \ {id} /\ UNCHANGED <<sq, kernel>>
    BY <1>4 DEF DrainOne
  <1>6. \A i, j \in 1 .. Len(cq) : cq[i].id = cq[j].id => i = j
    BY DEF PInv, Placed
  <1>7. \A i \in 1 .. Len(cq') : i + 1 \in 1 .. Len(cq) /\ i + 1 # 1 /\ cq'[i].id = cq[i + 1].id
    BY <1>1
  <1>8. CompletedIds' = CompletedIds \ {id}
    <2>0. CompletedIds' = {cq'[i].id : i \in 1 .. Len(cq')}
      BY DEF CompletedIds
    <2>1. \A x \in CompletedIds' : x \in CompletedIds /\ x # id
      <3> SUFFICES ASSUME NEW i \in 1 .. Len(cq')
                   PROVE  cq'[i].id \in CompletedIds /\ cq'[i].id # id
        BY <2>0
      <3> QED
        BY <1>2, <1>6, <1>7 DEF CompletedIds
    <2>2. \A x \in CompletedIds : x # id => x \in CompletedIds'
      <3> SUFFICES ASSUME NEW i \in 1 .. Len(cq), cq[i].id # id
                   PROVE  cq[i].id \in CompletedIds'
        BY DEF CompletedIds
      <3>1. i - 1 \in 1 .. Len(cq') /\ (i - 1) + 1 = i
        BY <1>1, <1>2
      <3>2. cq'[i - 1].id = cq[i].id
        BY <1>7, <3>1
      <3> QED
        BY <2>0, <3>1, <3>2
    <2> QED
      BY <2>1, <2>2
  <1>9. QueuedIds' = QueuedIds
    BY <1>5 DEF QueuedIds
  <1>10. \A i, j \in 1 .. Len(cq') : cq'[i].id = cq'[j].id => i = j
    <2> SUFFICES ASSUME NEW i \in 1 .. Len(cq'), NEW j \in 1 .. Len(cq'), cq'[i].id = cq'[j].id
                 PROVE  i = j
      OBVIOUS
    <2>1. i + 1 = j + 1
      BY <1>6, <1>7
    <2> QED
      BY <2>1
  <1> HIDE DEF id
  <1>11. Placed'
    BY <1>3, <1>5, <1>8, <1>9, <1>10 DEF PInv, Placed
  <1> QED
    BY <1>4, <1>11 DEF id

-----------------------------------------------------------------------------
LEMMA InitPInv == Init => PInv
  <1> SUFFICES ASSUME Init PROVE PInv
    OBVIOUS
  <1>1. Placed
    BY DEF Init, Placed, QueuedIds, CompletedIds
  <1>2. Registered
    BY DEF Init, Registered, Result
  <1>3. OnlyUnpolledMissed
    BY DEF Init, OnlyUnpolledMissed
  <1> QED
    BY <1>1, <1>2, <1>3, InitIInv DEF PInv

(* push_sqe with room in the submission queue.                             *)
LEMMA PushPlaced ==
    ASSUME PInv, panicked = "none", NEW p \in {"held", "waiting"}, NEW w \in BOOLEAN,
           NEW recv \in BOOLEAN, push_sqe(p, w, recv), p = "waiting" => w, Len(sq) # queue_size
    PROVE  PInv'
  <1> DEFINE id == user_data_counter
  <1>1. IInv'
    BY PushKeeps DEF PInv
  <1>2. Placed'
    BY PushPlaces
  <1>3. /\ waker' = [waker EXCEPT ![id] = w]
        /\ unpolled' = IF p = "held" THEN unpolled \cup {id} ELSE unpolled
        /\ completions' = completions \cup {id} /\ user_data_counter' = id + 1
        /\ UNCHANGED <<result, panicked>>
    BY DEF push_sqe
  <1>4. id \in Ids /\ id \in Nat /\ waker \in [Ids -> BOOLEAN] /\ completions \subseteq Ids
    BY UringAssumption DEF PInv, IInv, TypeOK, push_sqe, Ids
  <1>5. \A i \in completions' : waker'[i] \/ i \in unpolled'
    <2> SUFFICES ASSUME NEW i \in completions' PROVE waker'[i] \/ i \in unpolled'
      OBVIOUS
    <2>1. CASE i = id
      BY <1>3, <1>4, <2>1
    <2>2. CASE i # id
      BY <1>3, <1>4, <2>2 DEF PInv, Registered
    <2> QED
      BY <2>1, <2>2
  <1>6. \A i \in Ids : result'[i] \in Result => i < user_data_counter' /\ i \notin completions'
    BY <1>3, <1>4, UringAssumption DEF PInv, Registered, Ids
  <1>7. OnlyUnpolledMissed'
    BY <1>3 DEF OnlyUnpolledMissed
  <1> QED
    BY <1>1, <1>2, <1>5, <1>6, <1>7 DEF PInv, Registered

LEMMA PollPlaced ==
    ASSUME PInv, NEW id \in Ids, Poll(id)
    PROVE  PInv'
  <1>1. IInv'
    BY PollKeeps DEF PInv
  <1>2. Placed' /\ UNCHANGED <<completions, user_data_counter, panicked>> /\ panicked = "none"
    BY SamePlaces DEF Poll, TaskRuns, Alive, queues, counts
  <1>3. /\ result \in [Ids -> Result \cup {"none"}] /\ waker \in [Ids -> BOOLEAN]
        /\ completions \subseteq Ids
    BY DEF PInv, IInv, TypeOK
  <1>4. unpolled' = unpolled \ {id}
    BY DEF Poll
  <1>5. CASE result[id] \in Result
    <2>1. result' = [result EXCEPT ![id] = "none"] /\ waker' = waker
      BY <1>5 DEF Poll
    <2>2. id \notin completions
      BY <1>5 DEF PInv, Registered
    <2>3. \A i \in Ids : result'[i] \in Result => result[i] \in Result
      BY <1>3, <2>1 DEF Result
    <2>4. Registered'
      BY <1>2, <1>4, <2>1, <2>2, <2>3 DEF PInv, Registered
    <2> QED
      BY <1>1, <1>2, <2>4 DEF PInv, OnlyUnpolledMissed
  <1>6. CASE result[id] \notin Result
    <2>1. waker' = [waker EXCEPT ![id] = TRUE] /\ result' = result
      BY <1>6 DEF Poll
    <2>2. \A i \in completions : waker'[i] \/ i \in unpolled'
      <3> SUFFICES ASSUME NEW i \in completions PROVE waker'[i] \/ i \in unpolled'
        OBVIOUS
      <3>1. CASE i = id
        BY <1>3, <2>1, <3>1
      <3>2. CASE i # id
        BY <1>3, <1>4, <2>1, <3>2 DEF PInv, Registered
      <3> QED
        BY <3>1, <3>2
    <2>3. Registered'
      BY <1>2, <2>1, <2>2 DEF PInv, Registered
    <2> QED
      BY <1>1, <1>2, <2>3 DEF PInv, OnlyUnpolledMissed
  <1> QED
    BY <1>5, <1>6

LEMMA DropPlaced ==
    ASSUME PInv, NEW id \in Ids, Drop(id)
    PROVE  PInv'
  <1>1. IInv'
    BY DropKeeps DEF PInv
  <1>2. Placed'
    BY SamePlaces DEF Drop, queues, counts
  <1>3. Registered' /\ OnlyUnpolledMissed'
    BY DEF Drop, PInv, Registered, OnlyUnpolledMissed, counts
  <1> QED
    BY <1>1, <1>2, <1>3 DEF PInv

(* The CQE's entry is in the map; its waker is missing only when the       *)
(* future was never polled.                                                *)
LEMMA DrainPlaced ==
    ASSUME PInv, DrainOne
    PROVE  PInv'
  <1> DEFINE id == Head(cq).id
             res == Head(cq).res
  <1>1. IInv'
    BY DrainKeeps DEF PInv
  <1>2. id \in completions /\ Placed'
    BY DrainPlaces
  <1>3. /\ completions' = completions \ {id}
        /\ result' = [result EXCEPT ![id] = res]
        /\ waker' = [waker EXCEPT ![id] = FALSE]
        /\ panicked' = IF waker[id] THEN "none" ELSE "no waker"
        /\ UNCHANGED <<user_data_counter, unpolled, receives>>
    BY <1>2 DEF DrainOne
  <1>4. /\ result \in [Ids -> Result \cup {"none"}] /\ waker \in [Ids -> BOOLEAN]
        /\ completions \subseteq Ids /\ user_data_counter \in Nat
    BY UringAssumption DEF PInv, IInv, TypeOK
  <1>5. id < user_data_counter /\ id \in Ids
    <2>1. id \in 0 .. user_data_counter - 1
      BY <1>2 DEF PInv, IInv, Balanced
    <2> HIDE DEF id
    <2> QED
      BY <1>2, <1>4, <2>1
  <1> HIDE DEF id, res
  <1>6. \A i \in completions' : waker'[i] \/ i \in unpolled'
    <2> SUFFICES ASSUME NEW i \in completions' PROVE waker'[i] \/ i \in unpolled'
      OBVIOUS
    <2>1. i # id /\ i \in completions /\ waker'[i] = waker[i]
      BY <1>3, <1>4
    <2> QED
      BY <1>3, <2>1 DEF PInv, Registered
  <1>7. \A i \in Ids : result'[i] \in Result => i < user_data_counter' /\ i \notin completions'
    <2> SUFFICES ASSUME NEW i \in Ids, result'[i] \in Result
                 PROVE  i < user_data_counter' /\ i \notin completions'
      OBVIOUS
    <2>1. CASE i = id
      BY <1>3, <1>5, <2>1
    <2>2. CASE i # id
      BY <1>3, <1>4, <2>2 DEF PInv, Registered
    <2> QED
      BY <2>1, <2>2
  <1>8. OnlyUnpolledMissed'
    <2>1. panicked' = "no waker" => id \in unpolled
      BY <1>2, <1>3 DEF PInv, Registered
    <2> QED
      BY <1>3, <2>1 DEF OnlyUnpolledMissed
  <1> QED
    BY <1>1, <1>2, <1>6, <1>7, <1>8 DEF PInv, Registered

LEMMA QuietPlaced ==
    ASSUME PInv, QuietStep
    PROVE  PInv'
  <1>1. IInv' /\ UNCHANGED <<counts, handles, panicked>>
    BY QuietKeeps DEF PInv
  <1>2. Registered' /\ OnlyUnpolledMissed' /\ UNCHANGED completions
    BY <1>1 DEF PInv, Registered, OnlyUnpolledMissed, counts, handles
  <1>3. CASE \E n \in 1 .. Len(sq) : Consume(n)
    BY <1>1, <1>2, <1>3, ConsumePlaces DEF PInv
  <1>4. CASE UNCHANGED <<sq, kernel, cq>>
    BY <1>1, <1>2, <1>4, SamePlaces DEF PInv
  <1>5. CASE Submit
    BY <1>1, <1>2, <1>5, SubmitPlaces DEF PInv
  <1>6. CASE \E id \in Ids, res \in Result : KernelCompletes(id, res)
    BY <1>1, <1>2, <1>6, CompletePlaces DEF PInv
  <1>7. KernelConsumes => \E n \in 1 .. Len(sq) : Consume(n)
    <2>1. sq # <<>> => 1 \in 1 .. Len(sq)
      BY DEF PInv, IInv, TypeOK
    <2> QED
      BY <2>1 DEF KernelConsumes
  <1> QED
    BY <1>3, <1>4, <1>5, <1>6, <1>7 DEF QuietStep, WaitCqueue, KernelSleeps, ThreadSwaps,
       ThreadUnparks, ThreadEnters, ThreadEnterFails, Tick, PollSubmits, Unpark, SeeCompletions,
       DrainEnd, queues

LEMMA SubmitFailsPlaced ==
    ASSUME PInv, SubmitFails
    PROVE  PInv'
  <1>1. IInv'
    BY SubmitFailsKeeps DEF PInv
  <1>2. Placed'
    BY SamePlaces DEF SubmitFails, queues, counts
  <1>3. Registered' /\ OnlyUnpolledMissed'
    BY DEF SubmitFails, PInv, Registered, OnlyUnpolledMissed, counts, handles
  <1> QED
    BY <1>1, <1>2, <1>3 DEF PInv

(* push_sqe with a full submission queue is the last thing the thread does.*)
LEMMA PushFull ==
    ASSUME PInv, panicked = "none", NEW p \in {"held", "waiting"}, NEW w \in BOOLEAN,
           NEW recv \in BOOLEAN, push_sqe(p, w, recv), p = "waiting" => w
    PROVE  FInv'
  <1>1. CASE Len(sq) = queue_size
    <2>1. panicked' = "full" /\ IInv'
      BY <1>1, PushKeeps DEF push_sqe, PInv
    <2> QED
      BY <2>1 DEF FInv
  <1>2. CASE Len(sq) # queue_size
    BY <1>2, PushPlaced DEF PInv, FInv
  <1> QED
    BY <1>1, <1>2

LEMMA FullStays == panicked = "full" /\ [Next]_vars => panicked' = "full"
  BY DEF Next, vars, FileOp, UdpOp, Poll, Drop, TaskRuns, Alive, WaitCqueue, SubmitFails, KernelCompletes,
         KernelConsumes, KernelSleeps, ThreadSwaps, ThreadUnparks, ThreadEnters,
         ThreadEnterFails, Tick, PollSubmits, Unpark, SeeCompletions, DrainOne, DrainEnd

LEMMA NextFInv == FInv /\ [Next]_vars => FInv'
  <1> SUFFICES ASSUME FInv, [Next]_vars PROVE FInv'
    OBVIOUS
  <1>1. CASE panicked = "full"
    BY <1>1, FullStays, NextIInv DEF FInv
  <1>2. CASE panicked # "full"
    <2> PInv
      BY <1>2 DEF FInv
    <2>1. CASE UNCHANGED vars
      <3>1. IInv'
        BY <2>1, NextIInv DEF PInv
      <3>2. Placed'
        BY <2>1, SamePlaces DEF vars, queues, counts
      <3>3. Registered' /\ OnlyUnpolledMissed'
        BY <2>1 DEF PInv, Registered, OnlyUnpolledMissed, vars, counts, handles
      <3> QED
        BY <3>1, <3>2, <3>3 DEF PInv, FInv
    <2>2. CASE FileOp \/ \E recv \in BOOLEAN : UdpOp(recv)
      BY <2>2, PushFull DEF FileOp, UdpOp, TaskRuns, Alive
    <2>3. CASE \E id \in Ids : Poll(id) \/ Drop(id)
      BY <2>3, PollPlaced, DropPlaced DEF PInv, FInv
    <2>4. CASE DrainOne
      BY <2>4, DrainPlaced DEF PInv, FInv
    <2>5. CASE QuietStep \/ SubmitFails
      BY <2>5, QuietPlaced, SubmitFailsPlaced DEF PInv, FInv
    <2> QED
      BY <2>1, <2>2, <2>3, <2>4, <2>5 DEF Next, QuietStep
  <1> QED
    BY <1>1, <1>2

LEMMA AlwaysFInv == Spec => []FInv
  <1>1. Init => FInv
    BY InitPInv DEF PInv, FInv
  <1> QED
    BY <1>1, NextFInv, PTL DEF Spec

(* has_pending_io, computed from two counters, counts the map's entries,   *)
(* also when push_sqe panics; and until it does these are the operations   *)
(* in the queues and the kernel, each in one place and once, for every way *)
(* of submitting, short and failed io_uring_enter calls, dropped futures   *)
(* and any number of operations outstanding.                               *)
THEOREM CountersExact == Spec => []OutstandingTracked
  <1>1. FInv => OutstandingTracked
    <2> SUFFICES ASSUME FInv PROVE OutstandingTracked
      OBVIOUS
    <2>1. user_data_counter = completed_count + Cardinality(completions)
      BY DEF FInv, IInv, Balanced
    <2>2. ASSUME panicked # "full"
          PROVE  /\ completions = QueuedIds \cup kernel \cup CompletedIds
                 /\ Cardinality(completions) = Len(sq) + Cardinality(kernel) + Len(cq)
      BY <2>2, PlacesCounted DEF FInv, PInv, Placed
    <2> QED
      BY <2>1, <2>2 DEF OutstandingTracked
  <1> QED
    BY <1>1, AlwaysFInv, PTL

(* The CQE loop never misses a map entry, and it misses a waker only for   *)
(* an operation whose future was never polled, however many operations     *)
(* clients keep outstanding and wherever else the thread panics.           *)
THEOREM OnlyUnpolledPanics == Spec => []OnlyUnpolledMissed
  <1>1. FInv => OnlyUnpolledMissed
    BY DEF FInv, PInv, OnlyUnpolledMissed
  <1> QED
    BY <1>1, AlwaysFInv, PTL
=============================================================================
