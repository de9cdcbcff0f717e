-------------------------- MODULE MpiReactorProofs --------------------------
(***************************************************************************)
(* For any number of tasks, futures and requests: the MPI reactor is one   *)
(* the executor can rely on (module Reactor), and its poll, which removes  *)
(* entries from the Vec it walks, skips none.                              *)
(***************************************************************************)
EXTENDS MpiReactor, SequenceTheorems, FiniteSetTheorems, TLAPS

Entries == [req : Futures, waker : Tasks]

(* The types; bounds on counter and index are in Listed and Walking.       *)
Shape ==
    /\ pending \in Seq(Entries)
    /\ active \in Nat
    /\ done \in [Futures -> BOOLEAN]
    /\ i \in Nat
    /\ complete \subseteq Futures
    /\ state \in [Futures -> {"unborn", "NotStarted", "InFlight", "Done", "dropped"}]
    /\ output \in [Futures -> {"none", "Ok", "Err"}]
    /\ owner \in [Futures -> Tasks \cup {None}]
    /\ woken \subseteq Tasks
    /\ running \in Tasks \cup {None}
    /\ topoll \subseteq Futures
    /\ moved \in [Futures -> {"no", "before", "after"}]
    /\ due \subseteq Futures

Started == {f \in Futures : state[f] \in {"InFlight", "Done", "dropped"}}

(* A request is in the Vec once, the counter is the length of the Vec, and *)
(* a future makes its request in its first poll only.                      *)
Listed ==
    /\ \A j, k \in 1 .. Len(pending) : pending[j].req = pending[k].req => j = k
    /\ \A k \in 1 .. Len(pending) : pending[k].req \in Started
    /\ active = Len(pending)
    /\ Len(pending) <= Cardinality(Started)

(* poll's loop is not interrupted by tasks; what MPI had finished when it  *)
(* began, and is still in the Vec, lies at the index or behind it.         *)
Walking ==
    /\ i <= Len(pending) + 1
    /\ i > 0 => running = None
    /\ running = None => topoll = {}
    /\ i > 0 => \A k \in 1 .. Len(pending) :
                    pending[k].req \in due => k >= i /\ pending[k].req \in complete

IInv == Shape /\ Listed /\ Walking

-----------------------------------------------------------------------------
LEMMA CountUp ==
    ASSUME NEW c \in Nat, NEW m \in Nat, c + 1 < m
    PROVE  (c + 1) % m = c + 1
  BY SMT

LEMMA CountDown ==
    ASSUME NEW c \in Nat \ {0}, NEW m \in Nat, c < m
    PROVE  (c + m - 1) % m = c - 1
  <1>1. c + m - 1 = (c - 1) + m /\ c - 1 \in 0 .. m - 1
    OBVIOUS
  <1> QED
    BY <1>1, SMT

LEMMA BelowLast == \A n \in Nat : \A j \in 1 .. n : j # n => j \in 1 .. n - 1
  OBVIOUS

(* swap_remove shortens the Vec by one entry and moves the last one.       *)
LEMMA SwapRemove ==
    ASSUME NEW S, NEW s \in Seq(S), NEW k \in 1 .. Len(s)
    PROVE  /\ swap_remove(s, k) \in Seq(S)
           /\ Len(swap_remove(s, k)) = Len(s) - 1
           /\ \A j \in 1 .. Len(s) - 1 : swap_remove(s, k)[j] = IF j = k THEN s[Len(s)] ELSE s[j]
  <1> DEFINE n == Len(s) - 1
             t == swap_remove(s, k)
  <1>1. Len(s) \in Nat \ {0} /\ n \in Nat /\ n + 1 = Len(s) /\ s \in [1 .. Len(s) -> S]
    BY LenProperties
  <1>2. \A j \in 1 .. n : j \in 1 .. Len(s)
    BY <1>1
  <1>3. Len(s) \in 1 .. Len(s)
    BY <1>1
  <1>4. t = [j \in 1 .. n |-> IF j = k THEN s[Len(s)] ELSE s[j]]
    BY DEF swap_remove
  <1> HIDE DEF n, t
  <1>5. t \in [1 .. n -> S]
    BY <1>1, <1>2, <1>3, <1>4
  <1>6. t \in Seq(S)
    BY <1>1, <1>5, SeqDef
  <1>7. 1 .. n = 1 .. Len(t) /\ Len(t) \in Nat
    BY <1>5, <1>6, LenProperties
  <1>8. Len(t) = n
    BY <1>1, <1>7
  <1> QED
    BY <1>4, <1>6, <1>8 DEF n, t

LEMMA StartedSize ==
    /\ IsFiniteSet(Started) /\ Cardinality(Started) \in Nat
    /\ Cardinality(Started) <= MaxFutures /\ MaxFutures \in Nat /\ MaxFutures < Word /\ Word \in Nat
    /\ IsFiniteSet(Futures) /\ Cardinality(Futures) = MaxFutures
  <1>1. MaxFutures \in Nat /\ Word \in Nat /\ MaxFutures < Word
    BY MpiAssumption
  <1>2. IsFiniteSet(Futures) /\ Cardinality(Futures) = MaxFutures
    BY <1>1, FS_Interval DEF Futures
  <1>3. Started \subseteq Futures
    BY DEF Started
  <1> QED
    BY <1>1, <1>2, <1>3, FS_Subset, FS_CardinalityType

(* What follows for entries of the Vec.                                    *)
LEMMA EntryTypes ==
    ASSUME Shape
    PROVE  /\ Len(pending) \in Nat /\ DOMAIN pending = 1 .. Len(pending)
           /\ \A k \in 1 .. Len(pending) : /\ pending[k] \in Entries
                                           /\ pending[k].req \in Futures
                                           /\ pending[k].waker \in Tasks
  <1>1. pending \in Seq(Entries)
    BY DEF Shape
  <1>2. /\ Len(pending) \in Nat /\ DOMAIN pending = 1 .. Len(pending)
        /\ \A k \in 1 .. Len(pending) : pending[k] \in Entries
    BY <1>1, LenProperties, ElementOfSeq
  <1> QED
    BY <1>2 DEF Entries

LEMMA RegisteredIs ==
    ASSUME Shape
    PROVE  \A f : f \in Registered <=> \E k \in 1 .. Len(pending) : pending[k].req = f
  BY EntryTypes DEF Registered

(* A step that leaves the Vec and the loop alone, and starts nothing.      *)
LEMMA QuietKeeps ==
    ASSUME IInv, Shape', UNCHANGED <<pending, active, i, due>>, complete \subseteq complete',
           Started \subseteq Started', i > 0 => running' = None,
           running' = None => topoll' = {}
    PROVE  IInv'
  <1>1. Shape /\ Listed /\ Walking
    BY DEF IInv
  <1>2. Started \in SUBSET (Started') /\ Started' \subseteq Futures
    BY DEF Started
  <1>3. IsFiniteSet(Started')
    BY <1>2, StartedSize, FS_Subset
  <1>4. Cardinality(Started) <= Cardinality(Started') /\ Cardinality(Started') \in Nat
    BY <1>2, <1>3, FS_Subset, FS_CardinalityType
  <1>5. Listed'
    BY <1>1, <1>2, <1>4, StartedSize, EntryTypes DEF Listed
  <1>6. Walking'
    BY <1>1 DEF Walking
  <1> QED
    BY <1>5, <1>6 DEF IInv

LEMMA InitIInv == Init => IInv
  <1> SUFFICES ASSUME Init PROVE IInv
    OBVIOUS
  <1>1. pending \in Seq(Entries) /\ Len(pending) = 0
    BY EmptySeq DEF Init
  <1>2. Shape
    BY <1>1 DEF Init, Shape
  <1>3. Listed
    BY <1>1, StartedSize DEF Init, Listed
  <1>4. Walking
    BY <1>1 DEF Init, Walking
  <1> QED
    BY <1>2, <1>3, <1>4 DEF IInv

LEMMA StartPollKeeps ==
    ASSUME IInv, StartPoll
    PROVE  IInv'
  <1>1. Shape /\ Listed /\ Walking
    BY DEF IInv
  <1>2. /\ running = None /\ i' = 1 /\ due' = complete \cap Registered
        /\ UNCHANGED <<pending, active, done, complete, state, output, owner, woken, running, topoll, moved>>
    BY DEF StartPoll
  <1>3. Shape'
    BY <1>1, <1>2 DEF Shape
  <1>4. Listed'
    BY <1>1, <1>2 DEF Listed, Started
  <1>5. Walking'
    <2>1. Len(pending) \in Nat
      BY <1>1, EntryTypes
    <2>2. \A k \in 1 .. Len(pending) : k >= 1
      BY <2>1
    <2> QED
      BY <1>1, <1>2, <2>1, <2>2 DEF Walking
  <1> QED
    BY <1>3, <1>4, <1>5 DEF IInv

(* The request at the index is not finished: it was not when poll began    *)
(* either.                                                                 *)
LEMMA AdvanceKeeps ==
    ASSUME IInv, Test, pending[i].req \notin complete
    PROVE  IInv'
  <1>1. Shape /\ Listed /\ Walking
    BY DEF IInv
  <1>2. /\ i > 0 /\ i <= Len(pending) /\ i' = i + 1
        /\ UNCHANGED <<pending, done, complete, woken, active, state, output, owner, running, topoll, moved, due>>
    BY DEF Test, Advance
  <1>3. Shape'
    BY <1>1, <1>2 DEF Shape
  <1>4. Listed'
    BY <1>1, <1>2 DEF Listed, Started
  <1>5. Walking'
    <2>1. Len(pending) \in Nat /\ i \in Nat
      BY <1>1, EntryTypes DEF Shape
    <2>2. \A k \in 1 .. Len(pending) : k >= i /\ k # i => k >= i + 1
      BY <2>1
    <2> QED
      BY <1>1, <1>2, <2>1, <2>2 DEF Walking
  <1> QED
    BY <1>3, <1>4, <1>5 DEF IInv

(* The request at the index is finished: the last entry takes its place,   *)
(* and the index stays.                                                    *)
LEMMA RemoveKeeps ==
    ASSUME IInv, Test, pending[i].req \in complete
    PROVE  IInv'
  <1>1. Shape /\ Listed /\ Walking
    BY DEF IInv
  <1> DEFINE entry == pending[i]
  <1>2. /\ i > 0 /\ i <= Len(pending) /\ i' = i
        /\ pending' = swap_remove(pending, i)
        /\ done' = [done EXCEPT ![entry.req] = state[entry.req] = "InFlight"]
        /\ complete' = complete \ {entry.req}
        /\ woken' = woken \cup {entry.waker}
        /\ active' = Uncounted(active)
        /\ UNCHANGED <<state, output, owner, running, topoll, moved, due>>
    BY DEF Test, Advance
  <1>3. Len(pending) \in Nat \ {0} /\ i \in 1 .. Len(pending) /\ i \in Nat
    BY <1>1, <1>2, EntryTypes DEF Shape
  <1>4. /\ pending' \in Seq(Entries) /\ Len(pending') = Len(pending) - 1
        /\ \A j \in 1 .. Len(pending) - 1 :
               pending'[j] = IF j = i THEN pending[Len(pending)] ELSE pending[j]
    BY <1>1, <1>2, <1>3, SwapRemove DEF Shape
  <1>5. entry.req \in Futures /\ entry.waker \in Tasks
    BY <1>1, <1>3, EntryTypes
  <1>6. active' = Len(pending) - 1
    <2>1. active = Len(pending) /\ active < Word
      BY <1>1, <1>3, StartedSize DEF Listed
    <2>2. (active + Word - 1) % Word = active - 1
      BY <1>3, <2>1, StartedSize, CountDown
    <2> QED
      BY <1>2, <2>1, <2>2 DEF Uncounted
  <1> HIDE DEF entry
  <1>7. Shape'
    BY <1>1, <1>2, <1>3, <1>4, <1>5, <1>6 DEF Shape
  <1>8. \A j \in 1 .. Len(pending) - 1 :
            /\ j \in 1 .. Len(pending) /\ j # Len(pending) /\ Len(pending) \in 1 .. Len(pending)
            /\ pending'[j] = IF j = i THEN pending[Len(pending)] ELSE pending[j]
    BY <1>3, <1>4
  <1>9. Listed'
    <2>1. \A j, k \in 1 .. Len(pending) - 1 : pending'[j].req = pending'[k].req => j = k
      BY <1>1, <1>8 DEF Listed
    <2>2. \A k \in 1 .. Len(pending) - 1 : pending'[k].req \in Started
      BY <1>1, <1>8 DEF Listed
    <2>3. Started' = Started
      BY <1>2 DEF Started
    <2>4. Len(pending) - 1 <= Cardinality(Started)
      BY <1>1, <1>3, StartedSize DEF Listed
    <2> QED
      BY <1>4, <1>6, <2>1, <2>2, <2>3, <2>4 DEF Listed
  <1>10. Walking'
    <2>1. \A k \in 1 .. Len(pending) - 1 : pending'[k].req # entry.req
      BY <1>1, <1>3, <1>8 DEF Listed, entry
    <2>2. \A k \in 1 .. Len(pending) - 1 : pending'[k].req \in due => k >= i /\ pending'[k].req \in complete
      <3> SUFFICES ASSUME NEW k \in 1 .. Len(pending) - 1, pending'[k].req \in due
                   PROVE  k >= i /\ pending'[k].req \in complete
        OBVIOUS
      <3>1. CASE k = i
        BY <1>1, <1>2, <1>3, <1>8, <3>1 DEF Walking
      <3>2. CASE k # i
        BY <1>1, <1>2, <1>3, <1>8, <3>2 DEF Walking
      <3> QED
        BY <3>1, <3>2
    <2>3. i <= (Len(pending) - 1) + 1
      BY <1>3
    <2> QED
      BY <1>1, <1>2, <1>4, <2>1, <2>2, <2>3 DEF Walking
  <1> QED
    BY <1>7, <1>9, <1>10 DEF IInv

LEMMA EndPollKeeps ==
    ASSUME IInv, EndPoll
    PROVE  IInv'
  <1>1. Shape /\ Listed /\ Walking
    BY DEF IInv
  <1>2. /\ i' = 0 /\ due' = {}
        /\ UNCHANGED <<pending, active, done, complete, state, output, owner, woken, running, topoll, moved>>
    BY DEF EndPoll
  <1>3. Shape'
    BY <1>1, <1>2 DEF Shape
  <1>4. Listed'
    BY <1>1, <1>2 DEF Listed, Started
  <1>5. Walking'
    BY <1>1, <1>2, EntryTypes DEF Walking
  <1> QED
    BY <1>3, <1>4, <1>5 DEF IInv

(* The first poll of a future adds its request at the end.                 *)
LEMMA PollNotStartedKeeps ==
    ASSUME IInv, NEW f \in Futures, PollNotStarted(f)
    PROVE  IInv'
  <1>1. Shape /\ Listed /\ Walking
    BY DEF IInv
  <1>2. /\ f \in topoll /\ state[f] = "NotStarted" /\ topoll' = topoll \ {f}
        /\ pending' = Append(pending, [req |-> f, waker |-> running])
        /\ active' = (active + 1) % Word
        /\ state' = [state EXCEPT ![f] = "InFlight"]
        /\ UNCHANGED <<done, i, due, complete, output, owner, woken, running, moved>>
    BY DEF PollNotStarted, NextToPoll, register
  <1>3. running # None /\ running \in Tasks /\ i = 0
    BY <1>1, <1>2 DEF Walking, Shape
  <1> DEFINE e == [req |-> f, waker |-> running]
  <1>4. e \in Entries /\ e.req = f
    BY <1>3 DEF Entries
  <1>5. /\ pending' \in Seq(Entries) /\ Len(pending') = Len(pending) + 1 /\ Len(pending) \in Nat
        /\ \A k \in 1 .. Len(pending) : pending'[k] = pending[k]
        /\ pending'[Len(pending) + 1] = e
    <2> HIDE DEF e
    <2>1. pending \in Seq(Entries) /\ pending' = Append(pending, e)
      BY <1>1, <1>2 DEF Shape, e
    <2> QED
      BY <1>4, <2>1
  <1> HIDE DEF e
  <1>6. Started' = Started \cup {f} /\ f \notin Started
    BY <1>1, <1>2 DEF Started, Shape
  <1>7. Cardinality(Started') = Cardinality(Started) + 1
    BY <1>6, StartedSize, FS_AddElement
  <1>8. Cardinality(Started') <= MaxFutures
    <2>1. Started' \subseteq Futures
      BY DEF Started
    <2> QED
      BY <2>1, StartedSize, FS_Subset
  <1>9. active' = Len(pending) + 1
    <2>1. active = Len(pending) /\ active + 1 < Word
      BY <1>1, <1>5, <1>7, <1>8, StartedSize DEF Listed
    <2> QED
      BY <1>2, <1>5, <2>1, StartedSize, CountUp
  <1>10. Shape'
    BY <1>1, <1>2, <1>5, <1>9 DEF Shape
  <1>11. \A k \in 1 .. Len(pending) + 1 : k \in 1 .. Len(pending) \/ k = Len(pending) + 1
    BY <1>5
  <1>12. Listed'
    <2>1. \A k \in 1 .. Len(pending) : pending[k].req # f
      BY <1>1, <1>6 DEF Listed
    <2>2. \A j, k \in 1 .. Len(pending) + 1 : pending'[j].req = pending'[k].req => j = k
      BY <1>1, <1>4, <1>5, <1>11, <2>1 DEF Listed
    <2>3. \A k \in 1 .. Len(pending) + 1 : pending'[k].req \in Started'
      BY <1>1, <1>4, <1>5, <1>6, <1>11 DEF Listed
    <2>4. Len(pending) + 1 <= Cardinality(Started')
      BY <1>1, <1>5, <1>7, StartedSize DEF Listed
    <2> QED
      BY <1>5, <1>9, <2>2, <2>3, <2>4 DEF Listed
  <1>13. Walking'
    BY <1>2, <1>3, <1>5 DEF Walking
  <1> QED
    BY <1>10, <1>12, <1>13 DEF IInv

(* The executor's steps do not touch the Vec.                              *)
LEMMA SuspendKeeps ==
    ASSUME IInv, Suspend
    PROVE  IInv'
  <1>1. Shape'
    BY DEF IInv, Shape, Suspend, reactor
  <1> QED
    BY <1>1, QuietKeeps DEF IInv, Suspend, reactor, Started

LEMMA ScheduleKeeps ==
    ASSUME IInv, NEW t \in Tasks, RunTask(t) \/ WakeOtherwise(t)
    PROVE  IInv'
  <1>1. Shape /\ Listed /\ Walking
    BY DEF IInv
  <1>2. CASE RunTask(t)
    <2>1. Shape'
      BY <1>1, <1>2 DEF Shape, RunTask, reactor
    <2>2. running' # None /\ i = 0
      BY <1>2, MpiAssumption DEF RunTask
    <2> QED
      BY <1>1, <1>2, <2>1, <2>2, QuietKeeps DEF RunTask, reactor, Started
  <1>3. CASE WakeOtherwise(t)
    <2>1. Shape'
      BY <1>1, <1>3 DEF Shape, WakeOtherwise, reactor
    <2> QED
      BY <1>1, <1>3, <2>1, QuietKeeps DEF WakeOtherwise, reactor, Started, Walking
  <1> QED
    BY <1>2, <1>3

(* Nor do MPI and the futures, the first poll of a future excepted.        *)
LEMMA FuturesKeep ==
    ASSUME IInv, NEW f \in Futures,
           MpiCompletes(f) \/ New(f) \/ PollRefused(f) \/ PollInFlight(f) \/ Drop(f)
    PROVE  IInv'
  <1>1. Shape /\ Listed /\ Walking
    BY DEF IInv
  <1>2. CASE MpiCompletes(f)
    <2>1. Shape'
      BY <1>1, <1>2 DEF Shape, MpiCompletes, reactor
    <2> QED
      BY <1>1, <1>2, <2>1, QuietKeeps DEF MpiCompletes, reactor, Started, Walking
  <1>3. CASE New(f)
    <2>1. running \in Tasks /\ running # None /\ i = 0
      BY <1>1, <1>3, MpiAssumption DEF New, Walking, Shape
    <2>2. Shape'
      BY <1>1, <1>3, <2>1 DEF Shape, New, reactor
    <2>3. Started \subseteq Started'
      BY <1>1, <1>3 DEF Started, New, Shape
    <2> QED
      BY <1>1, <1>3, <2>1, <2>2, <2>3, QuietKeeps DEF New, reactor
  <1>4. CASE PollRefused(f)
    <2>1. Shape'
      BY <1>1, <1>4 DEF Shape, PollRefused, reactor
    <2> QED
      BY <1>1, <1>4, <2>1, QuietKeeps DEF PollRefused, reactor, Started, Walking
  <1>5. CASE PollInFlight(f)
    <2>1. Shape'
      BY <1>1, <1>5 DEF Shape, PollInFlight, reactor
    <2>2. Started \subseteq Started'
      BY <1>1, <1>5 DEF Started, PollInFlight, Shape
    <2> QED
      BY <1>1, <1>5, <2>1, <2>2, QuietKeeps DEF PollInFlight, reactor, Walking
  <1>6. CASE Drop(f)
    <2>1. Shape'
      BY <1>1, <1>6 DEF Shape, Drop, reactor
    <2>2. Started \subseteq Started'
      BY <1>1, <1>6 DEF Started, Drop, Shape
    <2> QED
      BY <1>1, <1>6, <2>1, <2>2, QuietKeeps DEF Drop, Walking
  <1> QED
    BY <1>2, <1>3, <1>4, <1>5, <1>6

LEMMA MoveKeeps ==
    ASSUME IInv, NEW f \in Futures, NEW t \in Tasks, Move(f, t)
    PROVE  IInv'
  <1>1. Shape'
    BY DEF IInv, Shape, Move, reactor
  <1> QED
    BY <1>1, QuietKeeps DEF IInv, Move, reactor, Started, Walking

LEMMA NextIInv == IInv /\ [Next]_vars => IInv'
  <1> SUFFICES ASSUME IInv, [Next]_vars PROVE IInv'
    OBVIOUS
  <1>1. CASE UNCHANGED vars
    BY <1>1 DEF vars, IInv, Shape, Listed, Walking, Started
  <1>2. CASE StartPoll
    BY <1>2, StartPollKeeps
  <1>3. CASE Test
    BY <1>3, AdvanceKeeps, RemoveKeeps
  <1>4. CASE EndPoll
    BY <1>4, EndPollKeeps
  <1>5. CASE \E f \in Futures : PollNotStarted(f)
    BY <1>5, PollNotStartedKeeps
  <1>6. CASE Suspend
    BY <1>6, SuspendKeeps
  <1>7. CASE \E t \in Tasks : RunTask(t) \/ WakeOtherwise(t)
    BY <1>7, ScheduleKeeps
  <1>8. CASE \E f \in Futures : MpiCompletes(f) \/ New(f) \/ PollRefused(f) \/ PollInFlight(f) \/ Drop(f)
    BY <1>8, FuturesKeep
  <1>9. CASE \E f \in Futures, t \in Tasks : Move(f, t)
    BY <1>9, MoveKeeps
  <1> QED
    BY <1>1, <1>2, <1>3, <1>4, <1>5, <1>6, <1>7, <1>8, <1>9 DEF Next

LEMMA AlwaysIInv == Spec => []IInv
  BY InitIInv, NextIInv, PTL DEF Spec

(* The state keeps its types; counter and index stay within the number of  *)
(* futures.                                                                *)
THEOREM TypeCorrect == Spec => []TypeOK
  <1>1. IInv => TypeOK
    <2> SUFFICES ASSUME IInv PROVE TypeOK
      OBVIOUS
    <2>1. active \in 0 .. MaxFutures /\ i \in 0 .. MaxFutures + 1
      BY EntryTypes, StartedSize DEF IInv, Shape, Listed, Walking
    <2> QED
      BY <2>1 DEF IInv, Shape, TypeOK, Entries
  <1> QED
    BY <1>1, AlwaysIInv, PTL

(* One poll reports every request that MPI had finished when it began, for *)
(* any length of the Vec and any order of removals.                        *)
THEOREM PollSkipsNone == Spec => NoneSkipped
  <1>1. IInv /\ [Next]_vars => [i > 0 /\ i' = 0 => due \cap Registered = {}]_vars
    <2> SUFFICES ASSUME IInv, Next, i > 0, i' = 0
                 PROVE  due \cap Registered = {}
      OBVIOUS
    <2>1. Shape /\ Walking /\ i \in Nat
      BY DEF IInv, Shape
    <2>2. running = None /\ topoll = {}
      BY <2>1 DEF Walking
    <2>3. EndPoll
      <3>1. ~Test
        BY <2>1 DEF Test
      <3>2. ~StartPoll
        BY DEF StartPoll
      <3>3. \A f \in Futures : ~PollNotStarted(f)
        BY <2>2 DEF PollNotStarted, NextToPoll
      <3>4. i' # i
        BY <2>1
      <3>5. \A f \in Futures : ~MpiCompletes(f) /\ ~New(f) /\ ~PollRefused(f) /\ ~PollInFlight(f) /\ ~Drop(f)
        BY <3>4 DEF MpiCompletes, New, PollRefused, PollInFlight, Drop, reactor
      <3>6. ~Suspend /\ \A t \in Tasks : ~RunTask(t) /\ ~WakeOtherwise(t) /\ \A f \in Futures : ~Move(f, t)
        BY <3>4 DEF Suspend, RunTask, WakeOtherwise, Move, reactor
      <3> QED
        BY <3>1, <3>2, <3>3, <3>5, <3>6 DEF Next
    <2>4. i > Len(pending)
      BY <2>3 DEF EndPoll
    <2>5. \A k \in 1 .. Len(pending) : pending[k].req \notin due
      <3>1. \A k \in 1 .. Len(pending) : ~(k >= i)
        BY <2>1, <2>4, EntryTypes
      <3> QED
        BY <2>1, <3>1 DEF Walking
    <2> QED
      BY <2>1, <2>5, RegisteredIs
  <1> QED
    BY <1>1, AlwaysIInv, PTL DEF Spec, NoneSkipped

-----------------------------------------------------------------------------
(* The refinement of Reactor.  What the mapping makes of the state:        *)
Outstanding == {[op |-> pending[k].req, task |-> pending[k].waker] : k \in DOMAIN pending}
Held == {f \in Futures : state[f] \in {"InFlight", "Done"}}
Says == IF Running THEN "Running" ELSE "Stopped"

(* status() says Running exactly while the Vec has an entry.               *)
StatusRight == Says = Contract!StatusFor(Outstanding)

LEMMA StatusIsRight == IInv => StatusRight
  <1> SUFFICES ASSUME IInv PROVE StatusRight
    OBVIOUS
  <1>1. Len(pending) \in Nat /\ DOMAIN pending = 1 .. Len(pending) /\ active = Len(pending)
    BY EntryTypes DEF IInv, Listed
  <1>2. Outstanding = {} <=> Len(pending) = 0
    <2>1. CASE Len(pending) = 0
      BY <1>1, <2>1 DEF Outstanding
    <2>2. CASE Len(pending) # 0
      <3>1. 1 \in 1 .. Len(pending)
        BY <1>1, <2>2
      <3> QED
        BY <1>1, <2>2, <3>1 DEF Outstanding
    <2> QED
      BY <2>1, <2>2
  <1> QED
    BY <1>1, <1>2 DEF StatusRight, Says, Running, Contract!StatusFor

(* A step that changes neither Vec nor the futures with a request.         *)
LEMMA QuietRefines ==
    ASSUME StatusRight', pending' = pending, Held' = Held, woken' \subseteq Tasks
    PROVE  Contract!Next
  <1>1. Contract!Schedule
    BY DEF Contract!Schedule, Held
  <1> QED
    BY <1>1 DEF Contract!Next, StatusRight, Says, Outstanding

(* A completed request leaves the Vec, and its task is woken.              *)
LEMMA TestRefines ==
    ASSUME IInv, IInv', StatusRight', Test
    PROVE  Contract!Next
  <1>1. Shape /\ Listed /\ i > 0 /\ i <= Len(pending) /\ state' = state
    BY DEF IInv, Test
  <1>2. Len(pending) \in Nat \ {0} /\ i \in 1 .. Len(pending) /\ DOMAIN pending = 1 .. Len(pending)
    BY <1>1, EntryTypes DEF Shape
  <1>3. Held' = Held /\ \A j \in 1 .. Len(pending) : j # Len(pending) => j \in 1 .. Len(pending) - 1
    <2>1. \A j \in 1 .. Len(pending) : j # Len(pending) => j \in 1 .. Len(pending) - 1
      BY <1>2, BelowLast
    <2> QED
      BY <1>1, <2>1 DEF Held
  <1>4. CASE pending[i].req \notin complete
    <2>1. pending' = pending /\ woken' = woken /\ woken \subseteq Tasks
      BY <1>1, <1>4 DEF Test, Shape
    <2> QED
      BY <1>3, <2>1, QuietRefines
  <1>5. CASE pending[i].req \in complete
    <2> DEFINE n == Len(pending)
               E(k) == [op |-> pending[k].req, task |-> pending[k].waker]
               d == E(i)
    <2>1. pending' = swap_remove(pending, i) /\ woken' = woken \cup {pending[i].waker}
      BY <1>5 DEF Test
    <2>2. /\ pending' \in Seq(Entries) /\ Len(pending') = n - 1
          /\ \A j \in 1 .. n - 1 : pending'[j] = IF j = i THEN pending[n] ELSE pending[j]
      BY <1>1, <1>2, <2>1, SwapRemove DEF Shape
    <2>3. DOMAIN pending' = 1 .. n - 1
      BY <2>2, LenProperties
    <2>4. \A j, k \in 1 .. n : E(j) = E(k) => j = k
      BY <1>1 DEF Listed
    <2>5. Outstanding = {E(k) : k \in 1 .. n}
      BY <1>2 DEF Outstanding
    <2>6. Outstanding' = {IF j = i THEN E(n) ELSE E(j) : j \in 1 .. n - 1}
      BY <2>2, <2>3 DEF Outstanding
    <2>7. d.task = pending[i].waker
      OBVIOUS
    <2> HIDE DEF E, d
    <2>8. d = E(i)
      BY DEF d
    <2>9. Outstanding' = Outstanding \ {d}
      <3>1. \A x \in Outstanding' : x \in Outstanding \ {d}
        BY <1>2, <2>4, <2>5, <2>6, <2>8
      <3>2. ASSUME NEW x \in Outstanding \ {d} PROVE x \in Outstanding'
        <4>1. PICK k \in 1 .. n : x = E(k)
          BY <2>5
        <4>2. k # i
          BY <2>8, <3>2, <4>1
        <4>3. CASE k = n
          <5>1. i \in 1 .. n - 1
            BY <1>2, <1>3, <4>2, <4>3
          <5> QED
            BY <2>6, <4>1, <4>3, <5>1
        <4>4. CASE k # n
          <5>1. k \in 1 .. n - 1
            BY <1>3, <4>4
          <5> QED
            BY <2>6, <4>1, <4>2, <5>1
        <4> QED
          BY <4>3, <4>4
      <3> QED
        BY <3>1, <3>2
    <2>10. Says = "Running"
      BY <1>1, <1>2 DEF Says, Running, Listed
    <2>11. {d} \in SUBSET Outstanding
      BY <1>2, <2>5, <2>8
    <2>12. woken' = woken \cup {x.task : x \in {d}}
      BY <2>1, <2>7
    <2>13. \E S \in SUBSET Outstanding : Contract!Poll(S)
      <3>1. Contract!Poll({d})
        BY <1>3, <2>9, <2>10, <2>12 DEF Contract!Poll, Outstanding, Held, Says
      <3> QED
        BY <2>11, <3>1 DEF Contract!Poll
    <2>14. Says' = Contract!StatusFor(Outstanding')
      BY DEF StatusRight, Contract!StatusFor
    <2> QED
      BY <2>13, <2>14 DEF Contract!Next, Says, Outstanding
  <1> QED
    BY <1>4, <1>5

(* The first poll of a future starts its operation.                        *)
LEMMA PollNotStartedRefines ==
    ASSUME IInv, StatusRight', NEW f \in Futures, PollNotStarted(f)
    PROVE  Contract!Next
  <1>1. Shape /\ Listed /\ Walking
    BY DEF IInv
  <1>2. /\ f \in topoll /\ state[f] = "NotStarted"
        /\ pending' = Append(pending, [req |-> f, waker |-> running])
        /\ state' = [state EXCEPT ![f] = "InFlight"] /\ woken' = woken
    BY DEF PollNotStarted, NextToPoll, register
  <1>3. PICK t \in Tasks : running = t
    BY <1>1, <1>2 DEF Walking, Shape
  <1> DEFINE e == [req |-> f, waker |-> t]
             n == Len(pending)
  <1>4. e \in Entries /\ e.req = f /\ e.waker = t
    BY DEF Entries
  <1>5. /\ Len(pending') = n + 1 /\ n \in Nat /\ DOMAIN pending = 1 .. n
        /\ DOMAIN pending' = 1 .. n + 1
        /\ \A k \in 1 .. n : pending'[k] = pending[k]
        /\ pending'[n + 1] = e
    <2> HIDE DEF e
    <2>1. pending \in Seq(Entries) /\ pending' = Append(pending, e)
      BY <1>1, <1>2, <1>3 DEF Shape, e
    <2> QED
      BY <1>4, <2>1
  <1> HIDE DEF e
  <1>6. Outstanding' = Outstanding \cup {[op |-> f, task |-> t]}
    <2>1. \A k : k \in 1 .. n + 1 <=> k \in 1 .. n \/ k = n + 1
      BY <1>5
    <2> QED
      BY <1>4, <1>5, <2>1 DEF Outstanding
  <1>7. f \notin Held /\ Held' = Held \cup {f}
    BY <1>1, <1>2 DEF Held, Shape
  <1>8. \A x \in Outstanding : x.op # f
    <2>1. \A k \in 1 .. n : pending[k].req # f
      BY <1>1, <1>2 DEF Listed, Started
    <2> QED
      BY <1>5, <2>1 DEF Outstanding
  <1>9. Contract!Start(f, t)
    BY <1>2, <1>6, <1>7, <1>8 DEF Contract!Start, Outstanding, Held
  <1>10. Says' = Contract!StatusFor(Outstanding')
    BY DEF StatusRight, Contract!StatusFor
  <1> QED
    BY <1>9, <1>10 DEF Contract!Next, Says, Outstanding

(* A dropped future leaves its request with the reactor.                   *)
LEMMA DropRefines ==
    ASSUME IInv, StatusRight', NEW f \in Futures, Drop(f)
    PROVE  Contract!Next
  <1>1. /\ Shape /\ state' = [state EXCEPT ![f] = "dropped"] /\ pending' = pending /\ woken' = woken
        /\ woken \subseteq Tasks
    BY DEF IInv, Drop, Shape
  <1>2. Held' = Held \ {f}
    BY <1>1 DEF Held, Shape
  <1>3. CASE f \notin Held
    <2>1. Held' = Held
      BY <1>2, <1>3
    <2> QED
      BY <1>1, <2>1, QuietRefines
  <1>4. CASE f \in Held
    <2>1. Contract!Drop(f)
      BY <1>1, <1>2, <1>4 DEF Contract!Drop, Held
    <2>2. Says' = Contract!StatusFor(Outstanding')
      BY DEF StatusRight, Contract!StatusFor
    <2> QED
      BY <2>1, <2>2 DEF Contract!Next, Says, Outstanding
  <1> QED
    BY <1>3, <1>4

LEMMA PollInFlightRefines ==
    ASSUME IInv, StatusRight', NEW f \in Futures, PollInFlight(f)
    PROVE  Contract!Next
  <1>1. pending' = pending /\ woken' = woken /\ woken \subseteq Tasks
    BY DEF PollInFlight, reactor, IInv, Shape
  <1>2. Held' = Held
    BY DEF PollInFlight, Held, IInv, Shape
  <1> QED
    BY <1>1, <1>2, QuietRefines

(* The MPI reactor is one the executor can rely on: it says Running        *)
(* exactly while a request is pending, and no request leaves it without    *)
(* its task being woken, for any number of tasks and futures.              *)
THEOREM MpiImplementsReactor == Spec => ImplementsReactor
  <1>1. Init => Contract!Init
    <2> SUFFICES ASSUME Init PROVE Contract!Init
      OBVIOUS
    <2>1. Outstanding = {} /\ Held = {} /\ Says = "Stopped" /\ woken \in SUBSET Tasks
      BY DEF Init, Outstanding, Held, Says, Running
    <2> QED
      BY <2>1 DEF Contract!Init, Outstanding, Held, Says
  <1>2. IInv /\ IInv' /\ StatusRight' /\ [Next]_vars => [Contract!Next]_(Contract!vars)
    <2> SUFFICES ASSUME IInv, IInv', StatusRight', [Next]_vars
                 PROVE  Contract!Next \/ UNCHANGED Contract!vars
      OBVIOUS
    <2>1. woken' \subseteq Tasks
      BY DEF IInv, Shape
    <2>2. CASE UNCHANGED vars \/ StartPoll \/ EndPoll \/ Suspend
      BY <2>1, <2>2, QuietRefines DEF vars, StartPoll, EndPoll, Suspend, reactor, Held
    <2>3. CASE Test
      BY <2>3, TestRefines
    <2>4. CASE \E t \in Tasks : RunTask(t) \/ WakeOtherwise(t)
      BY <2>1, <2>4, QuietRefines DEF RunTask, WakeOtherwise, reactor, Held
    <2>5. CASE \E f \in Futures : MpiCompletes(f) \/ PollRefused(f)
      BY <2>1, <2>5, QuietRefines DEF MpiCompletes, PollRefused, reactor, Held
    <2>6. CASE \E f \in Futures : New(f)
      <3>1. Held' = Held /\ pending' = pending
        BY <2>6 DEF New, reactor, Held, IInv, Shape
      <3> QED
        BY <2>1, <3>1, QuietRefines
    <2>7. CASE \E f \in Futures : PollNotStarted(f)
      BY <2>7, PollNotStartedRefines
    <2>8. CASE \E f \in Futures : PollInFlight(f)
      BY <2>8, PollInFlightRefines
    <2>9. CASE \E f \in Futures : Drop(f)
      BY <2>9, DropRefines
    <2>10. CASE \E f \in Futures, t \in Tasks : Move(f, t)
      BY <2>1, <2>10, QuietRefines DEF Move, reactor, Held
    <2> QED
      BY <2>2, <2>3, <2>4, <2>5, <2>6, <2>7, <2>8, <2>9, <2>10 DEF Next
  <1> QED
    BY <1>1, <1>2, InitIInv, NextIInv, StatusIsRight, PTL
       DEF Spec, ImplementsReactor, Contract!Spec
=============================================================================
