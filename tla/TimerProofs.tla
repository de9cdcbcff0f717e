----------------------------- MODULE TimerProofs ----------------------------
(***************************************************************************)
(* For any number of tasks, futures and instants: no timer is left in the  *)
(* map without its future, no sleeping future is without its timer, and    *)
(* the timer reactor is one the executor can rely on (module Reactor).     *)
(***************************************************************************)
EXTENDS Timer, FiniteSetTheorems, TLAPS

(* The types; bounds on the counters are in Counted.                       *)
Shape ==
    /\ now \in 0 .. MaxTime
    /\ counter \in Nat \ {0}
    /\ timers \subseteq [deadline : 0 .. MaxTime, id : 1 .. counter - 1, waker : Tasks]
    /\ status \in [Futures -> {"unborn", "pending", "ready", "err", "dropped"}]
    /\ deadline \in [Futures -> 0 .. MaxTime]
    /\ handle \in [Futures -> 0 .. counter - 1]
    /\ inner \in [Futures -> {"none", "waiting", "complete"}]
    /\ owner \in [Futures -> Tasks \cup {None}]
    /\ woken \subseteq Tasks
    /\ running \in Tasks \cup {None}
    /\ topoll \subseteq {f \in Futures : Live(f) /\ owner[f] = running}
    /\ moved \in [Futures -> {"no", "before", "after"}]

(* A timer has one handle and a handle one future, which was made by a     *)
(* task and is not dropped.                                                *)
Handled ==
    /\ \A x, y \in timers : x.id = y.id => x = y
    /\ \A f, g \in Futures : handle[f] = handle[g] /\ handle[f] # 0 => f = g
    /\ \A f \in Futures : handle[f] # 0 => status[f] \in {"pending", "ready", "err"}
    /\ \A f \in Futures : Live(f) => owner[f] \in Tasks
    /\ NoTimerLeaked

(* The futures that have registered a timer, or will never do.             *)
Spent == {f \in Futures : status[f] = "dropped" \/ handle[f] # 0}

(* The atomic counter is the size of the map; ids are given out once per   *)
(* future.                                                                 *)
Counted ==
    /\ IsFiniteSet(timers)
    /\ timer_count = Cardinality(timers)
    /\ Cardinality(timers) <= counter - 1
    /\ counter - 1 <= Cardinality(Spent)

TimerOf(f) == [deadline |-> deadline[f], id |-> handle[f], waker |-> owner[f]]

(* The timer of a future is in the map until its deadline, with the waker  *)
(* of its task, and a future that nobody is about to poll has one.         *)
Armed ==
    /\ \A f \in Futures : Live(f) /\ moved[f] # "after" /\ handle[f] # 0 /\ now < deadline[f] =>
           TimerOf(f) \in timers
    /\ \A f \in Futures : Live(f) /\ moved[f] # "after" /\ owner[f] \notin woken /\ f \notin topoll =>
           TimerOf(f) \in timers

IInv == Shape /\ Handled /\ Counted /\ Armed

-----------------------------------------------------------------------------
LEMMA FuturesFinite == IsFiniteSet(Futures) /\ Cardinality(Futures) = MaxFutures
  <1>1. MaxFutures \in Nat
    BY TimerAssumption
  <1>2. IsFiniteSet(1 .. MaxFutures) /\ Cardinality(1 .. MaxFutures) = MaxFutures
    BY <1>1, FS_Interval
  <1> QED
    BY <1>2 DEF Futures

LEMMA SpentSize ==
    IsFiniteSet(Spent) /\ Cardinality(Spent) \in Nat /\ Cardinality(Spent) <= MaxFutures
  <1>1. Spent \subseteq Futures
    BY DEF Spent
  <1> QED
    BY <1>1, FuturesFinite, FS_Subset, FS_CardinalityType

(* The counter does not wrap, up or down.                                  *)
LEMMA TimersSize ==
    ASSUME Shape, Counted
    PROVE  /\ timer_count \in Nat /\ timer_count <= counter - 1 /\ counter - 1 <= MaxFutures
           /\ Word \in Nat /\ MaxFutures \in Nat /\ MaxFutures < Word
  <1>1. Cardinality(timers) \in Nat
    BY FS_CardinalityType DEF Counted
  <1> QED
    BY <1>1, SpentSize, TimerAssumption DEF Shape, Counted

LEMMA CountUp ==
    ASSUME NEW c \in Nat, NEW m \in Nat, c + 1 < m
    PROVE  (c + 1) % m = c + 1
  BY SMT

LEMMA CountDown ==
    ASSUME NEW c \in Nat, NEW n \in 0 .. c, NEW m \in Nat, c < m
    PROVE  (c + m - n) % m = IF n = 0 THEN c ELSE c - n
  <1>1. CASE n = 0
    BY <1>1, SMT
  <1>2. CASE n > 0
    <2>1. c + m - n = (c - n) + m /\ c - n \in 0 .. m - 1
      BY <1>2
    <2> QED
      BY <1>2, <2>1, SMT
  <1> QED
    BY <1>1, <1>2

(* Timers that leave the map together are all counted.                     *)
LEMMA RemoveCounted ==
    ASSUME Shape, Counted, NEW S \in SUBSET timers, timers' = timers \ S,
           timer_count' = (timer_count + Word - Cardinality(S)) % Word
    PROVE  /\ IsFiniteSet(timers') /\ timer_count' = Cardinality(timers')
           /\ Cardinality(timers') <= Cardinality(timers)
  <1>1. IsFiniteSet(timers) /\ timer_count = Cardinality(timers)
    BY DEF Counted
  <1>2. IsFiniteSet(S) /\ Cardinality(S) <= Cardinality(timers) /\ Cardinality(S) \in Nat
    BY <1>1, FS_Subset, FS_CardinalityType
  <1>3. timers \cap S = S
    OBVIOUS
  <1>4. IsFiniteSet(timers') /\ Cardinality(timers') = Cardinality(timers) - Cardinality(S)
    <2>1. /\ IsFiniteSet(timers \ S)
          /\ Cardinality(timers \ S) = Cardinality(timers) - Cardinality(timers \cap S)
      BY <1>1, FS_Difference
    <2> QED
      BY <1>3, <2>1
  <1>5. timer_count \in Nat /\ timer_count < Word /\ Word \in Nat
    BY TimersSize DEF Shape
  <1>6. Cardinality(S) \in 0 .. timer_count
    BY <1>1, <1>2
  <1>7. timer_count' = timer_count - Cardinality(S)
    <2> DEFINE n == Cardinality(S)
    <2>1. n \in 0 .. timer_count /\ timer_count' = (timer_count + Word - n) % Word
      BY <1>6
    <2> HIDE DEF n
    <2>2. timer_count' = IF n = 0 THEN timer_count ELSE timer_count - n
      BY <1>5, <2>1, CountDown
    <2>3. timer_count' = timer_count - n
      BY <1>5, <2>1, <2>2
    <2> QED
      BY <2>3 DEF n
  <1> QED
    BY <1>1, <1>2, <1>4, <1>5, <1>7

(* A step that leaves map and handles alone.                               *)
LEMMA QuietKeeps ==
    ASSUME Shape, Handled, Counted, UNCHANGED <<counter, timers, timer_count, handle>>,
           \A f \in Futures : handle[f] # 0 =>
               deadline'[f] = deadline[f] /\ status'[f] \in {"pending", "ready", "err"},
           \A f \in Futures : status'[f] = "pending" => owner'[f] \in Tasks,
           \A f \in Futures : status[f] = "dropped" => status'[f] = "dropped"
    PROVE  Handled' /\ Counted'
  <1>1. \A x \in timers : x.id # 0
    BY DEF Shape
  <1>2. NoTimerLeaked'
    BY <1>1 DEF Handled, NoTimerLeaked
  <1>3. Handled'
    BY <1>2 DEF Handled, Live
  <1>4. Spent \in SUBSET (Spent') /\ Spent' \subseteq Futures
    BY DEF Spent
  <1>5. IsFiniteSet(Spent')
    BY <1>4, FuturesFinite, FS_Subset
  <1>6. Cardinality(Spent) <= Cardinality(Spent')
    BY <1>4, <1>5, FS_Subset
  <1>7. Cardinality(Spent) \in Nat /\ Cardinality(Spent') \in Nat
    BY <1>5, SpentSize, FS_CardinalityType
  <1>8. Counted'
    BY <1>6, <1>7 DEF Counted, Shape
  <1> QED
    BY <1>3, <1>8

LEMMA InitIInv == Init => IInv
  <1> SUFFICES ASSUME Init PROVE IInv
    OBVIOUS
  <1>1. Shape
    BY TimerAssumption DEF Init, Shape, Live
  <1>2. Handled
    BY DEF Init, Handled, NoTimerLeaked, Live
  <1>3. Counted
    <2>1. IsFiniteSet(timers) /\ Cardinality(timers) = 0
      BY FS_EmptySet DEF Init
    <2> QED
      BY <2>1, SpentSize DEF Init, Counted
  <1>4. Armed
    BY DEF Init, Armed, Live
  <1> QED
    BY <1>1, <1>2, <1>3, <1>4 DEF IInv

(* A poll of the reactor takes out what has expired, and wakes its tasks.  *)
LEMMA ReactorPollKeeps ==
    ASSUME IInv, ReactorPoll
    PROVE  IInv'
  <1>1. Shape /\ Handled /\ Counted /\ Armed
    BY DEF IInv
  <1>2. /\ timers' = timers \ Expired
        /\ timer_count' = (timer_count + Word - Cardinality(Expired)) % Word
        /\ woken' = woken \cup {x.waker : x \in Expired}
        /\ UNCHANGED <<now, counter, status, deadline, handle, inner, owner, running, topoll, moved>>
    BY DEF ReactorPoll
  <1>3. Expired \in SUBSET timers /\ Expired = {x \in timers : x.deadline <= now}
    BY DEF Expired
  <1>4. Shape'
    BY <1>1, <1>2, <1>3 DEF Shape, Live
  <1>5. Handled'
    BY <1>1, <1>2 DEF Handled, NoTimerLeaked, Live
  <1>6. Spent' = Spent
    BY <1>2 DEF Spent
  <1>7. /\ IsFiniteSet(timers') /\ timer_count' = Cardinality(timers')
        /\ Cardinality(timers') <= Cardinality(timers)
    BY <1>1, <1>2, <1>3, RemoveCounted
  <1>8. Cardinality(timers') \in Nat /\ Cardinality(timers) \in Nat /\ counter - 1 \in Nat
    BY <1>1, <1>7, FS_CardinalityType DEF Counted, Shape
  <1>9. Counted'
    BY <1>1, <1>2, <1>6, <1>7, <1>8 DEF Counted
  <1>10. Armed'
    <2>1. \A f \in Futures : TimerOf(f)' = TimerOf(f)
      BY <1>2 DEF TimerOf
    <2>2. \A f \in Futures : TimerOf(f).deadline = deadline[f] /\ TimerOf(f).waker = owner[f]
      BY DEF TimerOf
    <2>3. \A f \in Futures : now < deadline[f] => ~(deadline[f] <= now)
      BY <1>1 DEF Shape
    <2>4. \A f \in Futures : TimerOf(f) \in timers =>
              TimerOf(f) \in timers' \/ (deadline[f] <= now /\ owner[f] \in woken')
      <3> SUFFICES ASSUME NEW f \in Futures, TimerOf(f) \in timers, TimerOf(f) \notin timers'
                   PROVE  deadline[f] <= now /\ owner[f] \in woken'
        OBVIOUS
      <3>1. TimerOf(f) \in Expired
        BY <1>2
      <3> QED
        BY <1>2, <1>3, <2>2, <3>1
    <2> QED
      BY <1>1, <1>2, <2>1, <2>3, <2>4 DEF Armed, Live
  <1> QED
    BY <1>4, <1>5, <1>9, <1>10 DEF IInv

(* The executor starts to poll a task, which will poll all it awaits.      *)
LEMMA RunTaskKeeps ==
    ASSUME IInv, NEW t \in Tasks, RunTask(t)
    PROVE  IInv'
  <1>1. Shape /\ Handled /\ Counted /\ Armed
    BY DEF IInv
  <1>2. /\ running' = t /\ woken' = woken \ {t}
        /\ topoll' = {f \in Futures : Live(f) /\ owner[f] = t}
        /\ UNCHANGED <<now, counter, timers, timer_count, status, deadline, handle, inner, owner, moved>>
    BY DEF RunTask, map
  <1>3. Shape'
    BY <1>1, <1>2 DEF Shape, Live
  <1>4. Handled' /\ Counted'
    <2>1. \A f \in Futures : status'[f] = "pending" => owner'[f] \in Tasks
      BY <1>1, <1>2 DEF Handled, Live
    <2>2. \A f \in Futures : handle[f] # 0 => status'[f] \in {"pending", "ready", "err"}
      BY <1>1, <1>2 DEF Handled
    <2> QED
      BY <1>1, <1>2, <2>1, <2>2, QuietKeeps
  <1>5. Armed'
    <2>1. \A f \in Futures : Live(f) /\ owner[f] \notin woken' /\ f \notin topoll' => owner[f] \notin woken
      BY <1>2
    <2>2. \A f \in Futures : f \in topoll => Live(f) /\ owner[f] = running
      BY <1>1 DEF Shape
    <2>3. \A f \in topoll : FALSE
      BY <1>1, <2>2, TimerAssumption DEF RunTask, Handled, Shape
    <2> QED
      BY <1>1, <1>2, <2>1, <2>3 DEF Armed, Live, TimerOf
  <1> QED
    BY <1>3, <1>4, <1>5 DEF IInv

(* The other steps of executor, clock and wrapped futures.                 *)
LEMMA OthersKeep ==
    ASSUME IInv, UNCHANGED <<counter, timers, timer_count, status, deadline, handle, owner, moved>>,
           now' \in 0 .. MaxTime, now <= now', inner' \in [Futures -> {"none", "waiting", "complete"}],
           woken \subseteq woken', woken' \subseteq Tasks, topoll' = topoll,
           running' = running \/ (topoll = {} /\ running' = None)
    PROVE  IInv'
  <1>1. Shape /\ Handled /\ Counted /\ Armed
    BY DEF IInv
  <1>2. Shape'
    BY <1>1 DEF Shape, Live
  <1>3. Handled' /\ Counted'
    <2>1. \A f \in Futures : status'[f] = "pending" => owner'[f] \in Tasks
      BY <1>1 DEF Handled, Live
    <2>2. \A f \in Futures : handle[f] # 0 => status'[f] \in {"pending", "ready", "err"}
      BY <1>1 DEF Handled
    <2> QED
      BY <1>1, <2>1, <2>2, QuietKeeps
  <1>4. \A f \in Futures : now' < deadline[f] => now < deadline[f]
    BY <1>1 DEF Shape
  <1>5. Armed'
    BY <1>1, <1>4 DEF Armed, Live, TimerOf
  <1> QED
    BY <1>2, <1>3, <1>5 DEF IInv

LEMMA NewKeeps ==
    ASSUME IInv, NEW f \in Futures, NEW duration \in 0 .. MaxTime, NEW i \in {"none", "waiting"},
           New(f, duration, i)
    PROVE  IInv'
  <1>1. Shape /\ Handled /\ Counted /\ Armed
    BY DEF IInv
  <1>2. /\ running # None /\ status[f] = "unborn" /\ now + duration <= MaxTime
        /\ status' = [status EXCEPT ![f] = "pending"]
        /\ deadline' = [deadline EXCEPT ![f] = now + duration]
        /\ inner' = [inner EXCEPT ![f] = i]
        /\ owner' = [owner EXCEPT ![f] = running]
        /\ topoll' = topoll \cup {f}
        /\ UNCHANGED <<now, counter, timers, timer_count, handle, woken, running, moved>>
    BY DEF New, map, tasks
  <1>3. /\ now + duration \in 0 .. MaxTime /\ running \in Tasks /\ handle[f] = 0
        /\ \A g \in Futures : g # f => status'[g] = status[g] /\ deadline'[g] = deadline[g] /\ owner'[g] = owner[g]
        /\ status'[f] = "pending" /\ owner'[f] = running
    BY <1>1, <1>2, TimerAssumption DEF Shape, Handled
  <1>4. Shape'
    <2>1. topoll' \subseteq {g \in Futures : status'[g] = "pending" /\ owner'[g] = running'}
      BY <1>1, <1>2, <1>3 DEF Shape, Live
    <2> QED
      BY <1>1, <1>2, <1>3, <2>1 DEF Shape, Live
  <1>5. Handled' /\ Counted'
    <2>1. \A g \in Futures : status'[g] = "pending" => owner'[g] \in Tasks
      BY <1>1, <1>3 DEF Handled, Live
    <2>2. \A g \in Futures : handle[g] # 0 =>
              deadline'[g] = deadline[g] /\ status'[g] \in {"pending", "ready", "err"}
      BY <1>1, <1>3 DEF Handled
    <2>3. \A g \in Futures : status[g] = "dropped" => status'[g] = "dropped"
      BY <1>2, <1>3
    <2> QED
      BY <1>1, <1>2, <2>1, <2>2, <2>3, QuietKeeps
  <1>6. Armed'
    <2>1. \A g \in Futures : g # f => TimerOf(g)' = TimerOf(g)
      BY <1>2, <1>3 DEF TimerOf
    <2> QED
      BY <1>1, <1>2, <1>3, <2>1 DEF Armed, Live
  <1> QED
    BY <1>4, <1>5, <1>6 DEF IInv

(* A future that resolves.                                                 *)
LEMMA ResolveKeeps ==
    ASSUME IInv, NEW f \in Futures, NEW s \in {"ready", "err"}, f \in topoll,
           topoll' = topoll \ {f}, status' = [status EXCEPT ![f] = s],
           UNCHANGED <<now, counter, timers, timer_count, handle, deadline, inner, owner, woken, running, moved>>
    PROVE  IInv'
  <1>1. Shape /\ Handled /\ Counted /\ Armed
    BY DEF IInv
  <1>2. /\ \A g \in Futures : status'[g] = IF g = f THEN s ELSE status[g]
        /\ Live(f)
    BY <1>1 DEF Shape
  <1>3. Shape'
    BY <1>1, <1>2 DEF Shape, Live
  <1>4. Handled' /\ Counted'
    <2>1. \A g \in Futures : status'[g] = "pending" => owner'[g] \in Tasks
      BY <1>1, <1>2 DEF Handled, Live
    <2>2. \A g \in Futures : handle[g] # 0 =>
              deadline'[g] = deadline[g] /\ status'[g] \in {"pending", "ready", "err"}
      BY <1>1, <1>2 DEF Handled
    <2>3. \A g \in Futures : status[g] = "dropped" => status'[g] = "dropped"
      BY <1>2 DEF Live
    <2> QED
      BY <1>1, <2>1, <2>2, <2>3, QuietKeeps
  <1>5. Armed'
    BY <1>1, <1>2 DEF Armed, Live, TimerOf
  <1> QED
    BY <1>3, <1>4, <1>5 DEF IInv

(* The first poll that has to wait registers the timer, with the waker of  *)
(* the task that owns the future.                                          *)
LEMMA RegisterKeeps ==
    ASSUME IInv, NEW f \in Futures, f \in topoll, handle[f] = 0, topoll' = topoll \ {f},
           register_timer(deadline[f], running), handle' = [handle EXCEPT ![f] = counter],
           UNCHANGED <<now, status, deadline, inner, owner, woken, running, moved>>
    PROVE  IInv'
  <1>1. Shape /\ Handled /\ Counted /\ Armed
    BY DEF IInv
  <1> DEFINE x == [deadline |-> deadline[f], id |-> counter, waker |-> running]
  <1>2. /\ timers' = timers \cup {x} /\ timer_count' = (timer_count + 1) % Word
        /\ counter' = counter + 1
    BY DEF register_timer
  <1>3. Live(f) /\ owner[f] = running /\ running \in Tasks /\ deadline[f] \in 0 .. MaxTime
    BY <1>1 DEF Shape, Handled
  <1>4. counter \in Nat \ {0} /\ \A y \in timers : y.id \in 1 .. counter - 1
    BY <1>1 DEF Shape
  <1>5. \A g \in Futures : handle'[g] = IF g = f THEN counter ELSE handle[g]
    BY <1>1 DEF Shape
  <1>6. x \notin timers /\ \A y \in timers : y.id # counter
    BY <1>4
  <1>7. Shape'
    <2>1. timers' \subseteq [deadline : 0 .. MaxTime, id : 1 .. counter' - 1, waker : Tasks]
      <3>1. x \in [deadline : 0 .. MaxTime, id : 1 .. counter' - 1, waker : Tasks]
        BY <1>2, <1>3, <1>4
      <3>2. \A y \in timers : y \in [deadline : 0 .. MaxTime, id : 1 .. counter' - 1, waker : Tasks]
        BY <1>1, <1>2, <1>4 DEF Shape
      <3> QED
        BY <1>2, <3>1, <3>2
    <2>2. handle' \in [Futures -> 0 .. counter' - 1] /\ counter' \in Nat \ {0}
      BY <1>1, <1>2, <1>4 DEF Shape
    <2>3. topoll' \subseteq {g \in Futures : status'[g] = "pending" /\ owner'[g] = running'}
      BY <1>1 DEF Shape, Live
    <2> QED
      BY <1>1, <2>1, <2>2, <2>3 DEF Shape, Live
  <1>8. \A g \in Futures : handle[g] # counter
    BY <1>1, <1>4 DEF Shape
  <1>9. Handled'
    <2>1. \A y, z \in timers' : y.id = z.id => y = z
      BY <1>1, <1>2, <1>6 DEF Handled
    <2>2. \A g, h \in Futures : handle'[g] = handle'[h] /\ handle'[g] # 0 => g = h
      BY <1>1, <1>5, <1>8 DEF Handled
    <2>3. NoTimerLeaked'
      <3> SUFFICES ASSUME NEW y \in timers'
                   PROVE  \E g \in Futures : handle'[g] = y.id /\ deadline'[g] = y.deadline
        BY DEF NoTimerLeaked
      <3>1. CASE y = x
        BY <1>5, <3>1
      <3>2. CASE y \in timers
        <4>1. PICK g \in Futures : handle[g] = y.id /\ deadline[g] = y.deadline
          BY <1>1, <3>2 DEF Handled, NoTimerLeaked
        <4>2. g # f
          BY <1>4, <3>2, <4>1
        <4> QED
          BY <1>5, <4>1, <4>2
      <3> QED
        BY <1>2, <3>1, <3>2
    <2> QED
      BY <1>1, <1>3, <1>5, <2>1, <2>2, <2>3 DEF Handled, Live
  <1>10. Spent' = Spent \cup {f} /\ f \notin Spent
    BY <1>3, <1>4, <1>5 DEF Spent, Live
  <1>11. Counted'
    <2>1. Cardinality(Spent') = Cardinality(Spent) + 1
      BY <1>10, SpentSize, FS_AddElement
    <2>2. IsFiniteSet(timers') /\ Cardinality(timers') = Cardinality(timers) + 1
      <3>1. IsFiniteSet(timers)
        BY <1>1 DEF Counted
      <3> HIDE DEF x
      <3> QED
        BY <1>2, <1>6, <3>1, FS_AddElement
    <2>3. Spent' \subseteq Futures
      BY DEF Spent
    <2>4. Cardinality(Spent') <= MaxFutures
      BY <2>3, FuturesFinite, FS_Subset
    <2>5. /\ timer_count = Cardinality(timers) /\ timer_count \in Nat /\ timer_count <= counter - 1
          /\ counter - 1 <= Cardinality(Spent) /\ Cardinality(Spent) \in Nat
          /\ Word \in Nat /\ MaxFutures \in Nat /\ MaxFutures < Word
      BY <1>1, TimersSize, SpentSize DEF Counted
    <2>6. timer_count + 1 < Word
      BY <1>4, <2>1, <2>4, <2>5
    <2>7. timer_count' = timer_count + 1
      BY <1>2, <2>5, <2>6, CountUp
    <2> QED
      BY <1>2, <1>4, <2>1, <2>2, <2>5, <2>7 DEF Counted
  <1>12. Armed'
    <2>1. \A g \in Futures : g # f => TimerOf(g)' = TimerOf(g)
      BY <1>5 DEF TimerOf
    <2>2. TimerOf(f)' = x
      BY <1>3, <1>5 DEF TimerOf
    <2> QED
      BY <1>1, <1>2, <1>5, <2>1, <2>2 DEF Armed, Live
  <1> QED
    BY <1>7, <1>9, <1>11, <1>12 DEF IInv

(* A later poll that has to wait finds the deadline ahead, so that the     *)
(* timer has not fired.                                                    *)
LEMMA WaitOnKeeps ==
    ASSUME IInv, NEW f \in Futures, f \in topoll, handle[f] # 0, now < deadline[f],
           topoll' = topoll \ {f},
           UNCHANGED <<now, counter, timers, timer_count, status, deadline, handle, inner, owner, woken, running, moved>>
    PROVE  IInv'
  <1>1. Shape /\ Handled /\ Counted /\ Armed
    BY DEF IInv
  <1>2. Shape'
    BY <1>1 DEF Shape, Live
  <1>3. Handled' /\ Counted'
    BY <1>1 DEF Handled, Counted, NoTimerLeaked, Live, Spent
  <1>4. Armed'
    BY <1>1 DEF Armed, Live, TimerOf
  <1> QED
    BY <1>2, <1>3, <1>4 DEF IInv

LEMMA PollKeeps ==
    ASSUME IInv, NEW f \in Futures, Poll(f)
    PROVE  IInv'
  <1>1. /\ f \in topoll /\ topoll' = topoll \ {f}
        /\ UNCHANGED <<now, deadline, inner, owner, woken, running, moved>>
    BY DEF Poll, tasks
  <1>2. CASE inner[f] = "complete" \/ now >= deadline[f]
    <2>1. /\ \E s \in {"ready", "err"} : status' = [status EXCEPT ![f] = s]
          /\ UNCHANGED <<counter, timers, timer_count, handle>>
      <3>1. ~(now < deadline[f]) \/ inner[f] = "complete"
        BY <1>2 DEF IInv, Shape
      <3> QED
        BY <3>1 DEF Poll, map
    <2> QED
      BY <1>1, <2>1, ResolveKeeps
  <1>3. CASE inner[f] # "complete" /\ ~(now >= deadline[f])
    <2>1. now < deadline[f] /\ Arm(f) /\ UNCHANGED status
      BY <1>3 DEF Poll
    <2> QED
      BY <1>1, <2>1, RegisterKeeps, WaitOnKeeps DEF Arm, map
  <1> QED
    BY <1>2, <1>3

(* Drop takes the timer of the future with it, fired or not.               *)
LEMMA DropKeeps ==
    ASSUME IInv, NEW f \in Futures, Drop(f)
    PROVE  IInv'
  <1>1. Shape /\ Handled /\ Counted /\ Armed
    BY DEF IInv
  <1>2. /\ status' = [status EXCEPT ![f] = "dropped"] /\ deadline' = [deadline EXCEPT ![f] = 0]
        /\ handle' = [handle EXCEPT ![f] = 0] /\ inner' = [inner EXCEPT ![f] = "none"]
        /\ owner' = [owner EXCEPT ![f] = None] /\ moved' = [moved EXCEPT ![f] = "no"]
        /\ topoll' = topoll \ {f} /\ UNCHANGED <<now, woken, running>>
    BY DEF Drop, Gone, tasks
  <1> DEFINE S == IF handle[f] = 0 THEN {} ELSE Found(handle[f])
  <1>3. /\ S \in SUBSET timers /\ \A x \in timers : x \in S <=> x.id = handle[f]
        /\ counter' = counter
    <2>1. \A x \in timers : x.id # 0
      BY <1>1 DEF Shape
    <2> QED
      BY <2>1 DEF Found, Drop, cancel_timer, map
  <1>4. /\ timers' = timers \ S
        /\ \/ timer_count' = (timer_count + Word - Cardinality(S)) % Word
           \/ S = {} /\ timer_count' = timer_count
    BY DEF Drop, cancel_timer, map
  <1> HIDE DEF S
  <1>5. /\ IsFiniteSet(timers') /\ timer_count' = Cardinality(timers')
        /\ Cardinality(timers') <= Cardinality(timers)
    <2>1. CASE timer_count' = (timer_count + Word - Cardinality(S)) % Word
      BY <1>1, <1>3, <1>4, <2>1, RemoveCounted
    <2>2. CASE S = {} /\ timer_count' = timer_count
      <3>1. timers' = timers /\ Cardinality(timers) \in Nat
        BY <1>1, <1>4, <2>2, FS_CardinalityType DEF Counted
      <3> QED
        BY <1>1, <2>2, <3>1 DEF Counted
    <2> QED
      BY <1>4, <2>1, <2>2
  <1>6. \A g \in Futures : g # f => /\ status'[g] = status[g] /\ deadline'[g] = deadline[g]
                                    /\ handle'[g] = handle[g] /\ owner'[g] = owner[g]
                                    /\ moved'[g] = moved[g]
    BY <1>1, <1>2 DEF Shape
  <1>7. status'[f] = "dropped" /\ handle'[f] = 0
    BY <1>1, <1>2 DEF Shape
  <1>8. Shape'
    <2>1. topoll' \subseteq {g \in Futures : status'[g] = "pending" /\ owner'[g] = running'}
      BY <1>1, <1>2, <1>6 DEF Shape, Live
    <2>2. counter - 1 \in Nat /\ 0 \in 0 .. MaxTime
      BY <1>1, TimerAssumption DEF Shape
    <2> QED
      BY <1>1, <1>2, <1>3, <1>4, <2>1, <2>2 DEF Shape, Live
  <1>9. Handled'
    <2>1. NoTimerLeaked'
      <3> SUFFICES ASSUME NEW y \in timers'
                   PROVE  \E g \in Futures : handle'[g] = y.id /\ deadline'[g] = y.deadline
        BY DEF NoTimerLeaked
      <3>1. y \in timers /\ y.id # handle[f]
        BY <1>3, <1>4
      <3>2. PICK g \in Futures : handle[g] = y.id /\ deadline[g] = y.deadline
        BY <1>1, <3>1 DEF Handled, NoTimerLeaked
      <3> QED
        BY <1>6, <3>1, <3>2
    <2>2. \A g, h \in Futures : handle'[g] = handle'[h] /\ handle'[g] # 0 => g = h
      BY <1>1, <1>6, <1>7 DEF Handled
    <2>3. \A g \in Futures : handle'[g] # 0 => status'[g] \in {"pending", "ready", "err"}
      BY <1>1, <1>6, <1>7 DEF Handled
    <2>4. \A g \in Futures : Live(g)' => owner'[g] \in Tasks
      BY <1>1, <1>6, <1>7 DEF Handled, Live
    <2>5. \A x, y \in timers' : x.id = y.id => x = y
      BY <1>1, <1>4 DEF Handled
    <2> QED
      BY <2>1, <2>2, <2>3, <2>4, <2>5 DEF Handled
  <1>10. Counted'
    <2>1. Spent \in SUBSET (Spent') /\ Spent' \subseteq Futures
      BY <1>6, <1>7 DEF Spent
    <2>2. IsFiniteSet(Spent')
      BY <2>1, FuturesFinite, FS_Subset
    <2>3. Cardinality(Spent) <= Cardinality(Spent')
      BY <2>1, <2>2, FS_Subset
    <2>4. /\ Cardinality(Spent) \in Nat /\ Cardinality(Spent') \in Nat
          /\ Cardinality(timers) \in Nat /\ Cardinality(timers') \in Nat
      BY <1>1, <1>5, <2>2, SpentSize, FS_CardinalityType DEF Counted
    <2> QED
      BY <1>1, <1>3, <1>5, <2>3, <2>4 DEF Counted, Shape
  <1>11. Armed'
    <2>1. \A g \in Futures : g # f => TimerOf(g)' = TimerOf(g)
      BY <1>6 DEF TimerOf
    <2>2. \A g \in Futures : g # f /\ TimerOf(g) \in timers => TimerOf(g) \in timers'
      <3> SUFFICES ASSUME NEW g \in Futures, g # f, TimerOf(g) \in timers
                   PROVE  TimerOf(g) \in timers'
        OBVIOUS
      <3>1. TimerOf(g).id = handle[g]
        BY DEF TimerOf
      <3>2. handle[g] # 0
        BY <1>1, <3>1 DEF Shape
      <3>3. handle[g] # handle[f]
        BY <1>1, <3>2 DEF Handled
      <3> QED
        BY <1>3, <1>4, <3>1, <3>3
    <2>3. \A g \in Futures : Live(g)' => g # f /\ Live(g)
      BY <1>6, <1>7 DEF Live
    <2>4. \A g \in Futures : g # f /\ g \notin topoll' => g \notin topoll
      BY <1>2
    <2> QED
      BY <1>1, <1>2, <1>6, <2>1, <2>2, <2>3, <2>4 DEF Armed
  <1> QED
    BY <1>8, <1>9, <1>10, <1>11 DEF IInv

(* The new owner of a moved future is woken to await it.                   *)
LEMMA MoveKeeps ==
    ASSUME IInv, NEW f \in Futures, NEW t \in Tasks, Move(f, t)
    PROVE  IInv'
  <1>1. Shape /\ Handled /\ Counted /\ Armed
    BY DEF IInv
  <1>2. /\ Live(f) /\ owner' = [owner EXCEPT ![f] = t] /\ woken' = woken \cup {t}
        /\ topoll' = topoll \ {f}
        /\ moved' = [moved EXCEPT ![f] = IF handle[f] = 0 THEN "before" ELSE "after"]
        /\ UNCHANGED <<now, counter, timers, timer_count, status, deadline, handle, inner, running>>
    BY DEF Move, map
  <1>3. /\ \A g \in Futures : g # f => owner'[g] = owner[g] /\ moved'[g] = moved[g]
        /\ owner'[f] = t /\ (handle[f] # 0 => moved'[f] = "after")
    BY <1>1, <1>2 DEF Shape
  <1>4. Shape'
    <2>1. topoll' \subseteq {g \in Futures : status'[g] = "pending" /\ owner'[g] = running'}
      BY <1>1, <1>2, <1>3 DEF Shape, Live
    <2> QED
      BY <1>1, <1>2, <2>1 DEF Shape, Live
  <1>5. Handled' /\ Counted'
    <2>1. \A g \in Futures : status'[g] = "pending" => owner'[g] \in Tasks
      BY <1>1, <1>2, <1>3 DEF Handled, Live
    <2>2. \A g \in Futures : handle[g] # 0 => status'[g] \in {"pending", "ready", "err"}
      BY <1>1, <1>2 DEF Handled
    <2> QED
      BY <1>1, <1>2, <2>1, <2>2, QuietKeeps
  <1>6. Armed'
    <2>1. \A g \in Futures : g # f => TimerOf(g)' = TimerOf(g)
      BY <1>2, <1>3 DEF TimerOf
    <2> QED
      BY <1>1, <1>2, <1>3, <2>1 DEF Armed, Live
  <1> QED
    BY <1>4, <1>5, <1>6 DEF IInv

LEMMA NextIInv == IInv /\ [Next]_vars => IInv'
  <1> SUFFICES ASSUME IInv, [Next]_vars PROVE IInv'
    OBVIOUS
  <1>1. Shape
    BY DEF IInv
  <1>2. CASE UNCHANGED vars
    <2>1. now' \in 0 .. MaxTime /\ now <= now'
      BY <1>1, <1>2 DEF vars, Shape
    <2>2. /\ UNCHANGED <<counter, timers, timer_count, status, deadline, handle, owner, moved>>
          /\ UNCHANGED <<inner, woken, topoll, running>>
      BY <1>2 DEF vars
    <2> QED
      BY <1>1, <2>1, <2>2, OthersKeep DEF Shape
  <1>3. CASE ReactorPoll
    BY <1>3, ReactorPollKeeps
  <1>4. CASE Suspend
    BY <1>1, <1>4, OthersKeep DEF Suspend, map, Shape
  <1>5. CASE Tick
    <2>1. now' \in 0 .. MaxTime /\ now <= now'
      BY <1>1, <1>5, TimerAssumption DEF Tick, Shape
    <2>2. /\ UNCHANGED <<counter, timers, timer_count, status, deadline, handle, owner, moved>>
          /\ UNCHANGED <<inner, woken, topoll, running>>
      BY <1>5 DEF Tick, map, tasks
    <2> QED
      BY <1>1, <2>1, <2>2, OthersKeep DEF Shape
  <1>6. CASE \E t \in Tasks : RunTask(t)
    BY <1>6, RunTaskKeeps
  <1>7. CASE \E t \in Tasks : WakeOtherwise(t)
    BY <1>1, <1>7, OthersKeep DEF WakeOtherwise, map, Shape
  <1>8. CASE \E f \in Futures : \E duration \in 0 .. MaxTime, i \in {"none", "waiting"} : New(f, duration, i)
    BY <1>8, NewKeeps
  <1>9. CASE \E f \in Futures : Poll(f)
    BY <1>9, PollKeeps
  <1>10. CASE \E f \in Futures : InnerCompletes(f)
    <2>1. PICK f \in Futures : InnerCompletes(f)
      BY <1>10
    <2>2. owner[f] \in Tasks
      BY <2>1 DEF IInv, Handled, InnerCompletes
    <2> QED
      BY <1>1, <2>1, <2>2, OthersKeep DEF InnerCompletes, map, Shape
  <1>11. CASE \E f \in Futures : Drop(f)
    BY <1>11, DropKeeps
  <1>12. CASE \E f \in Futures, t \in Tasks : Move(f, t)
    BY <1>12, MoveKeeps
  <1> QED
    BY <1>2, <1>3, <1>4, <1>5, <1>6, <1>7, <1>8, <1>9, <1>10, <1>11, <1>12 DEF Next

LEMMA AlwaysIInv == Spec => []IInv
  BY InitIInv, NextIInv, PTL DEF Spec

(* The state keeps its types, and timer_count_atomic never wraps.          *)
THEOREM TypeCorrect == Spec => []TypeOK
  <1>1. IInv => TypeOK
    <2> SUFFICES ASSUME IInv PROVE TypeOK
      OBVIOUS
    <2>1. timer_count \in 0 .. MaxFutures
      BY TimersSize DEF IInv, Shape
    <2> QED
      BY <2>1 DEF IInv, Shape, TypeOK
  <1> QED
    BY <1>1, AlwaysIInv, PTL

(* No timer stays in the map after its future, for any number of futures   *)
(* that fire, are cancelled, or are cancelled after firing.                *)
THEOREM NothingLeaked == Spec => []NoTimerLeaked
  <1>1. IInv => NoTimerLeaked
    BY DEF IInv, Handled
  <1> QED
    BY <1>1, AlwaysIInv, PTL

(* A future whose task sleeps has its timer in the map, with a waker of    *)
(* that task (moved armed futures excepted).                               *)
THEOREM NoSleeperForgotten == Spec => []SleepersArmed
  <1>1. IInv => SleepersArmed
    <2> SUFFICES ASSUME IInv, NEW f \in Futures, Live(f), moved[f] # "after",
                        owner[f] \notin woken \cup {running}
                 PROVE  [deadline |-> deadline[f], id |-> handle[f], waker |-> owner[f]] \in timers
      BY DEF SleepersArmed
    <2>1. f \notin topoll
      BY DEF IInv, Shape
    <2> QED
      BY <2>1 DEF IInv, Armed, TimerOf
  <1> QED
    BY <1>1, AlwaysIInv, PTL

-----------------------------------------------------------------------------
(* The refinement of Reactor.  What the mapping makes of the state:        *)
Outstanding == {[op |-> x.id, task |-> x.waker] : x \in timers}
Held == {handle[f] : f \in {g \in Futures : handle[g] # 0}}
Says == IF Running THEN "Running" ELSE "Stopped"

(* status() says Running exactly while the map has a timer.                *)
StatusRight == Says = Contract!StatusFor(Outstanding)

LEMMA StatusIsRight == IInv => StatusRight
  <1> SUFFICES ASSUME IInv PROVE StatusRight
    OBVIOUS
  <1>1. timers = {} <=> timer_count = 0
    BY FS_EmptySet DEF IInv, Counted
  <1>2. timer_count \in Nat
    BY TimersSize DEF IInv
  <1>3. Outstanding = {} <=> timers = {}
    BY DEF Outstanding
  <1> QED
    BY <1>1, <1>2, <1>3 DEF StatusRight, Says, Running, Contract!StatusFor

(* A step that changes neither map nor handles is one of the executor.     *)
LEMMA QuietRefines ==
    ASSUME IInv, StatusRight', UNCHANGED <<timers, handle>>, woken' \subseteq Tasks
    PROVE  Contract!Next
  <1>1. Contract!Schedule
    BY DEF Contract!Schedule
  <1> QED
    BY <1>1 DEF Contract!Next, StatusRight, Says, Outstanding

LEMMA ReactorPollRefines ==
    ASSUME IInv, StatusRight', ReactorPoll
    PROVE  Contract!Next
  <1> DEFINE done == {[op |-> x.id, task |-> x.waker] : x \in Expired}
  <1>1. /\ Running /\ timers' = timers \ Expired /\ handle' = handle
        /\ woken' = woken \cup {x.waker : x \in Expired}
    BY DEF ReactorPoll
  <1>2. Expired \subseteq timers
    BY DEF Expired
  <1>3. done \in SUBSET Outstanding
    BY <1>2 DEF Outstanding
  <1>4. Outstanding' = Outstanding \ done
    <2>1. Outstanding' = {[op |-> x.id, task |-> x.waker] : x \in timers \ Expired}
      BY <1>1 DEF Outstanding
    <2>2. \A x, y \in timers : [op |-> x.id, task |-> x.waker] = [op |-> y.id, task |-> y.waker] => x = y
      BY DEF IInv, Handled
    <2> QED
      BY <1>2, <2>1, <2>2 DEF Outstanding
  <1>5. {x.waker : x \in Expired} = {z.task : z \in done}
    <2>1. \A x \in Expired : [op |-> x.id, task |-> x.waker].task = x.waker
      OBVIOUS
    <2> QED
      BY <2>1
  <1>6. Contract!Poll(done)
    <2>1. woken' = woken \cup {z.task : z \in done}
      BY <1>1, <1>5
    <2> QED
      BY <1>1, <1>4, <2>1 DEF Contract!Poll, Outstanding
  <1> HIDE DEF done
  <1>7. \E d \in SUBSET Outstanding : Contract!Poll(d)
    BY <1>3, <1>6 DEF Contract!Poll, Outstanding
  <1>8. Says' = Contract!StatusFor(Outstanding')
    BY DEF StatusRight, Contract!StatusFor
  <1> QED
    BY <1>7, <1>8 DEF Contract!Next, Says, Outstanding

(* The first waiting poll of a future starts its operation.                *)
LEMMA RegisterRefines ==
    ASSUME IInv, StatusRight', NEW f \in Futures, f \in topoll, handle[f] = 0,
           register_timer(deadline[f], running), handle' = [handle EXCEPT ![f] = counter],
           woken' = woken
    PROVE  Contract!Next
  <1>1. Shape /\ Handled /\ Counted
    BY DEF IInv
  <1>2. running \in Tasks /\ Live(f)
    BY <1>1 DEF Shape, Handled
  <1>3. counter \in Nat \ {0} /\ counter <= MaxFutures
    <2>1. f \notin Spent
      BY <1>2 DEF Spent, Live
    <2>2. Spent \cup {f} \subseteq Futures /\ Cardinality(Spent \cup {f}) = Cardinality(Spent) + 1
      BY <2>1, SpentSize, FS_AddElement DEF Spent
    <2>3. Cardinality(Spent \cup {f}) <= MaxFutures
      BY <2>2, FuturesFinite, FS_Subset
    <2> QED
      BY <1>1, <2>2, <2>3, SpentSize, TimerAssumption DEF Shape, Counted
  <1>4. counter \in Futures
    BY <1>3, TimerAssumption DEF Futures
  <1>5. counter \notin Held /\ \A z \in Outstanding : z.op # counter
    <2>1. \A g \in Futures : handle[g] # counter
      BY <1>1, <1>3 DEF Shape
    <2>2. \A x \in timers : x.id # counter
      BY <1>1, <1>3 DEF Shape
    <2> QED
      BY <2>1, <2>2 DEF Held, Outstanding
  <1>6. Outstanding' = Outstanding \cup {[op |-> counter, task |-> running]}
    <2> DEFINE y == [deadline |-> deadline[f], id |-> counter, waker |-> running]
    <2>1. timers' = timers \cup {y} /\ y.id = counter /\ y.waker = running
      BY DEF register_timer
    <2> HIDE DEF y
    <2> QED
      BY <2>1 DEF Outstanding
  <1>7. Held' = Held \cup {counter}
    <2>1. \A g \in Futures : handle'[g] = IF g = f THEN counter ELSE handle[g]
      BY <1>1 DEF Shape
    <2>2. \A v : v \in Held' <=> v \in Held \cup {counter}
      BY <1>3, <2>1 DEF Held
    <2> QED
      BY <2>2
  <1>8. Contract!Start(counter, running)
    BY <1>5, <1>6, <1>7 DEF Contract!Start, Outstanding, Held
  <1>9. \E op \in Futures, task \in Tasks : Contract!Start(op, task)
    BY <1>2, <1>4, <1>8 DEF Contract!Start
  <1>10. Says' = Contract!StatusFor(Outstanding')
    BY DEF StatusRight, Contract!StatusFor
  <1> QED
    BY <1>9, <1>10 DEF Contract!Next, Says, Outstanding

LEMMA PollRefines ==
    ASSUME IInv, StatusRight', NEW f \in Futures, Poll(f)
    PROVE  Contract!Next
  <1>1. f \in topoll /\ woken' = woken /\ woken \subseteq Tasks
    BY DEF Poll, tasks, IInv, Shape
  <1>2. CASE UNCHANGED <<timers, handle>>
    BY <1>1, <1>2, QuietRefines
  <1>3. CASE Arm(f) /\ handle[f] = 0
    BY <1>1, <1>3, RegisterRefines DEF Arm
  <1> QED
    BY <1>2, <1>3 DEF Poll, Arm, map

(* The drop of an armed future cancels its operation.                      *)
LEMMA DropRefines ==
    ASSUME IInv, StatusRight', NEW f \in Futures, Drop(f)
    PROVE  Contract!Next
  <1>1. Shape /\ Handled /\ Counted
    BY DEF IInv
  <1>2. handle' = [handle EXCEPT ![f] = 0] /\ woken' = woken
    BY DEF Drop, Gone, tasks
  <1>3. CASE handle[f] = 0
    <2>1. handle' = handle /\ timers' = timers
      BY <1>1, <1>2, <1>3 DEF Drop, map, Shape
    <2> QED
      BY <1>1, <1>2, <2>1, QuietRefines DEF Shape
  <1>4. CASE handle[f] # 0
    <2>1. PICK h \in 1 .. counter - 1 : h = handle[f]
      BY <1>1, <1>4 DEF Shape
    <2>2. timers' = timers \ {x \in timers : x.id = h}
      BY <1>4, <2>1 DEF Drop, cancel_timer, Found
    <2>3. h \in Futures
      BY <1>1, <2>1, TimersSize DEF Shape, Futures
    <2>4. Outstanding' = {z \in Outstanding : z.op # h}
      <3>1. \A x : [op |-> x.id, task |-> x.waker].op = x.id
        OBVIOUS
      <3>2. Outstanding' = {[op |-> x.id, task |-> x.waker] : x \in {y \in timers : y.id # h}}
        BY <2>2 DEF Outstanding
      <3> QED
        BY <3>1, <3>2 DEF Outstanding
    <2>5. h \in Held /\ Held' = Held \ {h}
      <3>1. \A g \in Futures : handle'[g] = IF g = f THEN 0 ELSE handle[g]
        BY <1>1, <1>2 DEF Shape
      <3>2. h \in Held
        BY <1>4, <2>1 DEF Held
      <3>3. \A v : v \in Held' <=> v \in Held \ {h}
        BY <1>1, <2>1, <3>1 DEF Held, Handled
      <3> QED
        BY <3>2, <3>3
    <2>6. Contract!Drop(h)
      BY <1>2, <2>4, <2>5 DEF Contract!Drop, Outstanding, Held
    <2> QED
      BY <2>3, <2>6 DEF Contract!Next, StatusRight, Says, Outstanding
  <1> QED
    BY <1>3, <1>4

(* The timer reactor is one the executor can rely on: it says Running      *)
(* exactly while a timer is in the map, and no timer leaves the map but by *)
(* waking its task or with its future, for any number of tasks, futures    *)
(* and instants.                                                           *)
THEOREM TimerImplementsReactor == Spec => ImplementsReactor
  <1>1. Init => Contract!Init
    <2> SUFFICES ASSUME Init PROVE Contract!Init
      OBVIOUS
    <2>1. Outstanding = {} /\ Held = {} /\ Says = "Stopped" /\ woken \in SUBSET Tasks
      BY DEF Init, Outstanding, Held, Says, Running
    <2> QED
      BY <2>1 DEF Contract!Init, Outstanding, Held, Says
  <1>2. IInv /\ IInv' /\ StatusRight' /\ [Next]_vars => [Contract!Next]_(Contract!vars)
    <2> SUFFICES ASSUME IInv, IInv', StatusRight', [Next]_vars
                 PROVE  Contract!Next \/ UNCHANGED Contract!vars
      OBVIOUS
    <2>1. woken' \subseteq Tasks
      BY DEF IInv, Shape
    <2>2. CASE UNCHANGED vars \/ Suspend \/ Tick
      BY <2>1, <2>2, QuietRefines DEF vars, Suspend, Tick, map
    <2>3. CASE ReactorPoll
      BY <2>3, ReactorPollRefines
    <2>4. CASE \E t \in Tasks : RunTask(t) \/ WakeOtherwise(t)
      BY <2>1, <2>4, QuietRefines DEF RunTask, WakeOtherwise, map
    <2>5. CASE \E f \in Futures : \E duration \in 0 .. MaxTime, i \in {"none", "waiting"} : New(f, duration, i)
      BY <2>1, <2>5, QuietRefines DEF New, map
    <2>6. CASE \E f \in Futures : Poll(f)
      BY <2>6, PollRefines
    <2>7. CASE \E f \in Futures : InnerCompletes(f)
      BY <2>1, <2>7, QuietRefines DEF InnerCompletes, map
    <2>8. CASE \E f \in Futures : Drop(f)
      BY <2>8, DropRefines
    <2>9. CASE \E f \in Futures, t \in Tasks : Move(f, t)
      BY <2>1, <2>9, QuietRefines DEF Move, map
    <2> QED
      BY <2>2, <2>3, <2>4, <2>5, <2>6, <2>7, <2>8, <2>9 DEF Next
  <1> QED
    BY <1>1, <1>2, InitIInv, NextIInv, StatusIsRight, PTL
       DEF Spec, ImplementsReactor, Contract!Spec
=============================================================================
