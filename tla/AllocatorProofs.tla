-------------------------- MODULE AllocatorProofs ---------------------------
(***************************************************************************)
(* For any number of clients and buffers: a buffer has one owner and none  *)
(* is lost, whatever is cancelled or polled again; and where nothing is,   *)
(* enough clients are on their way to take the free buffers.               *)
(***************************************************************************)
EXTENDS Allocator, SequenceTheorems, FiniteSetTheorems, TLAPS

Shape ==
    /\ buffers \in Seq(Buffers)
    /\ acquire_queue \in Seq(States)
    /\ waker \in [States -> Clients \cup {None}]
    /\ pending \in [Clients -> States \cup {None}]
    /\ held \in [Clients -> SUBSET Buffers]
    /\ woken \subseteq Clients
    /\ dropped \in BOOLEAN /\ disturbed \in BOOLEAN

IInv == Shape /\ OneOwner /\ NoneLost

(* What the last element and the rest of a non-empty sequence are.         *)
LEMMA FrontAndLast ==
    ASSUME NEW S, NEW s \in Seq(S), s # <<>>
    PROVE  /\ Len(s) \in Nat \ {0}
           /\ s[Len(s)] \in S
           /\ SubSeq(s, 1, Len(s) - 1) \in Seq(S)
           /\ Len(SubSeq(s, 1, Len(s) - 1)) = Len(s) - 1
           /\ \A i \in 1 .. Len(s) - 1 : SubSeq(s, 1, Len(s) - 1)[i] = s[i]
  <1>1. Len(s) \in Nat \ {0}
    BY EmptySeq
  <1> DEFINE n == Len(s) - 1
  <1>2. n \in 0 .. Len(s)
    BY <1>1
  <1> HIDE DEF n
  <1>3. /\ SubSeq(s, 1, n) \in Seq(S) /\ Len(SubSeq(s, 1, n)) = n
        /\ \A i \in 1 .. n : SubSeq(s, 1, n)[i] = s[i]
    BY <1>2
  <1> QED
    BY <1>1, <1>3 DEF n

(* acquire_inner moves one buffer from the pool to the client.             *)
LEMMA TakeOne ==
    ASSUME NEW c \in Clients, IInv, acquire_inner(c), dropped' = dropped
    PROVE  /\ buffers' \in Seq(Buffers) /\ held' \in [Clients -> SUBSET Buffers]
           /\ OneOwner' /\ NoneLost'
           /\ Len(buffers') = Len(buffers) - 1 /\ Len(buffers) \in Nat \ {0}
  <1> DEFINE b == buffers[Len(buffers)]
  <1>1. /\ buffers \in Seq(Buffers) /\ buffers # <<>>
        /\ held' = [held EXCEPT ![c] = @ \cup {b}]
        /\ buffers' = SubSeq(buffers, 1, Len(buffers) - 1)
        /\ held \in [Clients -> SUBSET Buffers]
    BY DEF acquire_inner, Rest, IInv, Shape
  <1>2. /\ Len(buffers) \in Nat \ {0} /\ b \in Buffers /\ buffers' \in Seq(Buffers)
        /\ Len(buffers') = Len(buffers) - 1
        /\ \A i \in 1 .. Len(buffers) - 1 : buffers'[i] = buffers[i]
    BY <1>1, FrontAndLast
  <1>3. /\ Len(buffers) \in 1 .. Len(buffers)
        /\ \A i \in 1 .. Len(buffers) - 1 : i \in 1 .. Len(buffers) /\ i # Len(buffers)
        /\ \A i \in 1 .. Len(buffers) : i \in 1 .. Len(buffers) - 1 \/ i = Len(buffers)
    BY <1>2
  <1>4. b \in Free /\ b \notin Free' /\ Free = Free' \cup {b}
    <2>1. Free' = {buffers[i] : i \in 1 .. Len(buffers) - 1}
      BY <1>2 DEF Free
    <2>2. b \in Free
      BY <1>3 DEF Free
    <2>3. b \notin Free'
      BY <1>3, <2>1 DEF IInv, OneOwner
    <2>4. \A x : x \in Free <=> x \in Free' \/ x = b
      BY <1>3, <2>1 DEF Free
    <2> QED
      BY <2>2, <2>3, <2>4
  <1> HIDE DEF b
  <1>5. \A i, j \in 1 .. Len(buffers') : buffers'[i] = buffers'[j] => i = j
    BY <1>2, <1>3 DEF IInv, OneOwner
  <1>6. \A d \in Clients : held'[d] = IF d = c THEN held[c] \cup {b} ELSE held[d]
    BY <1>1
  <1>7. OneOwner'
    BY <1>1, <1>4, <1>5, <1>6 DEF OneOwner, IInv
  <1>8. NoneLost'
    BY <1>1, <1>2, <1>4, <1>6 DEF NoneLost, IInv
  <1> QED
    BY <1>1, <1>2, <1>6, <1>7, <1>8

(* Every poll of a LazyAcquire keeps the invariant.                        *)
LEMMA PollKeeps ==
    ASSUME NEW c \in Clients, NEW s \in States, IInv, LazyAcquirePoll(c, s), dropped' = dropped
    PROVE  /\ buffers' \in Seq(Buffers) /\ held' \in [Clients -> SUBSET Buffers]
           /\ acquire_queue' \in Seq(States)
           /\ waker' \in [States -> Clients \cup {None}]
           /\ pending' \in [Clients -> States \cup {None}]
           /\ OneOwner' /\ NoneLost'
  <1>1. CASE acquire_inner(c) /\ pending' = [pending EXCEPT ![c] = None]
             /\ UNCHANGED <<acquire_queue, waker>>
    BY <1>1, TakeOne DEF IInv, Shape
  <1>2. CASE /\ waker' = [waker EXCEPT ![s] = c]
             /\ acquire_queue' = Append(acquire_queue, s)
             /\ pending' = [pending EXCEPT ![c] = s]
             /\ UNCHANGED <<buffers, held>>
    <2>1. OneOwner' /\ NoneLost'
      BY <1>2 DEF IInv, OneOwner, NoneLost, Free
    <2>2. /\ buffers \in Seq(Buffers) /\ acquire_queue \in Seq(States)
          /\ waker \in [States -> Clients \cup {None}]
          /\ pending \in [Clients -> States \cup {None}]
          /\ held \in [Clients -> SUBSET Buffers]
      BY DEF IInv, Shape
    <2>3. acquire_queue' \in Seq(States)
      BY <1>2, <2>2
    <2> QED
      BY <1>2, <2>1, <2>2, <2>3
  <1> QED
    BY <1>1, <1>2 DEF LazyAcquirePoll

(* A dropped FixedBuffer goes back to the pool, once.                      *)
LEMMA ReturnOne ==
    ASSUME NEW c \in Clients, NEW b \in Buffers, IInv, DropBuffer(c, b)
    PROVE  IInv' /\ Len(buffers') = Len(buffers) + 1
  <1>1. /\ b \in held[c] /\ buffers' = Append(buffers, b)
        /\ held' = [held EXCEPT ![c] = @ \ {b}]
        /\ UNCHANGED <<pending, dropped, disturbed>>
    BY DEF DropBuffer, Returned
  <1>2. /\ buffers \in Seq(Buffers) /\ buffers' \in Seq(Buffers)
        /\ Len(buffers') = Len(buffers) + 1 /\ buffers'[Len(buffers) + 1] = b
        /\ \A i \in 1 .. Len(buffers) : buffers'[i] = buffers[i]
        /\ Len(buffers) \in Nat
    BY <1>1 DEF IInv, Shape
  <1>3. /\ \A i \in 1 .. Len(buffers) + 1 : i \in 1 .. Len(buffers) \/ i = Len(buffers) + 1
        /\ \A i \in 1 .. Len(buffers) : i \in 1 .. Len(buffers) + 1
        /\ Len(buffers) + 1 \in 1 .. Len(buffers) + 1
    BY <1>2
  <1>4. Free' = Free \cup {b} /\ b \notin Free
    BY <1>1, <1>2, <1>3 DEF Free, IInv, OneOwner
  <1>5. \A d \in Clients : held'[d] = IF d = c THEN held[c] \ {b} ELSE held[d]
    BY <1>1 DEF IInv, Shape
  <1>6. \A d \in Clients : b \in held[d] => d = c
    BY <1>1 DEF IInv, OneOwner
  <1>7. \A i, j \in 1 .. Len(buffers') : buffers'[i] = buffers'[j] => i = j
    BY <1>2, <1>3, <1>4 DEF IInv, OneOwner, Free
  <1>8. OneOwner'
    BY <1>4, <1>5, <1>6, <1>7 DEF OneOwner, IInv
  <1>9. NoneLost'
    BY <1>1, <1>4, <1>5, <1>6 DEF NoneLost, IInv
  <1>10. /\ acquire_queue' \in Seq(States)
         /\ waker' \in [States -> Clients \cup {None}]
         /\ woken' \subseteq Clients
    <2>1. CASE acquire_queue = <<>>
      BY <2>1 DEF DropBuffer, WakeFirst, IInv, Shape
    <2>2. CASE acquire_queue # <<>>
      <3>1. /\ acquire_queue \in Seq(States) /\ waker \in [States -> Clients \cup {None}]
            /\ woken \subseteq Clients
        BY DEF IInv, Shape
      <3>2. Head(acquire_queue) \in States /\ Tail(acquire_queue) \in Seq(States)
        BY <2>2, <3>1, HeadTailProperties
      <3>3. waker[Head(acquire_queue)] \in Clients \cup {None}
        BY <3>1, <3>2
      <3>4. /\ acquire_queue' = Tail(acquire_queue)
            /\ waker' = [waker EXCEPT ![Head(acquire_queue)] = None]
            /\ woken' = woken \cup ({waker[Head(acquire_queue)]} \ {None})
        BY <2>2 DEF DropBuffer, WakeFirst
      <3> QED
        BY <3>1, <3>2, <3>3, <3>4
    <2> QED
      BY <2>1, <2>2
  <1>11. held' \in [Clients -> SUBSET Buffers] /\ pending' = pending /\ dropped' = dropped
         /\ disturbed' = disturbed
    BY <1>1 DEF IInv, Shape
  <1> QED
    BY <1>2, <1>8, <1>9, <1>10, <1>11 DEF IInv, Shape

(* IInv is inductive.                                                      *)
LEMMA Invariance == Spec => []IInv
  <1>1. Init => IInv
    <2> SUFFICES ASSUME Init PROVE IInv
      OBVIOUS
    <2> USE AllocatorAssumption DEF Init
    <2>1. buffers \in [1 .. PoolSize -> Buffers]
      BY DEF Buffers
    <2>2. buffers \in Seq(Buffers) /\ Len(buffers) = PoolSize
      BY <2>1, SeqDef, LenProperties
    <2>3. Shape
      <3>1. acquire_queue \in Seq(States)
        BY EmptySeq
      <3>3. woken \subseteq Clients /\ dropped \in BOOLEAN
        OBVIOUS
      <3>2. /\ waker \in [States -> Clients \cup {None}]
            /\ pending \in [Clients -> States \cup {None}]
            /\ held \in [Clients -> SUBSET Buffers]
        OBVIOUS
      <3> QED
        BY <2>2, <3>1, <3>2, <3>3 DEF Shape
    <2>4. Free = Buffers
      <3>1. \A b \in Buffers : b + 1 \in 1 .. PoolSize /\ buffers[b + 1] = b
        BY DEF Buffers
      <3> QED
        BY <2>1, <2>2, <3>1 DEF Free
    <2>5. OneOwner
      BY <2>2 DEF OneOwner
    <2>6. NoneLost
      BY <2>4 DEF NoneLost
    <2> QED
      BY <2>3, <2>5, <2>6 DEF IInv
  <1>2. IInv /\ [Next]_vars => IInv'
    <2> SUFFICES ASSUME IInv, [Next]_vars PROVE IInv'
      OBVIOUS
    <2>1. ASSUME NEW c \in Clients, NEW s \in States, Acquire(c, s) PROVE IInv'
      BY <2>1, PollKeeps DEF Acquire, IInv, Shape
    <2>2. ASSUME NEW c \in Clients, TryAcquire(c) PROVE IInv'
      BY <2>2, TakeOne DEF TryAcquire, IInv, Shape
    <2>3. ASSUME NEW c \in Clients, PollWoken(c) PROVE IInv'
      <3>1. CASE pending[c] # None
        <4>1. pending[c] \in States /\ LazyAcquirePoll(c, pending[c])
          BY <2>3, <3>1 DEF PollWoken, IInv, Shape
        <4> QED
          BY <2>3, <4>1, PollKeeps DEF PollWoken, IInv, Shape
      <3>2. CASE pending[c] = None
        BY <2>3, <3>2 DEF PollWoken, IInv, Shape, OneOwner, NoneLost, Free
      <3> QED
        BY <3>1, <3>2
    <2>4. ASSUME NEW c \in Clients, Repoll(c) PROVE IInv'
      <3>1. pending[c] \in States /\ LazyAcquirePoll(c, pending[c])
        BY <2>4 DEF Repoll, IInv, Shape
      <3> QED
        BY <2>4, <3>1, PollKeeps DEF Repoll, IInv, Shape
    <2>5. ASSUME NEW c \in Clients, Cancel(c) PROVE IInv'
      BY <2>5 DEF Cancel, IInv, Shape, OneOwner, NoneLost, Free
    <2>6. ASSUME NEW c \in Clients, NEW b \in Buffers, DropBuffer(c, b) PROVE IInv'
      BY <2>6, ReturnOne
    <2>7. CASE DropAllocator
      <3>1. /\ buffers' = <<>> /\ held' = held /\ dropped'
            /\ \A c \in Clients : held[c] = {}
        BY <2>7 DEF DropAllocator
      <3>2. Shape'
        BY <2>7 DEF DropAllocator, IInv, Shape
      <3>3. OneOwner'
        BY <3>1 DEF OneOwner
      <3> QED
        BY <3>1, <3>2, <3>3 DEF IInv, NoneLost
    <2>8. CASE UNCHANGED vars
      BY <2>8 DEF vars, IInv, Shape, OneOwner, NoneLost, Free
    <2> QED
      BY <2>1, <2>2, <2>3, <2>4, <2>5, <2>6, <2>7, <2>8 DEF Next
  <1> QED
    BY <1>1, <1>2, PTL DEF Spec

-----------------------------------------------------------------------------
(* A buffer is free once or owned by one client (acquire_inner pops what   *)
(* it hands out, Drop for FixedBuffer pushes what its owner gives up).     *)
THEOREM OwnersUnique == Spec => []OneOwner
  <1>1. IInv => OneOwner
    BY DEF IInv
  <1> QED
    BY <1>1, Invariance, PTL

(* Every buffer is free or owned: cancelled and repeated polls lose none.  *)
THEOREM NothingLost == Spec => []NoneLost
  <1>1. IInv => NoneLost
    BY DEF IInv
  <1> QED
    BY <1>1, Invariance, PTL

(* The vector of free buffers never outgrows the pool: its entries are     *)
(* distinct buffers.                                                       *)
THEOREM TypeCorrect == Spec => []TypeOK
  <1>1. IInv => TypeOK
    <2> SUFFICES ASSUME IInv PROVE Len(buffers) <= PoolSize
      BY DEF IInv, Shape, TypeOK
    <2>1. /\ buffers \in [1 .. Len(buffers) -> Buffers] /\ Len(buffers) \in Nat
          /\ \A i, j \in 1 .. Len(buffers) : buffers[i] = buffers[j] => i = j
      BY DEF IInv, Shape, OneOwner
    <2>2. buffers \in Injection(1 .. Len(buffers), Buffers)
      BY <2>1 DEF Injection, IsInjective
    <2>3. IsFiniteSet(Buffers) /\ Cardinality(Buffers) = PoolSize
      BY AllocatorAssumption, FS_Interval DEF Buffers
    <2>4. Cardinality(1 .. Len(buffers)) = Len(buffers)
      <3>1. \A n \in Nat : Cardinality(1 .. n) = n
        BY FS_Interval
      <3> QED
        BY <2>1, <3>1
    <2>5. Cardinality(1 .. Len(buffers)) <= Cardinality(Buffers)
      BY <2>2, <2>3, FS_Injection
    <2> QED
      BY <2>3, <2>4, <2>5
  <1> QED
    BY <1>1, Invariance, PTL

-----------------------------------------------------------------------------
(* Without cancelled and repeated polls: every wake-up goes to a client    *)
(* that waits and was not woken yet.  The queue then holds exactly the     *)
(* states of those clients, once each.                                     *)
Elems(q) == {q[i] : i \in 1 .. Len(q)}

Distinct(q) == \A i, j \in 1 .. Len(q) : q[i] = q[j] => i = j

WInv ==
    /\ Distinct(acquire_queue)
    /\ \A s \in Elems(acquire_queue) :
          waker[s] \in Clients \ woken /\ pending[waker[s]] = s
    /\ \A c \in Waiting \ woken : pending[c] \in Elems(acquire_queue)
    /\ woken \subseteq Waiting
    /\ \A c, d \in Waiting : pending[c] = pending[d] => c = d
    /\ acquire_queue # <<>> => Len(buffers) <= Cardinality(woken)

(* What Append and Tail do to the elements of a queue without duplicates.  *)
LEMMA AppendElems ==
    ASSUME NEW S, NEW q \in Seq(S), NEW s \in S, Distinct(q), s \notin Elems(q)
    PROVE  Elems(Append(q, s)) = Elems(q) \cup {s} /\ Distinct(Append(q, s))
  <1> DEFINE r == Append(q, s)
  <1>1. /\ Len(r) = Len(q) + 1 /\ Len(q) \in Nat /\ r[Len(q) + 1] = s
        /\ \A i \in 1 .. Len(q) : r[i] = q[i]
    OBVIOUS
  <1> HIDE DEF r
  <1>2. /\ \A i \in 1 .. Len(r) : i \in 1 .. Len(q) \/ i = Len(q) + 1
        /\ \A i \in 1 .. Len(q) : i \in 1 .. Len(r)
        /\ Len(q) + 1 \in 1 .. Len(r)
    BY <1>1
  <1>3. \A x : x \in Elems(r) <=> x \in Elems(q) \/ x = s
    BY <1>1, <1>2 DEF Elems
  <1>4. Distinct(r)
    BY <1>1, <1>2 DEF Distinct, Elems
  <1> QED
    BY <1>3, <1>4 DEF r

(* Tail removes exactly the head.                                          *)
LEMMA TailElems ==
    ASSUME NEW S, NEW q \in Seq(S), q # <<>>, Distinct(q)
    PROVE  /\ Elems(Tail(q)) = Elems(q) \ {Head(q)} /\ Distinct(Tail(q))
           /\ Head(q) \in Elems(q)
  <1> DEFINE r == Tail(q)
             h == Head(q)
  <1>1. Len(q) \in Nat \ {0}
    BY EmptySeq
  <1>2. /\ Len(r) = Len(q) - 1 /\ h = q[1]
        /\ \A i \in 1 .. Len(r) : r[i] = q[i + 1]
    BY <1>1, HeadTailProperties
  <1> HIDE DEF r, h
  <1>3. /\ \A i \in 1 .. Len(r) : i + 1 \in 1 .. Len(q) /\ i + 1 # 1
        /\ \A i \in 1 .. Len(q) : i # 1 => i - 1 \in 1 .. Len(r) /\ (i - 1) + 1 = i
        /\ \A i, j \in 1 .. Len(r) : i + 1 = j + 1 => i = j
        /\ 1 \in 1 .. Len(q)
    BY <1>1, <1>2
  <1>4. h \in Elems(q)
    BY <1>2, <1>3 DEF Elems
  <1>5. \A x \in Elems(r) : x \in Elems(q) /\ x # h
    BY <1>2, <1>3 DEF Elems, Distinct
  <1>6. \A x \in Elems(q) : x # h => x \in Elems(r)
    <2>1. \A i \in 1 .. Len(q) : i # 1 => r[i - 1] = q[i]
      BY <1>2, <1>3
    <2> QED
      BY <1>2, <1>3, <2>1 DEF Elems
  <1>7. Distinct(r)
    BY <1>2, <1>3 DEF Distinct
  <1> QED
    BY <1>4, <1>5, <1>6, <1>7 DEF r, h

(* Cardinalities of woken are numbers.                                     *)
LEMMA WokenFinite ==
    ASSUME Shape
    PROVE  IsFiniteSet(woken) /\ Cardinality(woken) \in Nat
  BY AllocatorAssumption, FS_Subset, FS_CardinalityType DEF Shape

(* A client gets a buffer: if it had been woken, the wake-up is used up.   *)
LEMMA TakeKeepsWInv ==
    ASSUME IInv, WInv, NEW c \in Clients, acquire_inner(c),
           UNCHANGED <<acquire_queue, waker>>, pending' = [pending EXCEPT ![c] = None],
           woken' = woken \ {c}, pending[c] # None => c \in woken
    PROVE  WInv'
  <1>1. /\ pending \in [Clients -> States \cup {None}] /\ woken \subseteq Clients
        /\ \A d \in Clients : pending'[d] = IF d = c THEN None ELSE pending[d]
    BY DEF IInv, Shape
  <1>2. Waiting' = Waiting \ {c}
    BY <1>1 DEF Waiting
  <1>3. \A s \in Elems(acquire_queue') :
           waker'[s] \in Clients \ woken' /\ pending'[waker'[s]] = s
    <2> SUFFICES ASSUME NEW s \in Elems(acquire_queue)
                 PROVE  waker[s] \in Clients \ woken' /\ pending'[waker[s]] = s
      OBVIOUS
    <2>1. s \in States
      BY DEF Elems, IInv, Shape
    <2>2. waker[s] # c
      BY <1>1, <2>1, AllocatorAssumption DEF WInv
    <2> QED
      BY <1>1, <2>2 DEF WInv
  <1>4. \A d \in Waiting' \ woken' : pending'[d] \in Elems(acquire_queue')
    BY <1>1, <1>2 DEF WInv, Waiting
  <1>5. woken' \subseteq Waiting'
    BY <1>2 DEF WInv
  <1>6. \A d, e \in Waiting' : pending'[d] = pending'[e] => d = e
    BY <1>1, <1>2 DEF WInv, Waiting
  <1>7. acquire_queue' # <<>> => Len(buffers') <= Cardinality(woken')
    <2>1. Len(buffers') = Len(buffers) - 1 /\ Len(buffers) \in Nat \ {0}
      BY FrontAndLast DEF acquire_inner, Rest, IInv, Shape
    <2>2. /\ Cardinality(woken) \in Nat
          /\ Cardinality(woken') \in {Cardinality(woken), Cardinality(woken) - 1}
      BY WokenFinite, FS_RemoveElement DEF IInv
    <2> QED
      BY <2>1, <2>2 DEF WInv
  <1> QED
    BY <1>3, <1>4, <1>5, <1>6, <1>7 DEF WInv

(* A client finds the pool empty and queues a state nobody else uses.      *)
LEMMA QueueKeepsWInv ==
    ASSUME IInv, WInv, NEW c \in Clients, NEW s \in States, buffers = <<>>,
           waker' = [waker EXCEPT ![s] = c],
           acquire_queue' = Append(acquire_queue, s),
           pending' = [pending EXCEPT ![c] = s],
           UNCHANGED buffers, woken' = woken \ {c},
           pending[c] = None \/ (c \in woken /\ pending[c] = s),
           s \notin Elems(acquire_queue), \A d \in Clients \ {c} : pending[d] # s
    PROVE  WInv'
  <1>1. /\ pending \in [Clients -> States \cup {None}] /\ woken \subseteq Clients
        /\ waker \in [States -> Clients \cup {None}] /\ acquire_queue \in Seq(States)
        /\ \A d \in Clients : pending'[d] = IF d = c THEN s ELSE pending[d]
        /\ \A t \in States : waker'[t] = IF t = s THEN c ELSE waker[t]
    BY DEF IInv, Shape
  <1>2. Waiting' = Waiting \cup {c}
    BY <1>1, AllocatorAssumption DEF Waiting
  <1>3. Elems(acquire_queue') = Elems(acquire_queue) \cup {s} /\ Distinct(acquire_queue')
    BY <1>1, AppendElems DEF WInv
  <1>4. \A t \in Elems(acquire_queue') :
           waker'[t] \in Clients \ woken' /\ pending'[waker'[t]] = t
    <2> SUFFICES ASSUME NEW t \in Elems(acquire_queue)
                 PROVE  waker'[t] \in Clients \ woken' /\ pending'[waker'[t]] = t
      BY <1>1, <1>3
    <2>1. t \in States /\ t # s
      BY <1>1 DEF Elems
    <2>2. waker[t] # c
      BY <1>1, <2>1, AllocatorAssumption DEF WInv
    <2> QED
      BY <1>1, <2>1, <2>2 DEF WInv
  <1>5. \A d \in Waiting' \ woken' : pending'[d] \in Elems(acquire_queue')
    BY <1>1, <1>2, <1>3 DEF WInv, Waiting
  <1>6. woken' \subseteq Waiting'
    BY <1>2 DEF WInv
  <1>7. \A d, e \in Waiting' : pending'[d] = pending'[e] => d = e
    BY <1>1, <1>2 DEF WInv, Waiting
  <1>8. Len(buffers') <= Cardinality(woken')
    <2>1. Len(buffers') = 0
      OBVIOUS
    <2>2. Cardinality(woken') \in Nat
      BY WokenFinite, FS_RemoveElement, FS_CardinalityType DEF IInv
    <2> QED
      BY <2>1, <2>2
  <1> QED
    BY <1>3, <1>4, <1>5, <1>6, <1>7, <1>8 DEF WInv

(* A dropped buffer's wake-up goes to a waiting client not woken before.   *)
LEMMA WakeKeepsWInv ==
    ASSUME IInv, WInv, NEW c \in Clients, NEW b \in Buffers, DropBuffer(c, b)
    PROVE  WInv'
  <1>1. CASE acquire_queue = <<>>
    BY <1>1 DEF DropBuffer, WakeFirst, WInv, Waiting
  <1>2. CASE acquire_queue # <<>>
    <2> DEFINE s == Head(acquire_queue)
               d == waker[s]
    <2>1. /\ pending \in [Clients -> States \cup {None}] /\ woken \subseteq Clients
          /\ waker \in [States -> Clients \cup {None}] /\ acquire_queue \in Seq(States)
      BY DEF IInv, Shape
    <2>2. /\ Elems(Tail(acquire_queue)) = Elems(acquire_queue) \ {s}
          /\ Distinct(Tail(acquire_queue)) /\ s \in Elems(acquire_queue)
      BY <1>2, <2>1, TailElems DEF WInv
    <2>3. /\ acquire_queue' = Tail(acquire_queue)
          /\ waker' = [waker EXCEPT ![s] = None]
          /\ woken' = woken \cup ({d} \ {None})
          /\ pending' = pending
      BY <1>2 DEF DropBuffer, WakeFirst
    <2>4. d \in Clients /\ d \notin woken /\ pending[d] = s /\ s \in States
      BY <2>1, <2>2 DEF WInv, Elems
    <2> HIDE DEF s, d
    <2>5. woken' = woken \cup {d}
      BY <2>3, <2>4, AllocatorAssumption
    <2>6. d \in Waiting /\ Waiting' = Waiting
      BY <2>3, <2>4, AllocatorAssumption DEF Waiting
    <2>7. \A t \in Elems(acquire_queue') :
             waker'[t] \in Clients \ woken' /\ pending'[waker'[t]] = t
      <3> SUFFICES ASSUME NEW t \in Elems(acquire_queue), t # s
                   PROVE  waker'[t] \in Clients \ woken' /\ pending'[waker'[t]] = t
        BY <2>2, <2>3
      <3>1. t \in States
        BY <2>1 DEF Elems
      <3> QED
        BY <2>1, <2>3, <2>4, <2>5, <3>1 DEF WInv
    <2>8. \A e \in Waiting' \ woken' : pending'[e] \in Elems(acquire_queue')
      BY <2>2, <2>3, <2>4, <2>5, <2>6 DEF WInv
    <2>9. Len(buffers') <= Cardinality(woken')
      <3>1. Len(buffers') = Len(buffers) + 1 /\ Len(buffers) \in Nat
        BY ReturnOne DEF IInv, Shape
      <3>2. Cardinality(woken) \in Nat /\ Cardinality(woken') = Cardinality(woken) + 1
        BY <2>4, <2>5, WokenFinite, FS_AddElement DEF IInv
      <3>3. Len(buffers) <= Cardinality(woken)
        BY <1>2 DEF WInv
      <3> QED
        BY <3>1, <3>2, <3>3
    <2> QED
      BY <2>2, <2>3, <2>5, <2>6, <2>7, <2>8, <2>9 DEF WInv
  <1> QED
    BY <1>1, <1>2

(* As long as LazyAcquires are neither dropped while pending nor polled    *)
(* without a wake-up, Drop for FixedBuffer wakes enough clients: while one *)
(* waits unaware, no more buffers are free than clients are on their way.  *)
THEOREM WakeupsSuffice == Spec => []EnoughWoken
  <1> DEFINE JInv == disturbed \in BOOLEAN /\ (~disturbed => WInv)
  <1>1. Init => JInv
    <2> SUFFICES ASSUME Init PROVE WInv
      BY DEF Init
    <2>1. Elems(acquire_queue) = {} /\ Distinct(acquire_queue) /\ Waiting = {}
      BY DEF Init, Elems, Distinct, Waiting
    <2> QED
      BY <2>1 DEF WInv, Init
  <1>2. IInv /\ JInv /\ [Next]_vars => JInv'
    <2> SUFFICES ASSUME IInv, JInv, [Next]_vars PROVE JInv'
      OBVIOUS
    <2>a. disturbed' \in BOOLEAN /\ (~disturbed' => ~disturbed)
      BY DEF Next, Acquire, TryAcquire, PollWoken, Repoll, Cancel, DropBuffer,
             DropAllocator, vars
    <2> SUFFICES ASSUME ~disturbed' PROVE WInv'
      BY <2>a
    <2>b. WInv
      BY <2>a
    <2>0. /\ pending \in [Clients -> States \cup {None}]
          /\ \A c \in Clients : c \notin woken => woken \ {c} = woken
          /\ \A c \in Clients : pending[c] = None =>
                c \notin woken /\ pending = [pending EXCEPT ![c] = None]
      BY <2>b DEF IInv, Shape, WInv, Waiting
    <2>1. ASSUME NEW c \in Clients, NEW s \in States, Acquire(c, s) PROVE WInv'
      <3>1. pending[c] = None /\ woken' = woken \ {c} /\ LazyAcquirePoll(c, s)
        BY <2>0, <2>1 DEF Acquire
      <3>2. s \notin Elems(acquire_queue) /\ \A d \in Clients : pending[d] # s
        BY <2>1 DEF Acquire, InUse, Elems
      <3>3. CASE /\ acquire_inner(c) /\ pending' = [pending EXCEPT ![c] = None]
                 /\ UNCHANGED <<acquire_queue, waker>>
        BY <3>1, <3>3, <2>b, TakeKeepsWInv
      <3>4. CASE /\ buffers = <<>>
                 /\ waker' = [waker EXCEPT ![s] = c]
                 /\ acquire_queue' = Append(acquire_queue, s)
                 /\ pending' = [pending EXCEPT ![c] = s]
                 /\ UNCHANGED <<buffers, held>>
        BY <3>1, <3>2, <3>4, <2>b, QueueKeepsWInv
      <3> QED
        BY <3>1, <3>3, <3>4 DEF LazyAcquirePoll
    <2>2. ASSUME NEW c \in Clients, TryAcquire(c) PROVE WInv'
      BY <2>0, <2>2, <2>b, TakeKeepsWInv DEF TryAcquire
    <2>3. ASSUME NEW c \in Clients, PollWoken(c) PROVE WInv'
      <3>1. c \in woken /\ pending[c] # None /\ pending[c] \in States
        BY <2>0, <2>3 DEF PollWoken
      <3> DEFINE s == pending[c]
      <3>2. LazyAcquirePoll(c, s) /\ woken' = woken \ {c}
        BY <2>3, <3>1 DEF PollWoken
      <3>3. s \notin Elems(acquire_queue) /\ \A d \in Clients \ {c} : pending[d] # s
        BY <2>b, <3>1 DEF WInv, Waiting
      <3> HIDE DEF s
      <3>4. CASE /\ acquire_inner(c) /\ pending' = [pending EXCEPT ![c] = None]
                 /\ UNCHANGED <<acquire_queue, waker>>
        BY <3>1, <3>2, <3>4, <2>b, TakeKeepsWInv
      <3>5. CASE /\ buffers = <<>>
                 /\ waker' = [waker EXCEPT ![s] = c]
                 /\ acquire_queue' = Append(acquire_queue, s)
                 /\ pending' = [pending EXCEPT ![c] = s]
                 /\ UNCHANGED <<buffers, held>>
        BY <3>1, <3>2, <3>3, <3>5, <2>b, QueueKeepsWInv DEF s
      <3> QED
        BY <3>2, <3>4, <3>5 DEF LazyAcquirePoll
    <2>4. ASSUME NEW c \in Clients, Repoll(c) \/ Cancel(c) PROVE WInv'
      BY <2>4 DEF Repoll, Cancel   \* these set disturbed
    <2>5. ASSUME NEW c \in Clients, NEW b \in Buffers, DropBuffer(c, b) PROVE WInv'
      BY <2>5, <2>b, WakeKeepsWInv
    <2>6. CASE DropAllocator
      <3>1. Len(buffers') = 0 /\ Cardinality(woken) \in Nat
        BY <2>6, WokenFinite DEF DropAllocator, IInv
      <3> QED
        BY <2>b, <2>6, <3>1 DEF DropAllocator, WInv, Waiting
    <2>7. CASE UNCHANGED vars
      BY <2>b, <2>7 DEF vars, WInv, Waiting
    <2> QED
      BY <2>1, <2>2, <2>3, <2>4, <2>5, <2>6, <2>7 DEF Next
  <1>3. JInv => EnoughWoken
    <2> SUFFICES ASSUME WInv, NEW c \in Waiting, c \notin woken
                 PROVE  Len(buffers) <= Cardinality(Waiting \cap woken)
      BY DEF EnoughWoken
    <2>1. Waiting \cap woken = woken
      BY DEF WInv
    <2>2. acquire_queue # <<>>
      BY DEF WInv, Elems
    <2> QED
      BY <2>1, <2>2 DEF WInv
  <1> QED
    BY <1>1, <1>2, <1>3, Invariance, PTL DEF Spec
=============================================================================
