---------------------------- MODULE BackendProofs ---------------------------
(***************************************************************************)
(* The parts of the UCX backend, one after the other in this module.       *)
(*                                                                         *)
(* The AM router, for any number of keys, futures, tasks and messages: the *)
(* pointer in a slot is valid whenever the dispatcher writes through it,   *)
(* no receive is forgotten, and messages and receives of a key are paired  *)
(* in order.                                                               *)
(*                                                                         *)
(* The bring-up: for any processes, crashes and launches, the tables that  *)
(* exchange_addresses returns fit together.                                *)
(*                                                                         *)
(* The ring allreduces, on any number of ranks: every call that returns    *)
(* has reduced every rank's input of that call, once each.  And a scatter  *)
(* that is called once.                                                    *)
(***************************************************************************)
EXTENDS AmRouter, Bootstrap, Collective, Integers, TLAPS, FiniteSetTheorems,
        WellFoundedInduction

SlotType == {Vacant} \cup [is : {"pending"}, future : Futures, waker : Tasks]
                     \cup [is : {"early"}, bytes : 1 .. MaxMsgs]

(* TypeOK without its last conjunct, which is ReadyGot.                    *)
Shape ==
    /\ sent \in [Keys -> 0 .. MaxMsgs]
    /\ posted \in [Keys -> Nat]
    /\ stream \in Seq(Keys \X (1 .. MaxMsgs))
    /\ slots \in [Keys -> SlotType]
    /\ life \in [Futures -> {"unborn", "live", "ready", "dropped"}]
    /\ of \in [Futures -> Keys \cup {None}]
    /\ nth \in [Futures -> Nat]
    /\ registered \in [Futures -> BOOLEAN]
    /\ done \in [Futures -> BOOLEAN]
    /\ got \in [Futures -> 0 .. MaxMsgs]
    /\ owner \in [Futures -> Tasks \cup {None}]
    /\ woken \subseteq Futures \X Tasks
    /\ strayed \subseteq Keys

ReadyGot == \A f \in Futures : life[f] = "ready" => got[f] # 0

Undone(f) == Live(f) /\ ~done[f]

(* A slot and the future it points to know of each other, and a key has    *)
(* one live future at most.                                                *)
Linked ==
    /\ \A f \in Futures : life[f] = "unborn" => ~registered[f] /\ got[f] = 0
    /\ \A f \in Futures : life[f] # "unborn" => of[f] \in Keys /\ owner[f] \in Tasks
    /\ \A f, g \in Futures : Live(f) /\ Live(g) /\ of[f] = of[g] => f = g
    /\ \A f \in Futures : Undone(f) /\ registered[f] =>
           slots[of[f]].is = "pending" /\ slots[of[f]].future = f
    /\ \A f \in Futures : done[f] <=> got[f] # 0


IInv == Shape /\ ReadyGot /\ Linked /\ TargetValid /\ WakersCurrent

(* How many messages of a key have left the stream, read off the receives  *)
(* and the slot.                                                           *)
Taken(k) == IF \E f \in Futures : Undone(f) /\ of[f] = k THEN posted[k] - 1 ELSE posted[k]
Drained(k) == Taken(k) + IF slots[k].is = "early" THEN 1 ELSE 0

(* The messages of key k in s are those from d + 1 to m, in order.         *)
Numbered(s, k, d, m) ==
    /\ \A i \in 1 .. Len(s) : s[i][1] = k => d < s[i][2] /\ s[i][2] <= m
    /\ \A i, j \in 1 .. Len(s) : i < j /\ s[i][1] = k /\ s[j][1] = k => s[i][2] < s[j][2]
    /\ \A n \in 1 .. m : d < n => \E i \in 1 .. Len(s) : s[i] = <<k, n>>

(* The stream holds what was sent and did not leave it; the message in the *)
(* slot is the last that left it, and the receive that waits is the last   *)
(* that was posted.                                                        *)
Order(k) ==
    /\ Drained(k) \in 0 .. sent[k]
    /\ slots[k].is = "early" => slots[k].bytes = Drained(k)
    /\ \A f \in Futures : Undone(f) /\ of[f] = k => nth[f] = posted[k]
    /\ Numbered(stream, k, Drained(k), sent[k])

InOrder == \A k \in Keys \ strayed : Order(k)

OInv == IInv /\ InOrder /\ MatchedInOrder

-----------------------------------------------------------------------------
(* The three forms of a slot.                                              *)
LEMMA SlotForms ==
    ASSUME NEW x \in SlotType
    PROVE  /\ x.is \in {"vacant", "pending", "early"}
           /\ x.is = "vacant" => x = Vacant
           /\ x.is = "pending" => /\ x.future \in Futures /\ x.waker \in Tasks
                                  /\ x = Pending(x.future, x.waker)
           /\ x.is = "early" => x.bytes \in 1 .. MaxMsgs
  BY DEF SlotType, Vacant, Pending

LEMMA SlotMembers ==
    /\ Vacant \in SlotType /\ Vacant.is = "vacant"
    /\ \A n \in 1 .. MaxMsgs : Early(n) \in SlotType /\ Early(n).is = "early" /\ Early(n).bytes = n
    /\ \A f \in Futures, t \in Tasks :
           /\ Pending(f, t) \in SlotType /\ Pending(f, t).is = "pending"
           /\ Pending(f, t).future = f /\ Pending(f, t).waker = t
  BY DEF SlotType, Vacant, Pending, Early

(* The first message leaves the stream.                                    *)
LEMMA TailOf ==
    ASSUME NEW S, NEW s \in Seq(S), s # <<>>
    PROVE  /\ Len(s) \in Nat \ {0} /\ Head(s) = s[1] /\ s[1] \in S
           /\ Tail(s) \in Seq(S) /\ Len(Tail(s)) = Len(s) - 1
           /\ \A i \in 1 .. Len(s) - 1 : Tail(s)[i] = s[i + 1]
  OBVIOUS

LEMMA TypeIsShape == TypeOK <=> Shape /\ ReadyGot
  BY DEF TypeOK, Shape, ReadyGot, SlotType

LEMMA InitIInv == Init => IInv
  <1> SUFFICES ASSUME Init PROVE IInv
    OBVIOUS
  <1>1. Shape
    <2>1. slots \in [Keys -> SlotType]
      BY SlotMembers DEF Init
    <2> QED
      BY <2>1, RouterAssumption DEF Init, Shape
  <1>2. ReadyGot /\ Linked /\ WakersCurrent
    BY DEF Init, ReadyGot, Linked, WakersCurrent, Live, Undone
  <1>3. TargetValid
    BY SlotMembers DEF Init, TargetValid
  <1> QED
    BY <1>1, <1>2, <1>3 DEF IInv

(* A message that joins the stream touches nothing else.                   *)
LEMMA ArriveKeeps ==
    ASSUME IInv, NEW k \in Keys, Arrive(k)
    PROVE  IInv'
  <1>1. Shape /\ ReadyGot
    BY DEF IInv
  <1>2. Shape'
    <2>1. sent[k] + 1 \in 1 .. MaxMsgs
      BY <1>1, RouterAssumption DEF Shape, Arrive
    <2>2. stream' \in Seq(Keys \X (1 .. MaxMsgs))
      BY <1>1, <2>1 DEF Shape, Arrive
    <2> QED
      BY <1>1, <2>1, <2>2 DEF Shape, Arrive, place
  <1>3. ReadyGot' /\ Linked' /\ TargetValid' /\ WakersCurrent'
    BY <1>1 DEF Arrive, place, IInv, ReadyGot, Linked, TargetValid, WakersCurrent, Live, Undone
  <1> QED
    BY <1>2, <1>3 DEF IInv

(* deliver writes through the pointer of a pending slot: its future is     *)
(* alive, becomes done and its owner is woken.                             *)
LEMMA DispatchKeeps ==
    ASSUME IInv, Dispatch
    PROVE  IInv'
  <1>1. Shape /\ ReadyGot /\ Linked /\ TargetValid /\ WakersCurrent
    BY DEF IInv
  <1> DEFINE k == Head(stream)[1]
             n == Head(stream)[2]
  <1>2. k \in Keys /\ n \in 1 .. MaxMsgs /\ stream' \in Seq(Keys \X (1 .. MaxMsgs))
    BY <1>1, TailOf DEF Shape, Dispatch
  <1>3. /\ deliver(k, n)
        /\ UNCHANGED <<sent, of, nth, posted, life, registered, owner>>
    BY DEF Dispatch, place
  <1> HIDE DEF k, n
  <1>4. slots[k] \in SlotType
    BY <1>1, <1>2 DEF Shape
  <1>5. CASE slots[k].is = "pending"
    <2> DEFINE f == slots[k].future
    <2>1. /\ slots' = [slots EXCEPT ![k] = Vacant] /\ got' = [got EXCEPT ![f] = n]
          /\ done' = [done EXCEPT ![f] = TRUE]
          /\ woken' = woken \cup {<<f, slots[k].waker>>} /\ strayed' = strayed
      BY <1>3, <1>5 DEF deliver
    <2>2. f \in Futures /\ slots[k].waker \in Tasks /\ slots[k] = Pending(f, slots[k].waker)
      BY <1>4, <1>5, SlotForms
    <2>3. Live(f) /\ of[f] = k /\ registered[f] /\ ~done[f]
      BY <1>1, <1>2, <1>5 DEF TargetValid
    <2> HIDE DEF f
    <2>4. Shape'
      BY <1>1, <1>2, <1>3, <2>1, <2>2, SlotMembers DEF Shape
    <2>5. ReadyGot'
      BY <1>1, <1>2, <1>3, <2>1, <2>2 DEF ReadyGot, Shape
    <2>6. \A g \in Futures : Undone(g)' <=> Undone(g) /\ g # f
      BY <1>1, <1>3, <2>1, <2>2 DEF Undone, Live, Shape
    <2>7. \A j \in Keys : slots'[j] = IF j = k THEN Vacant ELSE slots[j]
      BY <1>1, <1>2, <2>1 DEF Shape
    <2>8. \A g \in Futures : g # f /\ Live(g) => of[g] # k /\ of[g] \in Keys
      BY <1>1, <2>2, <2>3 DEF Linked, Live
    <2>9. Linked'
      <3>1. \A g \in Futures : done'[g] <=> got'[g] # 0
        BY <1>1, <1>2, <2>1, <2>2 DEF Linked, Shape
      <3>2. \A g \in Futures : Undone(g)' /\ registered'[g] =>
                slots'[of'[g]].is = "pending" /\ slots'[of'[g]].future = g
        BY <1>1, <1>3, <2>6, <2>7, <2>8 DEF Linked, Undone
      <3>3. \A g \in Futures : life'[g] = "unborn" => ~registered'[g] /\ got'[g] = 0
        BY <1>1, <1>3, <2>1, <2>2, <2>3 DEF Linked, Live, Shape
      <3> QED
        BY <1>1, <1>3, <3>1, <3>2, <3>3 DEF Linked, Live
    <2>10. TargetValid'
      <3> SUFFICES ASSUME NEW j \in Keys, slots'[j].is = "pending"
                   PROVE  LET g == slots'[j].future
                          IN  life'[g] = "live" /\ of'[g] = j /\ registered'[g] /\ ~done'[g]
        BY DEF TargetValid, Live
      <3>1. j # k /\ slots'[j] = slots[j]
        BY <2>7, SlotMembers
      <3>2. slots[j].future \in Futures
        BY <1>1, <3>1, SlotForms DEF Shape
      <3> QED
        BY <1>1, <1>3, <2>1, <2>2, <2>3, <3>1, <3>2 DEF TargetValid, Live, Shape
    <2>11. WakersCurrent'
      <3> SUFFICES ASSUME NEW g \in Futures, Live(g)'
                   PROVE  \/ <<g, owner'[g]>> \in woken'
                          \/ registered'[g] /\ ~done'[g] /\ slots'[of'[g]] = Pending(g, owner'[g])
        BY DEF WakersCurrent
      <3>1. \/ <<g, owner[g]>> \in woken
            \/ registered[g] /\ ~done[g] /\ slots[of[g]] = Pending(g, owner[g])
        BY <1>1, <1>3 DEF WakersCurrent, Live
      <3>2. CASE g = f
        <4>1. Pending(f, owner[f]).waker = owner[f]
          BY DEF Pending
        <4> QED
          BY <1>3, <2>1, <2>3, <3>1, <3>2, <4>1
      <3>3. CASE g # f
        BY <1>1, <1>3, <2>1, <2>2, <2>7, <2>8, <3>1, <3>3 DEF Live, Shape
      <3> QED
        BY <3>2, <3>3
    <2> QED
      BY <2>4, <2>5, <2>9, <2>10, <2>11 DEF IInv
  <1>6. CASE slots[k].is # "pending"
    <2>1. PICK x \in SlotType :
              /\ x.is # "pending" /\ slots' = [slots EXCEPT ![k] = x]
              /\ UNCHANGED <<got, done, woken>> /\ strayed' \subseteq Keys
      BY <1>1, <1>2, <1>3, <1>6, SlotMembers DEF deliver, Shape
    <2>2. Shape' /\ ReadyGot'
      BY <1>1, <1>2, <1>3, <2>1 DEF Shape, ReadyGot
    <2>3. \A j \in Keys : \/ slots'[j] = slots[j]
                          \/ slots[j].is # "pending" /\ slots'[j].is # "pending"
      <3>1. \A j \in Keys : slots'[j] = IF j = k THEN x ELSE slots[j]
        BY <1>1, <1>2, <2>1 DEF Shape
      <3> SUFFICES ASSUME NEW j \in Keys, slots'[j] # slots[j]
                   PROVE  slots[j].is # "pending" /\ slots'[j].is # "pending"
        OBVIOUS
      <3>2. j = k
        BY <3>1
      <3> QED
        BY <1>6, <2>1, <3>1, <3>2
    <2>4. Linked'
      BY <1>1, <1>3, <2>1, <2>3 DEF Linked, Undone, Live
    <2>5. TargetValid'
      BY <1>1, <1>3, <2>1, <2>3 DEF TargetValid, Live
    <2>6. WakersCurrent'
      <3>1. \A g, t : Pending(g, t).is = "pending"
        BY DEF Pending
      <3> QED
        BY <1>1, <1>3, <2>1, <2>3, <3>1 DEF WakersCurrent, Live, Linked
    <2> QED
      BY <2>2, <2>4, <2>5, <2>6 DEF IInv
  <1> QED
    BY <1>5, <1>6

(* A message that is lost changes neither slots nor futures.               *)
LEMMA DispatchFailsKeeps ==
    ASSUME IInv, DispatchFails
    PROVE  IInv'
  <1>1. Shape /\ ReadyGot
    BY DEF IInv
  <1>2. Head(stream)[1] \in Keys /\ stream' \in Seq(Keys \X (1 .. MaxMsgs))
    BY <1>1, TailOf DEF Shape, DispatchFails
  <1>3. Shape'
    BY <1>1, <1>2 DEF Shape, DispatchFails, place
  <1>4. ReadyGot' /\ Linked' /\ TargetValid' /\ WakersCurrent'
    BY <1>1 DEF DispatchFails, place, IInv, ReadyGot, Linked, TargetValid, WakersCurrent, Live, Undone
  <1> QED
    BY <1>3, <1>4 DEF IInv

(* A new receive: no live future has its key, so that no slot waits under  *)
(* it either.                                                              *)
LEMMA NewKeeps ==
    ASSUME IInv, NEW f \in Futures, NEW k \in Keys, NEW t \in Tasks, New(f, k, t)
    PROVE  IInv'
  <1>1. Shape /\ ReadyGot /\ Linked /\ TargetValid /\ WakersCurrent
    BY DEF IInv
  <1>2. /\ life[f] = "unborn" /\ \A g \in Futures : Live(g) => of[g] # k
        /\ life' = [life EXCEPT ![f] = "live"] /\ of' = [of EXCEPT ![f] = k]
        /\ nth' = [nth EXCEPT ![f] = posted[k] + 1] /\ posted' = [posted EXCEPT ![k] = @ + 1]
        /\ owner' = [owner EXCEPT ![f] = t] /\ woken' = woken \cup {<<f, t>>}
        /\ UNCHANGED <<sent, stream, slots, registered, done, got, strayed>>
    BY DEF New, net
  <1>3. Shape'
    BY <1>1, <1>2 DEF Shape
  <1>4. \A g \in Futures : /\ life'[g] = IF g = f THEN "live" ELSE life[g]
                           /\ of'[g] = IF g = f THEN k ELSE of[g]
                           /\ owner'[g] = IF g = f THEN t ELSE owner[g]
    <2>1. \A g \in Futures : life'[g] = IF g = f THEN "live" ELSE life[g]
      BY <1>1, <1>2 DEF Shape
    <2>2. \A g \in Futures : of'[g] = IF g = f THEN k ELSE of[g]
      BY <1>1, <1>2 DEF Shape
    <2>3. \A g \in Futures : owner'[g] = IF g = f THEN t ELSE owner[g]
      BY <1>1, <1>2 DEF Shape
    <2> QED
      BY <2>1, <2>2, <2>3
  <1>5. ReadyGot'
    BY <1>1, <1>2, <1>4 DEF ReadyGot
  <1>6. Linked'
    BY <1>1, <1>2, <1>4 DEF Linked, Live, Undone
  <1>7. TargetValid'
    <2> SUFFICES ASSUME NEW j \in Keys, slots'[j].is = "pending"
                 PROVE  LET g == slots'[j].future
                        IN  life'[g] = "live" /\ of'[g] = j /\ registered'[g] /\ ~done'[g]
      BY DEF TargetValid, Live
    <2>1. slots[j].future \in Futures
      BY <1>1, <1>2, SlotForms DEF Shape
    <2> QED
      BY <1>1, <1>2, <1>4, <2>1 DEF TargetValid, Live
  <1>8. WakersCurrent'
    BY <1>1, <1>2, <1>4 DEF WakersCurrent, Live
  <1> QED
    BY <1>3, <1>5, <1>6, <1>7, <1>8 DEF IInv

(* A poll of a done future only ends it.                                   *)
LEMMA PollDoneKeeps ==
    ASSUME IInv, NEW f \in Futures, Live(f), done[f], life' = [life EXCEPT ![f] = "ready"],
           woken' = Answered(f),
           UNCHANGED <<sent, stream, of, nth, posted, owner, strayed, slots, registered, done, got>>
    PROVE  IInv'
  <1>1. Shape /\ ReadyGot /\ Linked /\ TargetValid /\ WakersCurrent
    BY DEF IInv
  <1>2. Shape'
    BY <1>1 DEF Shape, Answered
  <1>3. \A g \in Futures : life'[g] = IF g = f THEN "ready" ELSE life[g]
    BY <1>1 DEF Shape
  <1>4. ReadyGot'
    BY <1>1, <1>3 DEF ReadyGot, Linked
  <1>5. Linked'
    BY <1>1, <1>3 DEF Linked, Live, Undone
  <1>6. TargetValid'
    <2> SUFFICES ASSUME NEW j \in Keys, slots'[j].is = "pending"
                 PROVE  LET g == slots'[j].future
                        IN  life'[g] = "live" /\ of'[g] = j /\ registered'[g] /\ ~done'[g]
      BY DEF TargetValid, Live
    <2>1. slots[j].future \in Futures /\ slots[j].future # f
      BY <1>1, SlotForms DEF Shape, TargetValid
    <2> QED
      BY <1>1, <1>3, <2>1 DEF TargetValid, Live
  <1>7. WakersCurrent'
    BY <1>1, <1>3 DEF WakersCurrent, Live, Answered
  <1> QED
    BY <1>2, <1>4, <1>5, <1>6, <1>7 DEF IInv

(* The first poll finds the message.                                       *)
LEMMA PollEarlyKeeps ==
    ASSUME IInv, NEW f \in Futures, Live(f), ~done[f], ~registered[f],
           slots[of[f]].is = "early",
           slots' = take_early(f), got' = [got EXCEPT ![f] = slots[of[f]].bytes],
           done' = [done EXCEPT ![f] = TRUE], life' = [life EXCEPT ![f] = "ready"],
           woken' = Answered(f),
           UNCHANGED <<sent, stream, of, nth, posted, owner, strayed, registered>>
    PROVE  IInv'
  <1>1. Shape /\ ReadyGot /\ Linked /\ TargetValid /\ WakersCurrent
    BY DEF IInv
  <1>2. of[f] \in Keys
    BY <1>1 DEF Linked, Live
  <1>3. slots[of[f]].bytes \in 1 .. MaxMsgs
    BY <1>1, <1>2, SlotForms DEF Shape
  <1>4. Shape'
    BY <1>1, <1>2, <1>3, SlotMembers DEF Shape, Answered, take_early
  <1>5. \A g \in Futures : /\ life'[g] = IF g = f THEN "ready" ELSE life[g]
                           /\ done'[g] <=> g = f \/ done[g]
                           /\ got'[g] = IF g = f THEN slots[of[f]].bytes ELSE got[g]
    <2>1. \A g \in Futures : life'[g] = IF g = f THEN "ready" ELSE life[g]
      BY <1>1 DEF Shape
    <2>2. \A g \in Futures : done'[g] <=> g = f \/ done[g]
      BY <1>1 DEF Shape
    <2>3. \A g \in Futures : got'[g] = IF g = f THEN slots[of[f]].bytes ELSE got[g]
      BY <1>1 DEF Shape
    <2> QED
      BY <2>1, <2>2, <2>3
  <1>6. \A j \in Keys : slots'[j] = IF j = of[f] THEN Vacant ELSE slots[j]
    BY <1>1, <1>2 DEF Shape, take_early
  <1>7. ReadyGot'
    BY <1>1, <1>3, <1>5 DEF ReadyGot
  <1>8. Linked'
    <2>1. \A g \in Futures : Live(g) /\ g # f => of[g] \in Keys /\ of[g] # of[f]
      BY <1>1 DEF Linked, Live
    <2>2. \A g \in Futures : Undone(g)' /\ registered'[g] =>
              slots'[of'[g]].is = "pending" /\ slots'[of'[g]].future = g
      BY <1>1, <1>5, <1>6, <2>1 DEF Linked, Live, Undone
    <2>3. \A g \in Futures : done'[g] <=> got'[g] # 0
      BY <1>1, <1>3, <1>5 DEF Linked
    <2> QED
      BY <1>1, <1>5, <2>2, <2>3 DEF Linked, Live
  <1>9. TargetValid'
    <2> SUFFICES ASSUME NEW j \in Keys, slots'[j].is = "pending"
                 PROVE  LET g == slots'[j].future
                        IN  life'[g] = "live" /\ of'[g] = j /\ registered'[g] /\ ~done'[g]
      BY DEF TargetValid, Live
    <2>1. j # of[f] /\ slots'[j] = slots[j]
      BY <1>6, SlotMembers
    <2>2. slots[j].future \in Futures /\ slots[j].future # f
      BY <1>1, <2>1, SlotForms DEF Shape, TargetValid
    <2> QED
      BY <1>1, <1>5, <2>1, <2>2 DEF TargetValid, Live
  <1>10. WakersCurrent'
    <2>1. \A g \in Futures : Live(g) /\ g # f => of[g] \in Keys /\ of[g] # of[f]
      BY <1>1 DEF Linked, Live
    <2> QED
      BY <1>1, <1>5, <1>6, <2>1 DEF WakersCurrent, Live, Answered
  <1> QED
    BY <1>4, <1>7, <1>8, <1>9, <1>10 DEF IInv

(* A poll that finds nothing leaves the slot pending with this future and  *)
(* its present owner: the first registers it, the later ones refresh the   *)
(* waker.                                                                  *)
LEMMA PollWaits ==
    ASSUME IInv, NEW f \in Futures, Live(f), ~done[f],
           slots[of[f]].is = "pending" => slots[of[f]].future = f,
           slots' = [slots EXCEPT ![of[f]] = Pending(f, owner[f])],
           registered' = [registered EXCEPT ![f] = TRUE],
           woken' = Answered(f),
           UNCHANGED <<sent, stream, of, nth, posted, owner, strayed, life, done, got>>
    PROVE  IInv'
  <1>1. Shape /\ ReadyGot /\ Linked /\ TargetValid /\ WakersCurrent
    BY DEF IInv
  <1>2. of[f] \in Keys /\ owner[f] \in Tasks
    BY <1>1 DEF Linked, Live
  <1>3. Shape'
    BY <1>1, <1>2, SlotMembers DEF Shape, Answered
  <1>4. /\ \A g \in Futures : registered'[g] <=> g = f \/ registered[g]
        /\ \A j \in Keys : slots'[j] = IF j = of[f] THEN Pending(f, owner[f]) ELSE slots[j]
    BY <1>1, <1>2 DEF Shape
  <1>5. ReadyGot'
    BY <1>1 DEF ReadyGot
  <1>6. \A g \in Futures : Live(g) /\ g # f => of[g] \in Keys /\ of[g] # of[f]
    BY <1>1 DEF Linked, Live
  <1>7. Linked'
    <2>1. \A g \in Futures : Undone(g)' /\ registered'[g] =>
              slots'[of'[g]].is = "pending" /\ slots'[of'[g]].future = g
      BY <1>1, <1>2, <1>4, <1>6, SlotMembers DEF Linked, Live, Undone
    <2> QED
      BY <1>1, <1>4, <2>1 DEF Linked, Live
  <1>8. TargetValid'
    <2> SUFFICES ASSUME NEW j \in Keys, slots'[j].is = "pending"
                 PROVE  LET g == slots'[j].future
                        IN  life'[g] = "live" /\ of'[g] = j /\ registered'[g] /\ ~done'[g]
      BY DEF TargetValid, Live
    <2>1. CASE j = of[f]
      BY <1>1, <1>2, <1>4, <2>1, SlotMembers DEF Live
    <2>2. CASE j # of[f]
      <3>1. slots'[j] = slots[j] /\ slots[j].future \in Futures
        BY <1>1, <1>4, <2>2, SlotForms DEF Shape
      <3> QED
        BY <1>1, <1>4, <3>1 DEF TargetValid, Live
    <2> QED
      BY <2>1, <2>2
  <1>9. WakersCurrent'
    BY <1>1, <1>2, <1>4, <1>6 DEF WakersCurrent, Live, Answered
  <1> QED
    BY <1>3, <1>5, <1>7, <1>8, <1>9 DEF IInv

(* What RecvFuture::poll does is one of those three.                       *)
LEMMA PollCases ==
    ASSUME IInv, NEW f \in Futures, Poll(f)
    PROVE  /\ Live(f) /\ of[f] \in Keys /\ owner[f] \in Tasks /\ woken' = Answered(f)
           /\ UNCHANGED <<sent, stream, of, nth, posted, owner, strayed>>
           /\ \/ /\ done[f] /\ life' = [life EXCEPT ![f] = "ready"]
                 /\ UNCHANGED <<slots, registered, done, got>>
              \/ /\ ~done[f] /\ ~registered[f] /\ slots[of[f]].is = "early"
                 /\ slots' = take_early(f) /\ got' = [got EXCEPT ![f] = slots[of[f]].bytes]
                 /\ done' = [done EXCEPT ![f] = TRUE] /\ life' = [life EXCEPT ![f] = "ready"]
                 /\ UNCHANGED registered
              \/ /\ ~done[f] /\ slots[of[f]].is # "early"
                 /\ slots[of[f]].is = "pending" => slots[of[f]].future = f
                 /\ slots' = [slots EXCEPT ![of[f]] = Pending(f, owner[f])]
                 /\ registered' = [registered EXCEPT ![f] = TRUE]
                 /\ UNCHANGED <<life, done, got>>
  <1>1. Shape /\ Linked /\ TargetValid
    BY DEF IInv
  <1>2. /\ Live(f) /\ woken' = Answered(f)
        /\ UNCHANGED <<sent, stream, of, nth, posted, owner, strayed>>
    BY DEF Poll, net, place
  <1>3. of[f] \in Keys /\ owner[f] \in Tasks
    BY <1>1, <1>2 DEF Linked, Live
  <1>4. CASE ~done[f] /\ ~registered[f] /\ slots[of[f]].is # "early"
    <2>1. slots[of[f]].is # "pending"
      <3> SUFFICES ASSUME slots[of[f]].is = "pending" PROVE FALSE
        OBVIOUS
      <3> DEFINE g == slots[of[f]].future
      <3>1. g \in Futures
        BY <1>1, <1>3, SlotForms DEF Shape
      <3>2. Live(g) /\ of[g] = of[f] /\ registered[g]
        BY <1>1, <1>3 DEF TargetValid
      <3> QED
        BY <1>1, <1>2, <1>4, <3>1, <3>2 DEF Linked
    <2> QED
      BY <1>2, <1>3, <1>4, <2>1 DEF Poll
  <1>5. CASE ~done[f] /\ registered[f]
    <2>1. slots[of[f]].is = "pending" /\ slots[of[f]].future = f
      BY <1>1, <1>2, <1>5 DEF Linked, Undone
    <2>2. slots[of[f]] = Pending(f, slots[of[f]].waker)
      BY <1>1, <1>3, <2>1, SlotForms DEF Shape
    <2>3. slots' = update_waker(f) /\ UNCHANGED <<life, registered, done, got>>
      BY <1>5 DEF Poll
    <2>4. slots' = [slots EXCEPT ![of[f]].waker = owner[f]]
      BY <2>1, <2>3 DEF update_waker
    <2>5. [slots[of[f]] EXCEPT !.waker = owner[f]] = Pending(f, owner[f])
      BY <2>2 DEF Pending
    <2>6. slots' = [slots EXCEPT ![of[f]] = Pending(f, owner[f])]
      BY <2>4, <2>5
    <2>7. registered' = [registered EXCEPT ![f] = TRUE]
      BY <1>1, <1>5, <2>3 DEF Shape
    <2> QED
      BY <1>2, <1>3, <1>5, <2>1, <2>3, <2>6, <2>7
  <1>6. CASE done[f]
    BY <1>2, <1>3, <1>6 DEF Poll, Ready
  <1>7. CASE ~done[f] /\ ~registered[f] /\ slots[of[f]].is = "early"
    BY <1>2, <1>3, <1>7 DEF Poll, Ready
  <1> QED
    BY <1>4, <1>5, <1>6, <1>7

LEMMA PollKeeps ==
    ASSUME IInv, NEW f \in Futures, Poll(f)
    PROVE  IInv'
  <1>1. Shape
    BY DEF IInv
  <1> QED
    BY PollCases, PollDoneKeeps, PollEarlyKeeps, PollWaits

(* Drop takes the pointer of a waiting future out of its slot.             *)
LEMMA DropKeeps ==
    ASSUME IInv, NEW f \in Futures, Drop(f)
    PROVE  IInv'
  <1>1. Shape /\ ReadyGot /\ Linked /\ TargetValid /\ WakersCurrent
    BY DEF IInv
  <1>2. /\ Live(f) /\ life' = [life EXCEPT ![f] = "dropped"]
        /\ strayed' = strayed \cup {of[f]} /\ woken' = Answered(f)
        /\ slots' = IF registered[f] /\ ~done[f] THEN [slots EXCEPT ![of[f]] = Vacant] ELSE slots
        /\ UNCHANGED <<sent, stream, of, nth, posted, registered, done, got, owner>>
    BY DEF Drop, net, place
  <1>3. of[f] \in Keys
    BY <1>1, <1>2 DEF Linked, Live
  <1>4. Shape'
    BY <1>1, <1>2, <1>3, SlotMembers DEF Shape, Answered
  <1>5. \A g \in Futures : life'[g] = IF g = f THEN "dropped" ELSE life[g]
    BY <1>1, <1>2 DEF Shape
  <1>6. \A j \in Keys : j # of[f] => slots'[j] = slots[j]
    BY <1>1, <1>2, <1>3 DEF Shape
  <1>7. \A g \in Futures : Live(g) /\ g # f => of[g] \in Keys /\ of[g] # of[f]
    BY <1>1, <1>2 DEF Linked, Live
  <1>8. slots'[of[f]].is # "pending"
    <2>1. CASE registered[f] /\ ~done[f]
      BY <1>1, <1>2, <1>3, <2>1, SlotMembers DEF Shape
    <2>2. CASE ~(registered[f] /\ ~done[f])
      <3> SUFFICES ASSUME slots[of[f]].is = "pending" PROVE FALSE
        BY <1>2, <2>2
      <3> DEFINE g == slots[of[f]].future
      <3>1. g \in Futures
        BY <1>1, <1>3, SlotForms DEF Shape
      <3>2. Live(g) /\ of[g] = of[f] /\ registered[g] /\ ~done[g]
        BY <1>1, <1>3 DEF TargetValid
      <3> QED
        BY <1>1, <1>2, <2>2, <3>1, <3>2 DEF Linked
    <2> QED
      BY <2>1, <2>2
  <1>9. ReadyGot'
    BY <1>1, <1>2, <1>5 DEF ReadyGot
  <1>10. Linked'
    <2>1. \A g \in Futures : Undone(g)' /\ registered'[g] =>
              slots'[of'[g]].is = "pending" /\ slots'[of'[g]].future = g
      BY <1>1, <1>2, <1>5, <1>6, <1>7 DEF Linked, Live, Undone
    <2> QED
      BY <1>1, <1>2, <1>5, <2>1 DEF Linked, Live
  <1>11. TargetValid'
    <2> SUFFICES ASSUME NEW j \in Keys, slots'[j].is = "pending"
                 PROVE  LET g == slots'[j].future
                        IN  life'[g] = "live" /\ of'[g] = j /\ registered'[g] /\ ~done'[g]
      BY DEF TargetValid, Live
    <2>1. j # of[f] /\ slots'[j] = slots[j]
      BY <1>6, <1>8
    <2>2. slots[j].future \in Futures /\ slots[j].future # f
      BY <1>1, <2>1, SlotForms DEF Shape, TargetValid
    <2> QED
      BY <1>1, <1>2, <1>5, <2>1, <2>2 DEF TargetValid, Live
  <1>12. WakersCurrent'
    BY <1>1, <1>2, <1>5, <1>6, <1>7 DEF WakersCurrent, Live, Answered
  <1> QED
    BY <1>4, <1>9, <1>10, <1>11, <1>12 DEF IInv

(* The waker of a moved future is stale until its new owner polls it, and  *)
(* that owner is about to.                                                 *)
LEMMA MoveKeeps ==
    ASSUME IInv, NEW f \in Futures, NEW t \in Tasks, Move(f, t)
    PROVE  IInv'
  <1>1. Shape /\ ReadyGot /\ Linked /\ TargetValid /\ WakersCurrent
    BY DEF IInv
  <1>2. /\ Live(f) /\ owner' = [owner EXCEPT ![f] = t]
        /\ woken' = Answered(f) \cup {<<f, t>>}
        /\ UNCHANGED <<sent, stream, of, nth, posted, slots, life, registered, done, got, strayed>>
    BY DEF Move, net, place
  <1>3. Shape'
    BY <1>1, <1>2 DEF Shape, Answered
  <1>4. \A g \in Futures : owner'[g] = IF g = f THEN t ELSE owner[g]
    BY <1>1, <1>2 DEF Shape
  <1>5. ReadyGot' /\ TargetValid'
    BY <1>1, <1>2 DEF ReadyGot, TargetValid, Live
  <1>6. Linked'
    BY <1>1, <1>2, <1>4 DEF Linked, Live, Undone
  <1>7. WakersCurrent'
    BY <1>1, <1>2, <1>4 DEF WakersCurrent, Live, Answered
  <1> QED
    BY <1>3, <1>5, <1>6, <1>7 DEF IInv

(* Every step keeps it.                                                    *)
LEMMA NextIInv == IInv /\ [Next]_vars => IInv'
  <1> SUFFICES ASSUME IInv, [Next]_vars PROVE IInv'
    OBVIOUS
  <1>1. CASE UNCHANGED vars
    BY <1>1 DEF vars, IInv, Shape, ReadyGot, Linked, TargetValid, WakersCurrent, Live, Undone
  <1>2. CASE \E k \in Keys : Arrive(k)
    BY <1>2, ArriveKeeps
  <1>3. CASE Dispatch
    BY <1>3, DispatchKeeps
  <1>4. CASE DispatchFails
    BY <1>4, DispatchFailsKeeps
  <1>5. CASE \E f \in Futures, k \in Keys, t \in Tasks : New(f, k, t)
    BY <1>5, NewKeeps
  <1>6. CASE \E f \in Futures : Poll(f)
    BY <1>6, PollKeeps
  <1>7. CASE \E f \in Futures : Drop(f)
    BY <1>7, DropKeeps
  <1>8. CASE \E f \in Futures, t \in Tasks : Move(f, t)
    BY <1>8, MoveKeeps
  <1> QED
    BY <1>1, <1>2, <1>3, <1>4, <1>5, <1>6, <1>7, <1>8 DEF Next

LEMMA AlwaysIInv == Spec => []IInv
  BY InitIInv, NextIInv, PTL DEF Spec

(* The state keeps its types, and a receive that returned has its message. *)
THEOREM TypeCorrect == Spec => []TypeOK
  <1>1. IInv => TypeOK
    BY TypeIsShape DEF IInv
  <1> QED
    BY <1>1, AlwaysIInv, PTL

(* The SAFETY comment of deliver: the raw pointer in a pending slot is     *)
(* that of a live receive that waits under the slot's key, for any number  *)
(* of futures dropped, moved or answered.                                  *)
THEOREM PointerValid == Spec => []TargetValid
  <1>1. IInv => TargetValid
    BY DEF IInv
  <1> QED
    BY <1>1, AlwaysIInv, PTL

(* No live receive is forgotten, although a waker is only refreshed by     *)
(* polls.                                                                  *)
THEOREM NoneForgotten == Spec => []WakersCurrent
  <1>1. IInv => WakersCurrent
    BY DEF IInv
  <1> QED
    BY <1>1, AlwaysIInv, PTL

-----------------------------------------------------------------------------
Messages == Keys \X (1 .. MaxMsgs)

(* A new message of the key is the next number; one of another key does    *)
(* not matter.                                                             *)
LEMMA NumberedAppend ==
    ASSUME NEW s \in Seq(Messages), NEW k \in Keys, NEW d \in Nat, NEW m \in Nat,
           d <= m, m < MaxMsgs, Numbered(s, k, d, m)
    PROVE  Numbered(Append(s, <<k, m + 1>>), k, d, m + 1)
  <1> DEFINE t == Append(s, <<k, m + 1>>)
  <1>1. /\ Len(s) \in Nat /\ Len(t) = Len(s) + 1 /\ t[Len(s) + 1] = <<k, m + 1>>
        /\ \A i \in 1 .. Len(s) : t[i] = s[i]
    OBVIOUS
  <1>2. \A i \in 1 .. Len(s) : s[i][2] \in Nat
    BY DEF Messages
  <1> HIDE DEF t
  <1>3. \A i \in 1 .. Len(t) : i \in 1 .. Len(s) \/ i = Len(s) + 1
    BY <1>1
  <1>4. \A i \in 1 .. Len(t) : t[i][1] = k => d < t[i][2] /\ t[i][2] <= m + 1
    BY <1>1, <1>2, <1>3 DEF Numbered
  <1>5. \A i, j \in 1 .. Len(t) : i < j /\ t[i][1] = k /\ t[j][1] = k => t[i][2] < t[j][2]
    BY <1>1, <1>2, <1>3 DEF Numbered
  <1>6. \A n \in 1 .. m + 1 : d < n => \E i \in 1 .. Len(t) : t[i] = <<k, n>>
    <2> SUFFICES ASSUME NEW n \in 1 .. m + 1, d < n
                 PROVE  \E i \in 1 .. Len(t) : t[i] = <<k, n>>
      OBVIOUS
    <2>1. CASE n = m + 1
      BY <1>1, <2>1
    <2>2. CASE n \in 1 .. m
      <3>1. PICK i \in 1 .. Len(s) : s[i] = <<k, n>>
        BY <2>2 DEF Numbered
      <3> QED
        BY <1>1, <3>1
    <2> QED
      BY <2>1, <2>2
  <1> QED
    BY <1>4, <1>5, <1>6 DEF Numbered, t

LEMMA NumberedAppendOther ==
    ASSUME NEW s \in Seq(Messages), NEW k \in Keys, NEW j \in Keys \ {k}, NEW d \in Nat,
           NEW m \in Nat, NEW n \in 1 .. MaxMsgs, Numbered(s, j, d, m)
    PROVE  Numbered(Append(s, <<k, n>>), j, d, m)
  <1> DEFINE t == Append(s, <<k, n>>)
  <1>1. /\ Len(s) \in Nat /\ Len(t) = Len(s) + 1 /\ t[Len(s) + 1] = <<k, n>>
        /\ \A i \in 1 .. Len(s) : t[i] = s[i]
    OBVIOUS
  <1> HIDE DEF t
  <1>2. \A i \in 1 .. Len(t) : t[i][1] = j => i \in 1 .. Len(s)
    BY <1>1
  <1>3. \A i \in 1 .. Len(s) : i \in 1 .. Len(t)
    BY <1>1
  <1>4. Numbered(t, j, d, m)
    BY <1>1, <1>2, <1>3 DEF Numbered
  <1> QED
    BY <1>4 DEF t

(* The first message of the key in the stream is the next to be drained.   *)
LEMMA NumberedHead ==
    ASSUME NEW s \in Seq(Messages), s # <<>>, NEW k \in Keys, NEW d \in Nat, NEW m \in Nat,
           d <= m, Numbered(s, k, d, m), Head(s)[1] = k
    PROVE  /\ Head(s)[2] = d + 1 /\ d + 1 <= m
           /\ Numbered(Tail(s), k, d + 1, m)
  <1>1. /\ Len(s) \in Nat \ {0} /\ Head(s) = s[1] /\ Len(Tail(s)) = Len(s) - 1
        /\ \A i \in 1 .. Len(s) - 1 : Tail(s)[i] = s[i + 1]
    BY TailOf
  <1>2. \A i \in 1 .. Len(s) : s[i][2] \in Nat
    BY DEF Messages
  <1>3. 1 \in 1 .. Len(s) /\ s[1][1] = k /\ d < s[1][2] /\ s[1][2] <= m
    BY <1>1 DEF Numbered
  <1>4. d + 1 \in 1 .. m
    BY <1>2, <1>3
  <1>5. PICK i \in 1 .. Len(s) : s[i] = <<k, d + 1>>
    <2>1. d < d + 1
      OBVIOUS
    <2>2. \A n \in 1 .. m : d < n => \E i \in 1 .. Len(s) : s[i] = <<k, n>>
      BY DEF Numbered
    <2> QED
      BY <1>4, <2>1, <2>2
  <1>6. s[i][1] = k /\ s[i][2] = d + 1
    BY <1>5
  <1>7. i = 1
    <2> SUFFICES ASSUME 1 < i PROVE FALSE
      OBVIOUS
    <2>1. s[1][2] < s[i][2]
      BY <1>3, <1>6 DEF Numbered
    <2> QED
      BY <1>2, <1>3, <1>6, <2>1
  <1>8. s[1][2] = d + 1
    BY <1>6, <1>7
  <1> DEFINE t == Tail(s)
  <1>9. \A x \in 1 .. Len(t) : x + 1 \in 1 .. Len(s) /\ t[x] = s[x + 1] /\ 1 < x + 1
    BY <1>1
  <1>10. \A x \in 1 .. Len(t) : t[x][1] = k => d + 1 < t[x][2] /\ t[x][2] <= m
    BY <1>2, <1>3, <1>8, <1>9 DEF Numbered
  <1>11. \A x, y \in 1 .. Len(t) : x < y /\ t[x][1] = k /\ t[y][1] = k => t[x][2] < t[y][2]
    <2>1. \A x, y \in 1 .. Len(t) : x < y => x + 1 < y + 1
      BY <1>1
    <2> QED
      BY <1>9, <2>1 DEF Numbered
  <1>12. \A n \in 1 .. m : d + 1 < n => \E x \in 1 .. Len(t) : t[x] = <<k, n>>
    <2> SUFFICES ASSUME NEW n \in 1 .. m, d + 1 < n
                 PROVE  \E x \in 1 .. Len(t) : t[x] = <<k, n>>
      OBVIOUS
    <2> d < n
      OBVIOUS
    <2>1. PICK x \in 1 .. Len(s) : s[x] = <<k, n>>
      BY DEF Numbered
    <2>2. x # 1
      BY <1>8, <2>1
    <2>3. x - 1 \in 1 .. Len(t) /\ t[x - 1] = s[x]
      BY <1>1, <2>2
    <2> QED
      BY <2>1, <2>3
  <1>13. Numbered(t, k, d + 1, m)
    BY <1>10, <1>11, <1>12 DEF Numbered
  <1> QED
    BY <1>1, <1>4, <1>8, <1>13

(* A message of another key leaves the stream.                             *)
LEMMA NumberedTail ==
    ASSUME NEW s \in Seq(Messages), s # <<>>, NEW k \in Keys, NEW d \in Nat, NEW m \in Nat,
           Numbered(s, k, d, m), Head(s)[1] # k
    PROVE  Numbered(Tail(s), k, d, m)
  <1>1. /\ Len(s) \in Nat \ {0} /\ Head(s) = s[1] /\ Len(Tail(s)) = Len(s) - 1
        /\ \A i \in 1 .. Len(s) - 1 : Tail(s)[i] = s[i + 1]
    BY TailOf
  <1> DEFINE t == Tail(s)
  <1>2. \A x \in 1 .. Len(t) : x + 1 \in 1 .. Len(s) /\ t[x] = s[x + 1]
    BY <1>1
  <1>3. \A x \in 1 .. Len(t) : t[x][1] = k => d < t[x][2] /\ t[x][2] <= m
    BY <1>2 DEF Numbered
  <1>4. \A x, y \in 1 .. Len(t) : x < y /\ t[x][1] = k /\ t[y][1] = k => t[x][2] < t[y][2]
    <2>1. \A x, y \in 1 .. Len(t) : x < y => x + 1 < y + 1
      BY <1>1
    <2> QED
      BY <1>2, <2>1 DEF Numbered
  <1>5. \A n \in 1 .. m : d < n => \E x \in 1 .. Len(t) : t[x] = <<k, n>>
    <2> SUFFICES ASSUME NEW n \in 1 .. m, d < n
                 PROVE  \E x \in 1 .. Len(t) : t[x] = <<k, n>>
      OBVIOUS
    <2>1. PICK x \in 1 .. Len(s) : s[x] = <<k, n>>
      BY DEF Numbered
    <2>2. x # 1
      BY <1>1, <2>1
    <2>3. x - 1 \in 1 .. Len(t) /\ t[x - 1] = s[x]
      BY <1>1, <2>2
    <2> QED
      BY <2>1, <2>3
  <1> QED
    BY <1>3, <1>4, <1>5 DEF Numbered

(* What a step leaves alone for a key.                                     *)
SameReceives(k) ==
    /\ posted'[k] = posted[k]
    /\ \A f \in Futures : (Undone(f) /\ of[f] = k)' <=> Undone(f) /\ of[f] = k
    /\ \A f \in Futures : Undone(f) /\ of[f] = k => nth'[f] = nth[f]

LEMMA SameDrained ==
    ASSUME NEW k \in Keys, SameReceives(k), slots'[k] = slots[k]
    PROVE  Drained(k)' = Drained(k) /\ Taken(k)' = Taken(k)
  <1>1. Taken(k)' = Taken(k)
    BY DEF SameReceives, Taken
  <1> QED
    BY <1>1 DEF Drained

LEMMA OrderFrame ==
    ASSUME NEW k \in Keys, SameReceives(k), Order(k), UNCHANGED <<sent, stream>>,
           \/ slots'[k] = slots[k]
           \/ slots[k].is # "early" /\ slots'[k].is # "early"
    PROVE  Order(k)'
  <1>1. Taken(k)' = Taken(k)
    BY DEF SameReceives, Taken
  <1>2. Drained(k)' = Drained(k)
    BY <1>1 DEF Drained
  <1> QED
    BY <1>2 DEF SameReceives, Order

LEMMA DrainedType ==
    ASSUME NEW k \in Keys, Shape, Order(k)
    PROVE  Drained(k) \in Nat /\ sent[k] \in Nat /\ posted[k] \in Nat /\ Drained(k) <= sent[k]
           /\ sent[k] <= MaxMsgs
  BY RouterAssumption DEF Shape, Order

LEMMA ArriveInOrder ==
    ASSUME OInv, NEW k \in Keys, Arrive(k)
    PROVE  InOrder' /\ MatchedInOrder'
  <1>1. Shape /\ InOrder /\ MatchedInOrder
    BY DEF OInv, IInv
  <1>2. /\ sent[k] < MaxMsgs /\ sent' = [sent EXCEPT ![k] = @ + 1]
        /\ stream' = Append(stream, <<k, sent[k] + 1>>)
        /\ UNCHANGED <<of, nth, posted, slots, life, registered, done, got, owner, woken, strayed>>
    BY DEF Arrive, place
  <1>3. stream \in Seq(Messages)
    BY <1>1 DEF Shape, Messages
  <1>4. ASSUME NEW j \in Keys \ strayed
        PROVE  Order(j)'
    <2>1. Order(j) /\ Shape
      BY <1>1 DEF InOrder
    <2>2. SameReceives(j) /\ slots'[j] = slots[j]
      BY <1>2 DEF SameReceives, Undone, Live
    <2>3. Drained(j)' = Drained(j)
      BY <2>2, SameDrained
    <2>4. /\ Drained(j) \in Nat /\ sent[j] \in Nat /\ Drained(j) <= sent[j]
          /\ sent'[j] = IF j = k THEN sent[j] + 1 ELSE sent[j]
          /\ sent[k] \in Nat
      <3>1. Drained(j) \in Nat /\ sent[j] \in Nat /\ Drained(j) <= sent[j]
        BY <1>1, <2>1, DrainedType
      <3> QED
        BY <1>1, <1>2, <3>1, RouterAssumption DEF Shape
    <2>5. Numbered(stream', j, Drained(j), sent'[j])
      <3>1. CASE j = k
        BY <1>2, <1>3, <2>1, <2>4, <3>1, NumberedAppend DEF Order
      <3>2. CASE j # k
        <4>1. sent[k] + 1 \in 1 .. MaxMsgs
          BY <1>2, <2>4, RouterAssumption
        <4> QED
          BY <1>2, <1>3, <2>1, <2>4, <3>2, <4>1, NumberedAppendOther DEF Order
      <3> QED
        BY <3>1, <3>2
    <2>6. Drained(j) \in 0 .. sent'[j]
      BY <2>4
    <2> QED
      BY <1>2, <2>1, <2>2, <2>3, <2>5, <2>6 DEF Order, SameReceives
  <1> QED
    BY <1>1, <1>2, <1>4 DEF InOrder, MatchedInOrder

(* The message goes to the receive that waits, which is the last posted,   *)
(* or to the slot; either way one more has left the stream.                *)
LEMMA DispatchInOrder ==
    ASSUME OInv, Dispatch
    PROVE  InOrder' /\ MatchedInOrder'
  <1>1. Shape /\ Linked /\ TargetValid /\ InOrder /\ MatchedInOrder
    BY DEF OInv, IInv
  <1>2. stream \in Seq(Messages) /\ stream # <<>> /\ stream' = Tail(stream)
    BY <1>1 DEF Shape, Messages, Dispatch
  <1>3. PICK k \in Keys, n \in 1 .. MaxMsgs : k = Head(stream)[1] /\ n = Head(stream)[2]
    BY <1>2, TailOf DEF Messages
  <1>4. deliver(k, n) /\ UNCHANGED <<sent, of, nth, posted, life, registered, owner>>
    BY <1>3 DEF Dispatch, place
  <1>5. slots[k] \in SlotType
    BY <1>1, <1>3 DEF Shape
  <1>6. \A j \in Keys \ {k} : slots'[j] = slots[j]
    BY <1>1, <1>4 DEF deliver, Shape
  <1>7. \A f \in Futures : done'[f] # done[f] => of[f] = k
    BY <1>1, <1>3, <1>4 DEF deliver, Shape, TargetValid
  <1>8. strayed \subseteq strayed'
    BY <1>4 DEF deliver
  <1>9. ASSUME NEW j \in Keys \ strayed, j # k
        PROVE  Order(j)'
    <2>1. Order(j)
      BY <1>1 DEF InOrder
    <2>2. SameReceives(j) /\ slots'[j] = slots[j]
      BY <1>4, <1>6, <1>7, <1>9 DEF SameReceives, Undone, Live
    <2>3. Drained(j)' = Drained(j)
      BY <2>2, SameDrained
    <2>4. Drained(j) \in Nat /\ sent[j] \in Nat
      BY <1>1, <2>1, DrainedType
    <2>5. Numbered(stream', j, Drained(j), sent[j])
      BY <1>2, <1>3, <1>9, <2>1, <2>4, NumberedTail DEF Order
    <2> QED
      BY <1>4, <2>1, <2>2, <2>3, <2>5 DEF Order, SameReceives
  <1>10. ASSUME k \notin strayed
         PROVE  /\ n = Drained(k) + 1 /\ Drained(k) + 1 \in 0 .. sent[k]
                /\ Numbered(stream', k, Drained(k) + 1, sent[k])
                /\ Order(k) /\ Drained(k) \in Nat /\ posted[k] \in Nat
    <2>1. Order(k)
      BY <1>1, <1>3, <1>10 DEF InOrder
    <2>2. Drained(k) \in Nat /\ sent[k] \in Nat /\ posted[k] \in Nat /\ Drained(k) <= sent[k]
      BY <1>1, <1>3, <2>1, DrainedType
    <2>3. Numbered(stream, k, Drained(k), sent[k])
      BY <2>1 DEF Order
    <2>4. /\ Head(stream)[2] = Drained(k) + 1 /\ Drained(k) + 1 <= sent[k]
          /\ Numbered(Tail(stream), k, Drained(k) + 1, sent[k])
      BY <1>2, <1>3, <2>2, <2>3, NumberedHead
    <2> QED
      BY <1>2, <1>3, <2>1, <2>2, <2>4
  <1>11. CASE slots[k].is = "pending"
    <2> DEFINE f == slots[k].future
    <2>1. /\ slots' = [slots EXCEPT ![k] = Vacant] /\ got' = [got EXCEPT ![f] = n]
          /\ done' = [done EXCEPT ![f] = TRUE] /\ strayed' = strayed
      BY <1>4, <1>11 DEF deliver
    <2>2. f \in Futures
      BY <1>5, <1>11, SlotForms
    <2>3. Undone(f) /\ of[f] = k /\ registered[f]
      BY <1>1, <1>3, <1>11 DEF TargetValid, Undone
    <2> HIDE DEF f
    <2>4. \A g \in Futures : Undone(g) /\ of[g] = k => g = f
      BY <1>1, <2>2, <2>3 DEF Linked, Undone
    <2>5. \A g \in Futures : Undone(g)' <=> Undone(g) /\ g # f
      BY <1>1, <1>4, <2>1, <2>2 DEF Undone, Live, Shape
    <2>6. ASSUME k \notin strayed
          PROVE  n = posted[k] /\ nth[f] = posted[k] /\ Order(k)'
      <3>1. Drained(k) = posted[k] - 1 /\ nth[f] = posted[k]
        BY <1>10, <1>11, <2>2, <2>3, <2>6 DEF Drained, Taken, Order
      <3>2. slots'[k] = Vacant
        BY <1>1, <1>3, <2>1 DEF Shape
      <3>3. \A g \in Futures : ~(Undone(g)' /\ of'[g] = k)
        BY <1>4, <2>4, <2>5
      <3>4. Drained(k)' = posted[k]
        BY <1>4, <1>10, <2>6, <3>2, <3>3, SlotMembers DEF Drained, Taken
      <3>5. Drained(k)' = Drained(k) + 1
        BY <1>10, <2>6, <3>1, <3>4
      <3> QED
        BY <1>4, <1>10, <2>6, <3>1, <3>2, <3>3, <3>5, SlotMembers DEF Order
    <2>7. InOrder'
      BY <1>9, <2>1, <2>6 DEF InOrder
    <2>8. MatchedInOrder'
      BY <1>1, <1>4, <2>1, <2>2, <2>3, <2>6 DEF MatchedInOrder, Shape
    <2> QED
      BY <2>7, <2>8
  <1>12. CASE slots[k].is = "vacant"
    <2>1. slots' = [slots EXCEPT ![k] = Early(n)] /\ UNCHANGED <<got, done, strayed>>
      BY <1>4, <1>12 DEF deliver
    <2>2. slots'[k] = Early(n)
      BY <1>1, <1>3, <2>1 DEF Shape
    <2>3. SameReceives(k)
      BY <1>4, <2>1 DEF SameReceives, Undone, Live
    <2>4. ASSUME k \notin strayed
          PROVE  Order(k)'
      <3>1. Taken(k)' = Taken(k)
        BY <2>3 DEF SameReceives, Taken
      <3>2. Early(n).is = "early" /\ Early(n).bytes = n
        BY <1>3, SlotMembers
      <3>3. Drained(k)' = Taken(k) + 1 /\ Drained(k) = Taken(k) + 0
        BY <1>12, <2>2, <3>1, <3>2 DEF Drained
      <3>4. Taken(k) \in Int
        BY <1>10, <2>4 DEF Taken
      <3>5. Drained(k)' = Drained(k) + 1
        BY <3>3, <3>4
      <3> QED
        BY <1>4, <1>10, <2>2, <2>3, <2>4, <3>2, <3>5 DEF Order, SameReceives
    <2> QED
      BY <1>1, <1>4, <1>9, <2>1, <2>4 DEF InOrder, MatchedInOrder
  <1>13. CASE slots[k].is = "early"
    <2>1. strayed' = strayed \cup {k} /\ UNCHANGED <<got, done>>
      BY <1>4, <1>13 DEF deliver
    <2> QED
      BY <1>1, <1>4, <1>9, <2>1 DEF InOrder, MatchedInOrder
  <1> QED
    BY <1>5, <1>11, <1>12, <1>13, SlotForms

(* A key whose message is lost is excepted from then on.                   *)
LEMMA DispatchFailsInOrder ==
    ASSUME OInv, DispatchFails
    PROVE  InOrder' /\ MatchedInOrder'
  <1>1. Shape /\ InOrder /\ MatchedInOrder
    BY DEF OInv, IInv
  <1>2. /\ stream \in Seq(Messages) /\ stream # <<>> /\ stream' = Tail(stream)
        /\ strayed' = strayed \cup {Head(stream)[1]}
        /\ UNCHANGED <<sent, of, nth, posted, slots, life, registered, done, got, owner, woken>>
    BY <1>1 DEF Shape, Messages, DispatchFails, place
  <1>3. ASSUME NEW j \in Keys \ strayed'
        PROVE  Order(j)'
    <2>1. Order(j) /\ Head(stream)[1] # j
      BY <1>1, <1>2 DEF InOrder
    <2>2. SameReceives(j) /\ slots'[j] = slots[j]
      BY <1>2 DEF SameReceives, Undone, Live
    <2>3. Drained(j)' = Drained(j)
      BY <2>2, SameDrained
    <2>4. Drained(j) \in Nat /\ sent[j] \in Nat
      BY <1>1, <2>1, DrainedType
    <2>5. Numbered(stream', j, Drained(j), sent[j])
      BY <1>2, <2>1, <2>4, NumberedTail DEF Order
    <2> QED
      BY <1>2, <2>1, <2>2, <2>3, <2>5 DEF Order, SameReceives
  <1> QED
    BY <1>1, <1>2, <1>3 DEF InOrder, MatchedInOrder

(* The receive that is posted waits for the next number.                   *)
LEMMA NewInOrder ==
    ASSUME OInv, NEW f \in Futures, NEW k \in Keys, NEW t \in Tasks, New(f, k, t)
    PROVE  InOrder' /\ MatchedInOrder'
  <1>1. Shape /\ Linked /\ InOrder /\ MatchedInOrder
    BY DEF OInv, IInv
  <1>2. /\ life[f] = "unborn" /\ \A g \in Futures : Live(g) => of[g] # k
        /\ life' = [life EXCEPT ![f] = "live"] /\ of' = [of EXCEPT ![f] = k]
        /\ nth' = [nth EXCEPT ![f] = posted[k] + 1] /\ posted' = [posted EXCEPT ![k] = @ + 1]
        /\ UNCHANGED <<sent, stream, slots, registered, done, got, strayed>>
    BY DEF New, net
  <1>3. \A g \in Futures : g # f => life'[g] = life[g] /\ of'[g] = of[g] /\ nth'[g] = nth[g]
    BY <1>1, <1>2 DEF Shape
  <1>4. /\ life'[f] = "live" /\ of'[f] = k /\ nth'[f] = posted[k] + 1 /\ posted'[k] = posted[k] + 1
        /\ posted[k] \in Nat /\ ~done[f] /\ got[f] = 0
    BY <1>1, <1>2 DEF Shape, Linked
  <1>5. ASSUME NEW j \in Keys \ strayed
        PROVE  Order(j)'
    <2>1. Order(j)
      BY <1>1 DEF InOrder
    <2>2. CASE j # k
      <3>1. SameReceives(j)
        BY <1>1, <1>2, <1>3, <1>4, <2>2 DEF SameReceives, Undone, Live, Shape
      <3> QED
        BY <1>2, <2>1, <3>1, OrderFrame
    <2>3. CASE j = k
      <3>1. Taken(k) = posted[k]
        BY <1>2 DEF Taken, Undone
      <3>2. Undone(f)'
        BY <1>2, <1>4 DEF Undone, Live
      <3>3. Taken(k)' = posted'[k] - 1
        BY <1>4, <3>2 DEF Taken
      <3>4. Taken(k)' = Taken(k)
        BY <1>4, <3>1, <3>3
      <3>5. Drained(k)' = Drained(k)
        BY <1>2, <3>4 DEF Drained
      <3>6. \A g \in Futures : (Undone(g) /\ of[g] = k)' => g = f
        BY <1>2, <1>3 DEF Undone, Live
      <3> QED
        BY <1>2, <1>4, <2>1, <2>3, <3>5, <3>6 DEF Order
    <2> QED
      BY <2>2, <2>3
  <1>6. MatchedInOrder'
    BY <1>1, <1>2, <1>3, <1>4 DEF MatchedInOrder
  <1> QED
    BY <1>2, <1>5, <1>6 DEF InOrder

(* A receive that takes the early message takes the number it waits for.   *)
LEMMA PollInOrder ==
    ASSUME OInv, NEW f \in Futures, Poll(f)
    PROVE  InOrder' /\ MatchedInOrder'
  <1>1. IInv /\ Shape /\ Linked /\ InOrder /\ MatchedInOrder
    BY DEF OInv, IInv
  <1>2. PICK k \in Keys : k = of[f]
    BY <1>1, PollCases
  <1>3. Live(f) /\ UNCHANGED <<sent, stream, of, nth, posted, owner, strayed>>
    BY <1>1, PollCases
  <1>4. \A g \in Futures : Live(g) /\ of[g] = k => g = f
    BY <1>1, <1>2, <1>3 DEF Linked
  <1>5. CASE /\ done[f] /\ life' = [life EXCEPT ![f] = "ready"]
             /\ UNCHANGED <<slots, registered, done, got>>
    <2>1. \A g \in Futures : Undone(g)' <=> Undone(g)
      BY <1>1, <1>5 DEF Undone, Live, Shape
    <2>2. \A j \in Keys : SameReceives(j)
      BY <1>3, <2>1 DEF SameReceives
    <2> QED
      BY <1>1, <1>3, <1>5, <2>2, OrderFrame DEF InOrder, MatchedInOrder
  <1>6. CASE /\ ~done[f] /\ ~registered[f] /\ slots[of[f]].is = "early"
             /\ slots' = take_early(f) /\ got' = [got EXCEPT ![f] = slots[of[f]].bytes]
             /\ done' = [done EXCEPT ![f] = TRUE] /\ life' = [life EXCEPT ![f] = "ready"]
             /\ UNCHANGED registered
    <2>1. \A g \in Futures : Undone(g)' <=> Undone(g) /\ g # f
      BY <1>1, <1>6 DEF Undone, Live, Shape
    <2>2. \A j \in Keys : slots'[j] = IF j = k THEN Vacant ELSE slots[j]
      BY <1>1, <1>2, <1>6 DEF Shape, take_early
    <2>3. ASSUME NEW j \in Keys \ strayed, j # k
          PROVE  Order(j)'
      <3>1. SameReceives(j)
        BY <1>2, <1>3, <2>1, <2>3 DEF SameReceives
      <3> QED
        BY <1>1, <1>3, <2>2, <2>3, <3>1, OrderFrame DEF InOrder
    <2>4. ASSUME k \notin strayed
          PROVE  Order(k)' /\ slots[k].bytes = nth[f]
      <3>1. Order(k) /\ posted[k] \in Nat
        BY <1>1, <2>4 DEF InOrder, Shape
      <3>2. Undone(f) /\ of[f] = k
        BY <1>2, <1>3, <1>6 DEF Undone
      <3>3. Taken(k) = posted[k] - 1 /\ nth[f] = posted[k]
        BY <3>1, <3>2 DEF Taken, Order
      <3>4. Drained(k) = Taken(k) + 1
        BY <1>2, <1>6 DEF Drained
      <3>5. Drained(k) = posted[k] /\ slots[k].bytes = posted[k]
        BY <1>2, <1>6, <3>1, <3>3, <3>4 DEF Order
      <3>6. \A g \in Futures : ~(Undone(g)' /\ of'[g] = k)
        BY <1>3, <1>4, <2>1 DEF Undone
      <3>7. slots'[k].is = "vacant"
        BY <2>2, SlotMembers
      <3>8. Taken(k)' = posted[k]
        BY <1>3, <3>6 DEF Taken
      <3>9. Drained(k)' = Drained(k)
        BY <3>1, <3>5, <3>7, <3>8 DEF Drained
      <3> QED
        BY <1>3, <3>1, <3>3, <3>5, <3>6, <3>7, <3>9 DEF Order
    <2>5. InOrder'
      BY <1>3, <2>3, <2>4 DEF InOrder
    <2>6. MatchedInOrder'
      BY <1>1, <1>2, <1>3, <1>6, <2>4 DEF MatchedInOrder, Shape
    <2> QED
      BY <2>5, <2>6
  <1>7. CASE /\ ~done[f] /\ slots[of[f]].is # "early"
             /\ slots' = [slots EXCEPT ![of[f]] = Pending(f, owner[f])]
             /\ UNCHANGED <<life, done, got>>
    <2>1. \A j \in Keys : SameReceives(j)
      BY <1>3, <1>7 DEF SameReceives, Undone, Live
    <2>2. \A j \in Keys : \/ slots'[j] = slots[j]
                          \/ slots[j].is # "early" /\ slots'[j].is # "early"
      <3>1. \A j \in Keys : slots'[j] = IF j = k THEN Pending(f, owner[f]) ELSE slots[j]
        BY <1>1, <1>2, <1>7 DEF Shape
      <3>2. Pending(f, owner[f]).is # "early"
        BY DEF Pending
      <3> SUFFICES ASSUME NEW j \in Keys, slots'[j] # slots[j]
                   PROVE  slots[j].is # "early" /\ slots'[j].is # "early"
        OBVIOUS
      <3>3. j = k
        BY <3>1
      <3> QED
        BY <1>2, <1>7, <3>1, <3>2, <3>3
    <2> QED
      BY <1>1, <1>3, <1>7, <2>1, <2>2, OrderFrame DEF InOrder, MatchedInOrder
  <1> QED
    BY <1>1, <1>5, <1>6, <1>7, PollCases

(* A key whose receive is given up is excepted from then on.               *)
LEMMA DropInOrder ==
    ASSUME OInv, NEW f \in Futures, Drop(f)
    PROVE  InOrder' /\ MatchedInOrder'
  <1>1. Shape /\ Linked /\ InOrder /\ MatchedInOrder
    BY DEF OInv, IInv
  <1>2. /\ Live(f) /\ life' = [life EXCEPT ![f] = "dropped"]
        /\ strayed' = strayed \cup {of[f]}
        /\ slots' = IF registered[f] /\ ~done[f] THEN [slots EXCEPT ![of[f]] = Vacant] ELSE slots
        /\ UNCHANGED <<sent, stream, of, nth, posted, registered, done, got, owner>>
    BY DEF Drop, net, place
  <1>3. \A g \in Futures : g # f => life'[g] = life[g]
    BY <1>1, <1>2 DEF Shape
  <1>4. ASSUME NEW j \in Keys \ strayed'
        PROVE  Order(j)'
    <2>1. Order(j) /\ j # of[f]
      BY <1>1, <1>2 DEF InOrder
    <2>2. SameReceives(j)
      BY <1>2, <1>3, <2>1 DEF SameReceives, Undone, Live
    <2>3. slots'[j] = slots[j]
      BY <1>1, <1>2, <2>1 DEF Shape
    <2> QED
      BY <1>2, <2>1, <2>2, <2>3, OrderFrame
  <1> QED
    BY <1>1, <1>2, <1>4 DEF InOrder, MatchedInOrder

(* The pairing does not depend on who polls.                               *)
LEMMA MoveInOrder ==
    ASSUME OInv, NEW f \in Futures, NEW t \in Tasks, Move(f, t)
    PROVE  InOrder' /\ MatchedInOrder'
  <1>1. InOrder /\ MatchedInOrder
    BY DEF OInv
  <1>2. UNCHANGED <<sent, stream, of, nth, posted, slots, life, registered, done, got, strayed>>
    BY DEF Move, net, place
  <1>3. \A j \in Keys : SameReceives(j)
    BY <1>2 DEF SameReceives, Undone, Live
  <1> QED
    BY <1>1, <1>2, <1>3, OrderFrame DEF InOrder, MatchedInOrder

(* The nth receive under a key gets the nth message, for any number of     *)
(* keys, receives and messages, as long as no receive under the key was    *)
(* given up and no message of it was lost or met another one.              *)
THEOREM PairedInOrder == Spec => []MatchedInOrder
  <1>1. Init => OInv
    <2> SUFFICES ASSUME Init PROVE OInv
      OBVIOUS
    <2>1. IInv
      BY InitIInv
    <2>2. ASSUME NEW k \in Keys PROVE Order(k)
      <3>1. /\ \A f \in Futures : ~Undone(f)
            /\ posted[k] = 0 /\ sent[k] = 0 /\ slots[k] = Vacant /\ stream = <<>> /\ Len(stream) = 0
        BY DEF Init, Undone, Live
      <3>2. Drained(k) = 0
        BY <3>1, SlotMembers DEF Drained, Taken
      <3>3. Numbered(stream, k, 0, 0)
        BY <3>1 DEF Numbered
      <3> QED
        BY <3>1, <3>2, <3>3, SlotMembers DEF Order
    <2>3. MatchedInOrder
      BY DEF Init, MatchedInOrder
    <2> QED
      BY <2>1, <2>2, <2>3 DEF OInv, InOrder
  <1>2. OInv /\ [Next]_vars => OInv'
    <2> SUFFICES ASSUME OInv, [Next]_vars PROVE InOrder' /\ MatchedInOrder'
      BY NextIInv DEF OInv
    <2>1. CASE UNCHANGED vars
      <3>1. \A j \in Keys : SameReceives(j)
        BY <2>1 DEF vars, SameReceives, Undone, Live
      <3> QED
        BY <2>1, <3>1, OrderFrame DEF vars, OInv, InOrder, MatchedInOrder
    <2>2. CASE \E k \in Keys : Arrive(k)
      BY <2>2, ArriveInOrder
    <2>3. CASE Dispatch
      BY <2>3, DispatchInOrder
    <2>4. CASE DispatchFails
      BY <2>4, DispatchFailsInOrder
    <2>5. CASE \E f \in Futures, k \in Keys, t \in Tasks : New(f, k, t)
      BY <2>5, NewInOrder
    <2>6. CASE \E f \in Futures : Poll(f)
      BY <2>6, PollInOrder
    <2>7. CASE \E f \in Futures : Drop(f)
      BY <2>7, DropInOrder
    <2>8. CASE \E f \in Futures, t \in Tasks : Move(f, t)
      BY <2>8, MoveInOrder
    <2> QED
      BY <2>1, <2>2, <2>3, <2>4, <2>5, <2>6, <2>7, <2>8 DEF Next
  <1>3. OInv => MatchedInOrder
    BY DEF OInv
  <1> QED
    BY <1>1, <1>2, <1>3, PTL DEF Spec

-----------------------------------------------------------------------------
(* The bring-up.                                                           *)
USE BootstrapAssumption

Places == {"start", "accept", "read", "reply", "send", "receive", "connect", "ok",
           "unreachable", "err", "timeout", "panic", "crashed"}
Listening == {"accept", "read", "reply"}
Young == {"start", "accept", "read"}
Holding == {"connect", "ok", "unreachable"}
Ends == {"none", "open", "closed"}
Entries == Workers \cup {NoProc}
Tables == UNION {[0 .. n - 1 -> Entries] : n \in Nat \ {0}}
Replies == Tables \cup {<<>>}
Sockets == [peer : Ends, root : Ends, sent : 0 .. 2, reply : Replies]
Clients == {c \in Workers : rank(c[1]) # 0}

ExchangeTypes ==
    /\ launch \in Launches
    /\ launch \in [Procs -> [rank : Nat, size : Nat]]
    /\ pc \in [Procs -> Places]
    /\ lives \in [Procs -> Nat]
    /\ faults \in 0 .. MaxFaults
    /\ retries \in [Procs -> 0 .. MaxRetries]
    /\ table \in [Procs -> Replies]
    /\ socket \in [Workers -> Sockets]
    /\ listener \in Procs \cup {NoProc}
    /\ backlog \in Seq(Clients)
    /\ tcp_stream \in Workers \cup {NoProc}

(* Every restart was paid for with a crash.                                *)
Counted ==
    \A p \in Procs : /\ lives[p] <= faults
                     /\ pc[p] = "crashed" => lives[p] < faults

(* A connection carries nothing before its process writes.                 *)
Silent ==
    /\ \A p \in Procs : /\ pc[p] = "start" => socket[Me(p)].sent = 0
                        /\ pc[p] = "send" => socket[Me(p)].sent <= 1
    /\ \A c \in Workers : c[2] > lives[c[1]] => socket[c].sent = 0

(* Only the process with the port listens, and only others connect to it.  *)
Roles ==
    \A p \in Procs :
        /\ pc[p] \in Listening => listener = p /\ rank(p) = 0
        /\ pc[p] \in {"send", "receive"} => rank(p) # 0
        /\ pc[p] = "read" => tcp_stream \in Clients

Ranked(x) == \A r \in DOMAIN x : x[r] # NoProc => rank(x[r][1]) = r

(* What rank 0 has collected.                                              *)
Gathered(p) ==
    /\ addresses \in [0 .. size(p) - 1 -> Entries]
    /\ size(p) > 0 => addresses[0] = Me(p)
    /\ Ranked(addresses)
    /\ conns \in [1 .. size(p) - 1 -> Entries]
    /\ \A r \in 1 .. size(p) - 1 : conns[r] # NoProc => conns[r] = addresses[r]
    /\ turn \in Nat \ {0}
    /\ pc[p] = "reply" =>
         /\ turn <= size(p) - 1
         /\ \A r \in 1 .. turn - 1 : addresses[r] # NoProc

Gathering == \A p \in Procs : pc[p] \in Listening => Gathered(p)

(* x is a table that worker c can use.                                     *)
Answer(x, c) ==
    /\ rank(c[1]) \in DOMAIN x
    /\ x[rank(c[1])] = c
    /\ x[0] # NoProc
    /\ Ranked(x)

Replied == \A c \in Workers : socket[c].reply # <<>> => Answer(socket[c].reply, c)

Holds(p) ==
    /\ pc[p] \in Holding
    /\ DOMAIN table[p] = 0 .. size(p) - 1
    /\ Answer(table[p], Me(p))
    /\ rank(p) = 0 => \A r \in DOMAIN table[p] : table[p][r] # NoProc

Held == \A p \in Procs : HasTable(p) => Holds(p)

(* The tables that have left a rank 0: held, on the way, or being sent.    *)
Issued ==
    {table[p] : p \in {q \in Procs : HasTable(q)}}
    \cup {socket[c].reply : c \in {d \in Workers : socket[d].reply # <<>>}}
    \cup {addresses : p \in {q \in Procs : pc[q] = "reply"}}

(* A worker issues one table.                                              *)
Agree == \A x, y \in Issued : x[0] = y[0] => x = y

(* And none while it may still be gathering.                               *)
Past ==
    \A x \in Issued, c \in Workers :
        x[0] = c => /\ c[2] <= lives[c[1]]
                    /\ c[2] = lives[c[1]] => pc[c[1]] \notin Young

BInv ==
    /\ ExchangeTypes /\ Counted /\ Silent /\ Roles
    /\ Gathering /\ Replied /\ Held /\ Agree /\ Past

-----------------------------------------------------------------------------
LEMMA WorkerParts ==
    ASSUME NEW c \in Workers
    PROVE  c[1] \in Procs /\ c[2] \in 0 .. MaxFaults /\ c = <<c[1], c[2]>>
BY DEF Workers

(* The present incarnation of a process is one of Workers.                 *)
LEMMA MeWorker ==
    ASSUME ExchangeTypes, Counted, NEW p \in Procs
    PROVE  Me(p) \in Workers /\ Me(p)[1] = p /\ Me(p)[2] = lives[p]
<1>1. lives[p] \in 0 .. MaxFaults
  BY DEF BootstrapAssumption, ExchangeTypes, Counted
<1>2. QED
  BY <1>1 DEF Me, Workers

LEMMA NoneNoWorker == NoProc \notin Workers /\ NoProc \notin Procs
<1>1. Workers \subseteq Procs \X Nat
  BY DEF Workers, BootstrapAssumption
<1>2. QED
  BY <1>1 DEF BootstrapAssumption

LEMMA TableIsReply ==
    ASSUME NEW n \in Nat \ {0}, NEW x \in [0 .. n - 1 -> Entries]
    PROVE  x \in Replies
BY DEF Replies, Tables

-----------------------------------------------------------------------------
(* What a step that leaves a part of the state alone preserves.            *)

LEMMA GatheringFrame ==
    ASSUME Gathering, launch' = launch, UNCHANGED <<conns, addresses, turn>>,
           \A q \in Procs : pc'[q] \in Listening => pc'[q] = pc[q] /\ lives'[q] = lives[q]
    PROVE  Gathering'
<1> SUFFICES ASSUME NEW q \in Procs, pc'[q] \in Listening
             PROVE  Gathered(q)'
  BY DEF Gathering
<1>1. Gathered(q) /\ pc'[q] = pc[q] /\ lives'[q] = lives[q]
  BY DEF Gathering
<1>2. size(q)' = size(q) /\ Me(q)' = Me(q) /\ Ranked(addresses)' = Ranked(addresses)
  BY <1>1 DEF size, Me, Ranked, rank
<1>3. QED
  BY <1>1, <1>2 DEF Gathered, Entries, Workers

LEMMA RepliedFrame ==
    ASSUME Replied, launch' = launch,
           \A c \in Workers : socket'[c].reply # <<>> => socket'[c].reply = socket[c].reply
    PROVE  Replied'
<1> SUFFICES ASSUME NEW c \in Workers, socket'[c].reply # <<>>
             PROVE  Answer(socket[c].reply, c)'
  BY DEF Replied, Workers
<1>1. Answer(socket[c].reply, c) /\ socket'[c].reply = socket[c].reply
  BY DEF Replied
<1>2. QED
  BY <1>1 DEF Answer, Ranked, rank

LEMMA HeldFrame ==
    ASSUME Held, launch' = launch,
           \A q \in Procs : table'[q] # <<>> =>
               table'[q] = table[q] /\ lives'[q] = lives[q] /\ pc'[q] \in Holding
    PROVE  Held'
<1> SUFFICES ASSUME NEW q \in Procs, table'[q] # <<>>
             PROVE  Holds(q)'
  BY DEF Held, HasTable
<1>1. Holds(q) /\ table'[q] = table[q] /\ lives'[q] = lives[q] /\ pc'[q] \in Holding
  BY DEF Held, HasTable
<1>2. QED
  BY <1>1 DEF Holds, Answer, Ranked, rank, size, Me

LEMMA IssuedFrame ==
    ASSUME \A q \in Procs : table'[q] # <<>> => table'[q] = table[q],
           \A c \in Workers : socket'[c].reply # <<>> => socket'[c].reply = socket[c].reply,
           \A q \in Procs : pc'[q] = "reply" => pc[q] = "reply" /\ addresses' = addresses
    PROVE  Issued' \subseteq Issued
BY DEF Issued, HasTable, Workers

(* No new table: the agreement stands, and a process is young only if it   *)
(* was before or has begun a new life.                                     *)
LEMMA NoneIssued ==
    ASSUME ExchangeTypes, lives' \in [Procs -> Nat], Agree, Past, Issued' \subseteq Issued,
           \A q \in Procs : \/ lives'[q] = lives[q] /\ (pc'[q] \in Young => pc[q] \in Young)
                            \/ lives'[q] > lives[q]
    PROVE  Agree' /\ Past'
<1>1. Agree'
  BY DEF Agree
<1>2. ASSUME NEW x \in Issued', NEW c \in Workers, x[0] = c
      PROVE  c[2] <= lives'[c[1]] /\ (c[2] = lives'[c[1]] => pc'[c[1]] \notin Young)
  <2>1. x \in Issued /\ c[1] \in Procs /\ c[2] \in Nat
    BY WorkerParts
  <2>2. c[2] <= lives[c[1]] /\ (c[2] = lives[c[1]] => pc[c[1]] \notin Young)
    BY <1>2, <2>1 DEF Past
  <2>3. lives[c[1]] \in Nat /\ lives'[c[1]] \in Nat
    BY <2>1 DEF ExchangeTypes
  <2>4. CASE lives'[c[1]] = lives[c[1]] /\ (pc'[c[1]] \in Young => pc[c[1]] \in Young)
    BY <2>2, <2>4
  <2>5. CASE lives'[c[1]] > lives[c[1]]
    BY <2>1, <2>2, <2>3, <2>5
  <2>6. QED
    BY <2>1, <2>4, <2>5
<1>3. QED
  BY <1>1, <1>2 DEF Past, Workers

(* Rank 0 p, which was gathering, issues x.                                *)
LEMMA OneIssued ==
    ASSUME ExchangeTypes, Counted, Agree, Past, lives' = lives,
           NEW p \in Procs, NEW x, x[0] = Me(p), pc[p] \in Young, pc'[p] \notin Young,
           \A q \in Procs \ {p} : pc'[q] = pc[q],
           Issued' \subseteq Issued \cup {x}
    PROVE  Agree' /\ Past'
<1>1. Me(p) \in Workers /\ Me(p)[1] = p /\ Me(p)[2] = lives[p]
  BY MeWorker
<1>2. \A y \in Issued : y[0] # x[0]
  BY <1>1 DEF Past
<1>3. Agree'
  BY <1>2 DEF Agree
<1>4. ASSUME NEW y \in Issued', NEW c \in Workers, y[0] = c
      PROVE  c[2] <= lives'[c[1]] /\ (c[2] = lives'[c[1]] => pc'[c[1]] \notin Young)
  <2>1. c[1] \in Procs /\ c[2] \in Nat
    BY WorkerParts
  <2>2. CASE y = x
    <3>1. c = Me(p)
      BY <1>4, <2>2
    <3>2. QED
      BY <1>1, <3>1 DEF ExchangeTypes
  <2>3. CASE y \in Issued
    <3>1. c[2] <= lives[c[1]] /\ (c[2] = lives[c[1]] => pc[c[1]] \notin Young)
      BY <1>4, <2>3 DEF Past
    <3>2. QED
      BY <2>1, <3>1
  <2>4. QED
    BY <2>2, <2>3
<1>5. QED
  BY <1>3, <1>4 DEF Past, Workers

-----------------------------------------------------------------------------
LEMMA InitBInv == BootstrapInit => BInv
<1> SUFFICES ASSUME BootstrapInit
             PROVE  BInv
  OBVIOUS
<1> USE DEF BootstrapInit
<1>1. ExchangeTypes
  <2>1. launch \in Launches /\ launch \in [Procs -> [rank : Nat, size : Nat]]
    BY DEF BootstrapAssumption
  <2>2. /\ pc \in [Procs -> Places] /\ lives \in [Procs -> Nat] /\ faults \in 0 .. MaxFaults
        /\ retries \in [Procs -> 0 .. MaxRetries] /\ table \in [Procs -> Replies]
    BY DEF BootstrapAssumption, Places, Replies
  <2>3. socket \in [Workers -> Sockets]
    BY DEF Sockets, Ends, Replies
  <2>4. QED
    BY <2>1, <2>2, <2>3 DEF ExchangeTypes
<1>2. Counted
  BY DEF Counted
<1>3. Silent
  <2>1. \A c \in Workers : socket[c].sent = 0
    OBVIOUS
  <2>2. \A p \in Procs : Me(p) \in Workers
    BY <1>1, <1>2, MeWorker
  <2>3. QED
    BY <2>1, <2>2 DEF Silent
<1>4. Roles /\ Gathering
  BY DEF Roles, Gathering, Listening
<1>5. Replied /\ Held /\ Issued = {}
  BY DEF Replied, Held, HasTable, Issued
<1>6. QED
  BY <1>1, <1>2, <1>3, <1>4, <1>5 DEF BInv, Agree, Past

-----------------------------------------------------------------------------
(* Leaving the exchange closes sockets and frees the port, and nothing     *)
(* else: a process that goes on listening finds its state as it was.       *)
LEMMA LeaveEffect ==
    ASSUME ExchangeTypes, NEW p \in Procs, NEW s \in [Workers -> Sockets],
           NEW o \in Places \ Listening, Leave(p, s, o)
    PROVE  /\ pc' \in [Procs -> Places] /\ pc'[p] = o /\ \A q \in Procs \ {p} : pc'[q] = pc[q]
           /\ socket' \in [Workers -> Sockets]
           /\ \A c \in Workers : /\ socket'[c].reply = s[c].reply
                                   /\ socket'[c].sent = s[c].sent
           /\ listener' \in Procs \cup {NoProc}
           /\ backlog' \in Seq(Clients)
           /\ tcp_stream' \in Workers \cup {NoProc}
           /\ UNCHANGED <<launch, lives, retries>>
           /\ listener # p => UNCHANGED <<listener, backlog, conns, addresses, tcp_stream, turn>>
<1> USE DEF Leave
<1>1. pc' \in [Procs -> Places] /\ pc'[p] = o /\ \A q \in Procs \ {p} : pc'[q] = pc[q]
  BY DEF ExchangeTypes
<1>2. ASSUME NEW c \in Workers
      PROVE  /\ socket'[c] \in Sockets
             /\ socket'[c].reply = s[c].reply /\ socket'[c].sent = s[c].sent
  <2> s[c] \in Sockets
    OBVIOUS
  <2>1. socket'[c] = [s[c] EXCEPT
            !.peer = IF c = Me(p) /\ s[c].peer = "open" THEN "closed" ELSE s[c].peer,
            !.root = IF listener = p /\ s[c].root = "open" THEN "closed" ELSE s[c].root]
    BY DEF Closed
  <2>2. QED
    BY <2>1 DEF Sockets, Ends
<1>3. socket' \in [Workers -> Sockets]
  <2>1. socket' = [c \in Workers |-> socket'[c]]
    BY DEF Closed
  <2>2. QED
    BY <1>2, <2>1
<1>4. /\ listener' \in Procs \cup {NoProc} /\ backlog' \in Seq(Clients)
      /\ tcp_stream' \in Workers \cup {NoProc}
  <2>1. <<>> \in Seq(Clients)
    OBVIOUS
  <2>2. QED
    BY <2>1 DEF ExchangeTypes, local
<1>5. /\ UNCHANGED <<launch, lives, retries>>
      /\ listener # p => UNCHANGED <<listener, backlog, conns, addresses, tcp_stream, turn>>
  BY DEF local
<1>6. QED
  BY <1>1, <1>2, <1>3, <1>4, <1>5

(* The parts of the invariant that do not speak of tables.                 *)
LEMMA LeaveFrame ==
    ASSUME BInv, NEW p \in Procs, NEW s \in [Workers -> Sockets],
           NEW o \in Places \ (Listening \cup {"start", "send", "receive"}), Leave(p, s, o),
           o = "crashed" => faults < MaxFaults,
           \A c \in Workers : s[c].sent = socket[c].sent,
           table' \in [Procs -> Replies]
    PROVE  ExchangeTypes' /\ Counted' /\ Silent' /\ Roles' /\ Gathering'
<1> USE DEF BInv
<1> DEFINE effect ==
      /\ pc' \in [Procs -> Places] /\ pc'[p] = o /\ \A q \in Procs \ {p} : pc'[q] = pc[q]
      /\ socket' \in [Workers -> Sockets]
      /\ \A c \in Workers : socket'[c].reply = s[c].reply /\ socket'[c].sent = s[c].sent
      /\ listener' \in Procs \cup {NoProc}
      /\ backlog' \in Seq(Clients)
      /\ tcp_stream' \in Workers \cup {NoProc}
      /\ UNCHANGED <<launch, lives, retries>>
      /\ listener # p => UNCHANGED <<listener, backlog, conns, addresses, tcp_stream, turn>>
<1>1. effect
  BY LeaveEffect
<1>2. faults' = IF o = "crashed" THEN faults + 1 ELSE faults
  BY DEF Leave
<1>3. faults' \in 0 .. MaxFaults /\ faults <= faults'
  BY <1>2 DEF ExchangeTypes, BootstrapAssumption
<1>4. Clients' = Clients
  BY <1>1 DEF Clients, rank, Workers
<1>5. ExchangeTypes'
  BY <1>1, <1>3, <1>4 DEF ExchangeTypes, Workers, Sockets, Replies, Tables, Entries
<1>6. Counted'
  <2> SUFFICES ASSUME NEW q \in Procs
               PROVE  lives'[q] <= faults' /\ (pc'[q] = "crashed" => lives'[q] < faults')
    BY DEF Counted
  <2>1. lives[q] \in Nat /\ faults \in Nat /\ faults' \in Nat /\ lives'[q] = lives[q]
    BY <1>1, <1>3 DEF ExchangeTypes
  <2>2. CASE q = p
    BY <1>1, <1>2, <2>1, <2>2 DEF Counted
  <2>3. CASE q # p
    BY <1>1, <1>3, <2>1, <2>3 DEF Counted
  <2>4. QED
    BY <2>2, <2>3
<1>7. Silent'
  <2>1. \A q \in Procs : Me(q)' = Me(q) /\ Me(q) \in Workers
    BY <1>1, MeWorker DEF Me
  <2>2. \A q \in Procs : socket'[Me(q)].sent = socket[Me(q)].sent
    BY <1>1, <2>1
  <2>3. ASSUME NEW q \in Procs
        PROVE  /\ pc'[q] = "start" => socket'[Me(q)].sent = 0
               /\ pc'[q] = "send" => socket'[Me(q)].sent <= 1
    BY <1>1, <2>2 DEF Silent
  <2>4. \A c \in Workers : c[2] > lives'[c[1]] => socket'[c].sent = 0
    BY <1>1 DEF Silent
  <2>5. QED
    BY <2>1, <2>3, <2>4 DEF Silent, Workers
<1>8. Roles'
  <2> SUFFICES ASSUME NEW q \in Procs
               PROVE  /\ pc'[q] \in Listening => listener' = q /\ rank(q)' = 0
                      /\ pc'[q] \in {"send", "receive"} => rank(q)' # 0
                      /\ pc'[q] = "read" => tcp_stream' \in Clients
    BY <1>4 DEF Roles
  <2>1. rank(q)' = rank(q)
    BY <1>1 DEF rank
  <2>2. CASE q = p
    BY <1>1, <2>2 DEF Listening
  <2>3. CASE q # p
    BY <1>1, <2>1, <2>3 DEF Roles, Listening
  <2>4. QED
    BY <2>2, <2>3
<1>9. Gathering'
  <2>1. CASE \E q \in Procs : pc'[q] \in Listening
    <3>1. PICK q \in Procs : pc'[q] \in Listening
      BY <2>1
    <3>2. listener # p
      BY <1>1, <3>1 DEF Roles
    <3>3. QED
      BY <1>1, <3>2, GatheringFrame
  <2>2. CASE ~ \E q \in Procs : pc'[q] \in Listening
    BY <2>2 DEF Gathering
  <2>3. QED
    BY <2>1, <2>2
<1>10. QED
  BY <1>5, <1>6, <1>7, <1>8, <1>9

(* An end without a table: an error, a panic, a timeout, a crash.          *)
LEMMA FailKeeps ==
    ASSUME BInv, NEW p \in Procs,
           NEW o \in {"err", "panic", "timeout", "crashed"}, Leave(p, socket, o),
           o = "crashed" => faults < MaxFaults,
           table' = [table EXCEPT ![p] = <<>>]
    PROVE  BInv'
<1> USE DEF BInv
<1>1. o \in Places \ (Listening \cup {"start", "send", "receive"})
  BY DEF Places, Listening
<1>2. table' \in [Procs -> Replies] /\ socket \in [Workers -> Sockets]
  BY DEF ExchangeTypes, Replies
<1>3. ExchangeTypes' /\ Counted' /\ Silent' /\ Roles' /\ Gathering'
  BY <1>1, <1>2, LeaveFrame
<1>4. /\ pc'[p] = o /\ \A q \in Procs \ {p} : pc'[q] = pc[q]
      /\ \A c \in Workers : socket'[c].reply = socket[c].reply
      /\ UNCHANGED <<launch, lives>>
      /\ listener # p => addresses' = addresses
  BY <1>1, <1>2, LeaveEffect
<1>5. Replied'
  BY <1>4, RepliedFrame
<1>6. Held'
  <2>1. \A q \in Procs : table'[q] # <<>> => q # p /\ table'[q] = table[q]
    BY DEF ExchangeTypes
  <2>2. \A q \in Procs : table'[q] # <<>> => pc'[q] \in Holding
    BY <1>4, <2>1 DEF Held, Holds, HasTable
  <2>3. QED
    BY <1>4, <2>1, <2>2, HeldFrame
<1>7. Issued' \subseteq Issued
  <2>1. \A q \in Procs : table'[q] # <<>> => table'[q] = table[q]
    BY DEF ExchangeTypes
  <2>2. ASSUME NEW q \in Procs, pc'[q] = "reply"
        PROVE  pc[q] = "reply" /\ addresses' = addresses
    <3>1. q # p /\ pc[q] = "reply"
      BY <1>4, <2>2
    <3>2. listener # p
      BY <3>1 DEF Roles, Listening
    <3>3. QED
      BY <1>4, <3>1, <3>2
  <2>3. QED
    BY <1>4, <2>1, <2>2, IssuedFrame
<1>8. Agree' /\ Past'
  <2>1. \A q \in Procs : pc'[q] \in Young => pc[q] \in Young
    BY <1>4 DEF Young
  <2>2. lives' \in [Procs -> Nat]
    BY <1>4 DEF ExchangeTypes
  <2>3. QED
    BY <1>4, <1>7, <2>1, <2>2, NoneIssued
<1>9. QED
  BY <1>3, <1>5, <1>6, <1>8

LEMMA NoTable ==
    ASSUME BInv, NEW p \in Procs, pc[p] \notin Holding
    PROVE  table = [table EXCEPT ![p] = <<>>]
<1>1. table[p] = <<>>
  BY DEF BInv, Held, Holds, HasTable
<1>2. QED
  BY <1>1 DEF BInv, ExchangeTypes

LEMMA FailsKeep ==
    ASSUME BInv, NEW p \in Procs,
           \/ BindFails(p) \/ ReadPeerFails(p) \/ ReplyFails(p)
           \/ GiveUp(p) \/ SendFails(p) \/ ReceiveFails(p)
    PROVE  BInv'
<1>1. pc[p] \notin Holding /\ UNCHANGED table
  BY DEF Holding, BindFails, ReadPeerFails, ReplyFails, GiveUp, SendFails,
         ReceiveFails
<1>2. PICK o \in {"err", "panic", "timeout"} : Leave(p, socket, o)
  BY DEF BindFails, ReadPeerFails, ReplyFails, GiveUp, SendFails, ReceiveFails
<1>3. QED
  BY <1>1, <1>2, NoTable, FailKeeps

LEMMA CrashKeeps ==
    ASSUME BInv, NEW p \in Procs, Crash(p)
    PROVE  BInv'
<1>1. Leave(p, socket, "crashed") /\ faults < MaxFaults /\ table' = [table EXCEPT ![p] = <<>>]
  BY DEF Crash
<1>2. QED
  BY <1>1, FailKeeps

(* An end with a table x, which s has sent to the others if p is rank 0.   *)
LEMMA SuccessKeeps ==
    ASSUME BInv, NEW p \in Procs, NEW s \in [Workers -> Sockets],
           NEW x \in Replies,
           Leave(p, s, "connect"), table' = [table EXCEPT ![p] = x],
           \A c \in Workers : s[c].sent = socket[c].sent,
           \A c \in Workers : s[c].reply # <<>> =>
               Answer(s[c].reply, c) /\ s[c].reply \in Issued,
           DOMAIN x = 0 .. size(p) - 1, Answer(x, Me(p)),
           rank(p) = 0 => \A r \in DOMAIN x : x[r] # NoProc,
           x \in Issued \/ (x[0] = Me(p) /\ pc[p] \in Young)
    PROVE  BInv'
<1> USE DEF BInv
<1>1. "connect" \in Places \ (Listening \cup {"start", "send", "receive"})
  BY DEF Places, Listening
<1>2. table' \in [Procs -> Replies]
  BY DEF ExchangeTypes
<1>3. ExchangeTypes' /\ Counted' /\ Silent' /\ Roles' /\ Gathering'
  BY <1>1, <1>2, LeaveFrame
<1>4. /\ pc'[p] = "connect" /\ \A q \in Procs \ {p} : pc'[q] = pc[q]
      /\ \A c \in Workers : socket'[c].reply = s[c].reply
      /\ UNCHANGED <<launch, lives>>
      /\ listener # p => addresses' = addresses
  BY <1>1, LeaveEffect
<1>5. Replied'
  <2> SUFFICES ASSUME NEW c \in Workers, socket'[c].reply # <<>>
               PROVE  Answer(socket[c].reply, c)'
    BY DEF Replied, Workers
  <2>1. Answer(s[c].reply, c) /\ socket'[c].reply = s[c].reply
    BY <1>4
  <2>2. QED
    BY <1>4, <2>1 DEF Answer, Ranked, rank
<1>6. Held'
  <2> SUFFICES ASSUME NEW q \in Procs, table'[q] # <<>>
               PROVE  Holds(q)'
    BY DEF Held, HasTable
  <2>1. CASE q = p
    <3>1. table'[p] = x
      BY DEF ExchangeTypes
    <3>2. Answer(table[p], Me(p))'
      BY <1>4, <3>1 DEF Answer, Ranked, rank, Me
    <3>3. QED
      BY <1>4, <2>1, <3>1, <3>2 DEF Holds, Holding, rank, size
  <2>2. CASE q # p
    <3>1. table'[q] = table[q]
      BY <2>2 DEF ExchangeTypes
    <3>2. Holds(q) /\ pc'[q] = pc[q]
      BY <1>4, <2>2, <3>1 DEF Held, HasTable
    <3>3. QED
      BY <1>4, <3>1, <3>2 DEF Holds, Answer, Ranked, rank, size, Me
  <2>3. QED
    BY <2>1, <2>2
<1>7. Issued' \subseteq Issued \cup {x}
  <2>1. \A q \in Procs : table'[q] # <<>> => table'[q] \in Issued \cup {x}
    BY DEF ExchangeTypes, Issued, HasTable
  <2>2. \A c \in Workers : socket'[c].reply # <<>> => socket'[c].reply \in Issued
    BY <1>4
  <2>3. ASSUME NEW q \in Procs, pc'[q] = "reply"
        PROVE  addresses' \in Issued
    <3>1. q # p /\ pc[q] = "reply"
      BY <1>4, <2>3
    <3>2. listener # p
      BY <3>1 DEF Roles, Listening
    <3>3. QED
      BY <1>4, <3>1, <3>2 DEF Issued
  <2>4. Issued' = {table'[q] : q \in {q \in Procs : table'[q] # <<>>}}
                  \cup {socket'[c].reply : c \in {d \in Workers : socket'[d].reply # <<>>}}
                  \cup {addresses' : q \in {q \in Procs : pc'[q] = "reply"}}
    BY DEF Issued, HasTable, Workers
  <2>5. QED
    BY <2>1, <2>2, <2>3, <2>4
<1>8. Agree' /\ Past'
  <2>1. CASE x \in Issued
    <3>1. Issued' \subseteq Issued
      BY <1>7, <2>1
    <3>2. \A q \in Procs : pc'[q] \in Young => pc[q] \in Young
      BY <1>4 DEF Young
    <3>3. lives' \in [Procs -> Nat]
      BY <1>4 DEF ExchangeTypes
    <3>4. QED
      BY <1>4, <3>1, <3>2, <3>3, NoneIssued
  <2>2. CASE x[0] = Me(p) /\ pc[p] \in Young
    <3>1. pc'[p] \notin Young
      BY <1>4 DEF Young
    <3>2. QED
      BY <1>4, <1>7, <2>2, <3>1, OneIssued
  <2>3. QED
    BY <2>1, <2>2
<1>9. QED
  BY <1>3, <1>5, <1>6, <1>8

LEMMA AloneKeeps ==
    ASSUME BInv, NEW p \in Procs, Alone(p)
    PROVE  BInv'
<1> USE DEF BInv
<1>1. pc[p] = "accept" /\ size(p) \in Nat
  BY DEF Alone, ExchangeTypes, size
<1>2. CASE size(p) = 0 /\ Leave(p, socket, "panic") /\ UNCHANGED table
  <2>1. pc[p] \notin Holding
    BY <1>1 DEF Holding
  <2>2. QED
    BY <1>2, <2>1, NoTable, FailKeeps
<1>3. CASE /\ size(p) = 1
           /\ table' = [table EXCEPT ![p] = addresses]
           /\ Leave(p, socket, "connect")
  <2>1. Gathered(p) /\ rank(p) = 0
    BY <1>1 DEF Gathering, Roles, Listening
  <2>2. Me(p) \in Workers /\ Me(p)[1] = p /\ NoProc \notin Workers
    BY MeWorker, NoneNoWorker
  <2>3. /\ addresses \in [0 .. size(p) - 1 -> Entries]
        /\ addresses[0] = Me(p) /\ Ranked(addresses)
    BY <1>3, <2>1 DEF Gathered
  <2>4. addresses \in Replies
    <3>1. size(p) \in Nat \ {0}
      BY <1>3
    <3>2. QED
      BY <2>3, <3>1, TableIsReply
  <2>5. Answer(addresses, Me(p)) /\ \A r \in DOMAIN addresses : addresses[r] # NoProc
    BY <1>3, <2>1, <2>2, <2>3 DEF Answer
  <2>6. socket \in [Workers -> Sockets]
    BY DEF ExchangeTypes
  <2>7. \A c \in Workers : socket[c].reply # <<>> =>
            Answer(socket[c].reply, c) /\ socket[c].reply \in Issued
    BY DEF Replied, Issued
  <2>8. pc[p] \in Young
    BY <1>1 DEF Young
  <2>9. QED
    BY <1>3, <2>3, <2>4, <2>5, <2>6, <2>7, <2>8, SuccessKeeps
<1>4. QED
  BY <1>2, <1>3 DEF Alone

LEMMA SizeOfTable ==
    ASSUME NEW x \in Tables, NEW m \in Nat, Cardinality(DOMAIN x) = m
    PROVE  DOMAIN x = 0 .. m - 1
<1>1. PICK n \in Nat \ {0} : x \in [0 .. n - 1 -> Entries]
  BY DEF Tables
<1>2. DOMAIN x = 0 .. n - 1
  BY <1>1
<1>3. Cardinality(0 .. n - 1) = (IF 0 > n - 1 THEN 0 ELSE n - 1 - 0 + 1)
  <2>1. 0 \in Int /\ n - 1 \in Int
    BY <1>1
  <2>2. QED
    BY <2>1, FS_Interval
<1>4. QED
  BY <1>2, <1>3

LEMMA ReceiveKeeps ==
    ASSUME BInv, NEW p \in Procs, Receive(p)
    PROVE  BInv'
<1> USE DEF BInv
<1> DEFINE reply == socket[Me(p)].reply
<1>1. /\ pc[p] = "receive" /\ reply # <<>> /\ Cardinality(DOMAIN reply) = size(p)
      /\ table' = [table EXCEPT ![p] = reply]
      /\ Leave(p, socket, "connect")
  BY DEF Receive
<1>2. Me(p) \in Workers
  BY MeWorker
<1>3. reply \in Replies /\ reply \in Tables
  BY <1>1, <1>2 DEF ExchangeTypes, Sockets, Replies
<1>4. DOMAIN reply = 0 .. size(p) - 1
  <2>1. size(p) \in Nat
    BY DEF ExchangeTypes, size
  <2>2. QED
    BY <1>1, <1>3, <2>1, SizeOfTable
<1>5. \A c \in Workers : socket[c].reply # <<>> =>
          Answer(socket[c].reply, c) /\ socket[c].reply \in Issued
  BY DEF Replied, Issued
<1>6. Answer(reply, Me(p)) /\ reply \in Issued
  BY <1>1, <1>2, <1>5
<1>7. rank(p) # 0
  BY <1>1 DEF Roles
<1>8. socket \in [Workers -> Sockets]
  BY DEF ExchangeTypes
<1> HIDE DEF reply
<1>9. QED
  BY <1>1, <1>3, <1>4, <1>5, <1>6, <1>7, <1>8, SuccessKeeps

-----------------------------------------------------------------------------
(* The peer whose turn it is gets a table that it can use.                 *)
LEMMA ReplyAnswers ==
    ASSUME BInv, NEW p \in Procs,
           pc[p] = "reply", conns[turn] # NoProc
    PROVE  /\ conns[turn] \in Workers /\ turn \in 1 .. size(p) - 1
           /\ addresses[turn] # NoProc
           /\ addresses \in Replies /\ addresses \in Issued
           /\ Answer(addresses, conns[turn])
<1> USE DEF BInv
<1>1. Gathered(p)
  BY DEF Gathering, Listening
<1>2. size(p) \in Nat
  BY DEF ExchangeTypes, size
<1>3. turn \in 1 .. size(p) - 1 /\ size(p) \in Nat \ {0}
  BY <1>1, <1>2 DEF Gathered
<1>4. conns[turn] \in Workers /\ conns[turn] = addresses[turn]
  BY <1>1, <1>3 DEF Gathered, Entries
<1>5. addresses \in Replies
  BY <1>1, <1>3, TableIsReply DEF Gathered
<1>6. addresses \in Issued
  BY DEF Issued
<1>7. addresses[0] # NoProc
  BY <1>1, <1>3, MeWorker, NoneNoWorker DEF Gathered
<1>8. turn \in DOMAIN addresses
  BY <1>1, <1>3 DEF Gathered
<1>9. rank(conns[turn][1]) = turn
  BY <1>1, <1>4, <1>8 DEF Gathered, Ranked
<1>10. Answer(addresses, conns[turn])
  BY <1>1, <1>4, <1>7, <1>8, <1>9 DEF Answer, Gathered
<1>11. QED
  BY <1>3, <1>4, <1>5, <1>6, <1>10

LEMMA ReplyKeeps ==
    ASSUME BInv, NEW p \in Procs, Reply(p)
    PROVE  BInv'
<1> USE DEF BInv
<1> DEFINE c == conns[turn]
           s == [socket EXCEPT ![c].reply = addresses, ![c].root = "closed"]
<1>1. pc[p] = "reply" /\ c # NoProc
  BY DEF Reply
<1>2. /\ c \in Workers /\ turn \in 1 .. size(p) - 1 /\ addresses[turn] # NoProc
      /\ addresses \in Replies /\ addresses \in Issued /\ Answer(addresses, c)
  BY <1>1, ReplyAnswers
<1>3. Gathered(p) /\ rank(p) = 0 /\ listener = p
  BY <1>1 DEF Gathering, Roles, Listening
<1>4. /\ s \in [Workers -> Sockets]
      /\ \A d \in Workers : /\ s[d].sent = socket[d].sent
                              /\ s[d].reply = IF d = c THEN addresses ELSE socket[d].reply
  <2> HIDE DEF c
  <2>1. socket[c] \in Sockets
    BY <1>2 DEF ExchangeTypes
  <2>2. [socket[c] EXCEPT !.reply = addresses, !.root = "closed"] \in Sockets
    BY <1>2, <2>1 DEF Sockets, Ends
  <2>3. s = [socket EXCEPT ![c] = [socket[c] EXCEPT !.reply = addresses, !.root = "closed"]]
    BY <1>2, <2>1 DEF ExchangeTypes, Sockets
  <2> HIDE DEF s
  <2>4. s \in [Workers -> Sockets]
    BY <1>2, <2>2, <2>3 DEF ExchangeTypes
  <2>5. s[c] = [socket[c] EXCEPT !.reply = addresses, !.root = "closed"]
    BY <1>2, <2>3 DEF ExchangeTypes
  <2>6. s[c].sent = socket[c].sent /\ s[c].reply = addresses
    BY <2>1, <2>5 DEF Sockets
  <2>7. \A d \in Workers : d # c => s[d] = socket[d]
    BY <2>3 DEF ExchangeTypes
  <2>8. QED
    BY <2>4, <2>6, <2>7
<1>5. \A d \in Workers : s[d].reply # <<>> => Answer(s[d].reply, d) /\ s[d].reply \in Issued
  <2> HIDE DEF c, s
  <2>1. QED
    BY <1>2, <1>4 DEF Replied, Issued
<1>6. CASE turn = size(p) - 1
  <2>1. table' = [table EXCEPT ![p] = addresses] /\ Leave(p, s, "connect")
    BY <1>6 DEF Reply
  <2>2. Me(p) \in Workers /\ Me(p)[1] = p /\ NoProc \notin Workers
    BY MeWorker, NoneNoWorker
  <2>3. size(p) \in Nat \ {0} /\ addresses[0] = Me(p) /\ DOMAIN addresses = 0 .. size(p) - 1
    BY <1>2, <1>3 DEF Gathered, ExchangeTypes, size
  <2>4. Answer(addresses, Me(p))
    BY <1>3, <2>2, <2>3 DEF Answer, Gathered
  <2>5. \A r \in DOMAIN addresses : addresses[r] # NoProc
    <3> SUFFICES ASSUME NEW r \in 0 .. size(p) - 1
                 PROVE  addresses[r] # NoProc
      BY <2>3
    <3>1. r = 0 \/ r = turn \/ r \in 1 .. turn - 1
      BY <1>6, <2>3
    <3>2. QED
      BY <1>1, <1>2, <1>3, <2>2, <2>3, <3>1 DEF Gathered
  <2> HIDE DEF c, s
  <2>6. QED
    BY <1>2, <1>4, <1>5, <2>1, <2>3, <2>4, <2>5, SuccessKeeps
<1>7. CASE turn # size(p) - 1
  <2>1. /\ socket' = s /\ conns' = [conns EXCEPT ![turn] = NoProc] /\ turn' = turn + 1
        /\ UNCHANGED <<launch, pc, lives, faults, retries, table, listener, backlog, addresses,
                       tcp_stream>>
    BY <1>7 DEF Reply
  <2> HIDE DEF c, s
  <2>2. Clients' = Clients
    BY <2>1 DEF Clients, rank, Workers
  <2>3. ExchangeTypes'
    BY <1>4, <2>1, <2>2 DEF ExchangeTypes, Workers, Sockets, Replies, Tables, Entries
  <2>4. Counted' /\ Roles'
    BY <2>1, <2>2 DEF Counted, Roles, rank
  <2>5. Silent'
    <3>1. \A q \in Procs : Me(q)' = Me(q) /\ Me(q) \in Workers
      BY <2>1, MeWorker DEF Me
    <3>2. \A d \in Workers : socket'[d].sent = socket[d].sent
      BY <1>4, <2>1
    <3>3. QED
      BY <2>1, <3>1, <3>2 DEF Silent, Workers
  <2>6. Gathering'
    <3> SUFFICES ASSUME NEW q \in Procs, pc'[q] \in Listening
                 PROVE  Gathered(q)'
      BY DEF Gathering
    <3>1. q = p
      BY <1>3, <2>1 DEF Roles
    <3>2. /\ size(p)' = size(p) /\ Me(p)' = Me(p)
          /\ Ranked(addresses)' = Ranked(addresses)
      BY <2>1 DEF size, Me, Ranked, rank
    <3>3. size(p) \in Nat
      BY DEF ExchangeTypes, size
    <3>4. /\ conns' \in [1 .. size(p) - 1 -> Entries]
          /\ \A r \in 1 .. size(p) - 1 : conns'[r] # NoProc => conns'[r] = addresses[r]
      BY <1>3, <2>1 DEF Gathered, Entries
    <3>5. turn' \in Nat \ {0} /\ turn' <= size(p) - 1
      BY <1>2, <1>7, <2>1, <3>3
    <3>6. \A r \in 1 .. turn' - 1 : addresses[r] # NoProc
      <4>1. \A r \in 1 .. turn' - 1 : r = turn \/ r \in 1 .. turn - 1
        BY <1>2, <2>1, <3>3
      <4>2. QED
        BY <1>1, <1>2, <1>3, <4>1 DEF Gathered
    <3>7. QED
      BY <1>3, <2>1, <3>1, <3>2, <3>4, <3>5, <3>6 DEF Gathered, Entries, Workers
  <2>7. Replied'
    <3> SUFFICES ASSUME NEW d \in Workers, socket'[d].reply # <<>>
                 PROVE  Answer(socket[d].reply, d)'
      BY DEF Replied, Workers
    <3>1. Answer(s[d].reply, d) /\ socket'[d].reply = s[d].reply
      BY <1>5, <2>1
    <3>2. QED
      BY <2>1, <3>1 DEF Answer, Ranked, rank
  <2>8. Held'
    BY <2>1, HeldFrame DEF Held, Holds, HasTable
  <2>9. Issued' \subseteq Issued
    <3>1. Issued' = {table[q] : q \in {q \in Procs : table[q] # <<>>}}
                    \cup {s[d].reply : d \in {d \in Workers : s[d].reply # <<>>}}
                    \cup {addresses : q \in {q \in Procs : pc[q] = "reply"}}
      BY <2>1 DEF Issued, HasTable, Workers
    <3>2. QED
      BY <1>5, <3>1 DEF Issued, HasTable
  <2>10. Agree' /\ Past'
    BY <2>1, <2>9, NoneIssued DEF ExchangeTypes
  <2>11. QED
    BY <2>3, <2>4, <2>5, <2>6, <2>7, <2>8, <2>10
<1>8. QED
  BY <1>6, <1>7

-----------------------------------------------------------------------------
LEMMA BindKeeps ==
    ASSUME BInv, NEW p \in Procs, Bind(p)
    PROVE  BInv'
<1> USE DEF BInv
<1>1. /\ pc[p] = "start" /\ rank(p) = 0 /\ listener = NoProc /\ listener' = p /\ turn' = 1
      /\ addresses' = [r \in 0 .. size(p) - 1 |-> IF r = 0 THEN Me(p) ELSE NoProc]
      /\ conns' = [r \in 1 .. size(p) - 1 |-> NoProc]
      /\ pc' = [pc EXCEPT ![p] = "accept"]
      /\ UNCHANGED <<launch, lives, faults, retries, table, socket, backlog, tcp_stream>>
  BY DEF Bind
<1>2. pc'[p] = "accept" /\ \A q \in Procs \ {p} : pc'[q] = pc[q] /\ pc[q] \notin Listening
  BY <1>1, NoneNoWorker DEF ExchangeTypes, Roles
<1>3. Clients' = Clients
  BY <1>1 DEF Clients, rank, Workers
<1>4. ExchangeTypes'
  <2>1. pc' \in [Procs -> Places]
    BY <1>1 DEF ExchangeTypes, Places
  <2>2. QED
    BY <1>1, <1>3, <2>1 DEF ExchangeTypes, Workers, Sockets, Replies, Tables, Entries
<1>5. Counted'
  BY <1>1, <1>2 DEF Counted
<1>6. Silent'
  <2>1. \A q \in Procs : Me(q)' = Me(q)
    BY <1>1 DEF Me
  <2>2. QED
    BY <1>1, <1>2, <2>1 DEF Silent, Workers
<1>7. Roles'
  BY <1>1, <1>2, <1>3 DEF Roles, Listening, rank
<1>8. Gathering'
  <2> SUFFICES Gathered(p)'
    BY <1>2 DEF Gathering
  <2>1. size(p)' = size(p) /\ Me(p)' = Me(p) /\ size(p) \in Nat
    BY <1>1 DEF size, Me, ExchangeTypes
  <2>2. Me(p) \in Workers /\ Me(p)[1] = p
    BY MeWorker
  <2>3. /\ addresses' \in [0 .. size(p) - 1 -> Entries]
        /\ conns' \in [1 .. size(p) - 1 -> Entries]
    BY <1>1, <2>2 DEF Entries
  <2>4. Ranked(addresses)'
    <3>1. \A r \in 0 .. size(p) - 1 : addresses'[r] # NoProc => r = 0 /\ addresses'[r] = Me(p)
      BY <1>1
    <3>2. QED
      BY <1>1, <2>2, <2>3, <3>1 DEF Ranked, rank
  <2>5. QED
    BY <1>1, <1>2, <2>1, <2>3, <2>4 DEF Gathered, Entries, Workers
<1>9. Replied'
  BY <1>1, RepliedFrame
<1>10. Held'
  <2>1. \A q \in Procs : table'[q] # <<>> => pc'[q] \in Holding
    BY <1>1, <1>2 DEF Held, Holds, Holding, HasTable
  <2>2. QED
    BY <1>1, <2>1, HeldFrame
<1>11. Issued' \subseteq Issued
  <2>1. \A q \in Procs : pc'[q] # "reply"
    BY <1>2 DEF Listening
  <2>2. QED
    BY <1>1, <2>1, IssuedFrame
<1>12. Agree' /\ Past'
  <2>1. \A q \in Procs : pc'[q] \in Young => pc[q] \in Young
    BY <1>1, <1>2 DEF Young
  <2>2. QED
    BY <1>1, <1>11, <2>1, NoneIssued DEF ExchangeTypes
<1>13. QED
  BY <1>4, <1>5, <1>6, <1>7, <1>8, <1>9, <1>10, <1>12

LEMMA HeadAndTail ==
    ASSUME NEW S, NEW q \in Seq(S), q # <<>>
    PROVE  Head(q) \in S /\ Tail(q) \in Seq(S)
OBVIOUS

LEMMA AcceptKeeps ==
    ASSUME BInv, NEW p \in Procs, Accept(p)
    PROVE  BInv'
<1> USE DEF BInv
<1>1. /\ pc[p] = "accept" /\ backlog # <<>> /\ tcp_stream' = Head(backlog) /\ backlog' = Tail(backlog)
      /\ pc' = [pc EXCEPT ![p] = "read"]
      /\ UNCHANGED <<launch, lives, faults, retries, table, socket, listener, conns, addresses,
                     turn>>
  BY DEF Accept
<1>2. pc'[p] = "read" /\ \A q \in Procs \ {p} : pc'[q] = pc[q]
  BY <1>1 DEF ExchangeTypes
<1>3. Clients' = Clients /\ Clients \subseteq Workers
  BY <1>1 DEF Clients, rank, Workers
<1>4. tcp_stream' \in Clients /\ backlog' \in Seq(Clients)
  <2>1. backlog \in Seq(Clients)
    BY DEF ExchangeTypes
  <2>2. QED
    BY <1>1, <2>1, HeadAndTail
<1>5. ExchangeTypes'
  <2>1. pc' \in [Procs -> Places]
    BY <1>1 DEF ExchangeTypes, Places
  <2>2. QED
    BY <1>1, <1>3, <1>4, <2>1 DEF ExchangeTypes, Workers, Sockets, Replies, Tables, Entries
<1>6. Counted'
  BY <1>1, <1>2 DEF Counted
<1>7. Silent'
  <2>1. \A q \in Procs : Me(q)' = Me(q)
    BY <1>1 DEF Me
  <2>2. QED
    BY <1>1, <1>2, <2>1 DEF Silent, Workers
<1>8. Roles'
  BY <1>1, <1>2, <1>3, <1>4 DEF Roles, Listening, rank
<1>9. Gathering'
  <2> SUFFICES ASSUME NEW q \in Procs, pc'[q] \in Listening
               PROVE  Gathered(q)'
    BY DEF Gathering
  <2>1. pc[q] \in Listening /\ (pc'[q] = "reply" => pc[q] = "reply")
    BY <1>1, <1>2 DEF Listening
  <2>2. Gathered(q)
    BY <2>1 DEF Gathering
  <2>3. size(q)' = size(q) /\ Me(q)' = Me(q) /\ Ranked(addresses)' = Ranked(addresses)
    BY <1>1 DEF size, Me, Ranked, rank
  <2>4. QED
    BY <1>1, <2>1, <2>2, <2>3 DEF Gathered, Entries, Workers
<1>10. Replied'
  BY <1>1, RepliedFrame
<1>11. Held'
  <2>1. \A q \in Procs : table'[q] # <<>> => pc'[q] \in Holding
    BY <1>1, <1>2 DEF Held, Holds, Holding, HasTable
  <2>2. QED
    BY <1>1, <2>1, HeldFrame
<1>12. Issued' \subseteq Issued
  BY <1>1, <1>2, IssuedFrame
<1>13. Agree' /\ Past'
  <2>1. \A q \in Procs : pc'[q] \in Young => pc[q] \in Young
    BY <1>1, <1>2 DEF Young
  <2>2. QED
    BY <1>1, <1>12, <2>1, NoneIssued DEF ExchangeTypes
<1>14. QED
  BY <1>5, <1>6, <1>7, <1>8, <1>9, <1>10, <1>11, <1>13

(* Entering the address of a peer; with the last one the table is issued.  *)
LEMMA ReadPeerKeeps ==
    ASSUME BInv, NEW p \in Procs, ReadPeer(p)
    PROVE  BInv'
<1> USE DEF BInv
<1> DEFINE r == rank(tcp_stream[1])
           last == LastPeer(p)
<1>1. /\ pc[p] = "read" /\ r < size(p) /\ tcp_stream' = NoProc
      /\ addresses' = [addresses EXCEPT ![r] = tcp_stream]
      /\ conns' = [conns EXCEPT ![r] = tcp_stream]
      /\ pc' = [pc EXCEPT ![p] = IF last THEN "reply" ELSE "accept"]
      /\ turn' = IF last THEN 1 ELSE turn + 1
      /\ UNCHANGED <<launch, lives, faults, retries, table, listener, backlog>>
  BY DEF ReadPeer, Insert
<1>2. PICK old : socket' = [c \in Workers |->
          IF c \in {old, tcp_stream} /\ c # conns'[r] THEN [socket[c] EXCEPT !.root = "closed"]
                                                ELSE socket[c]]
  BY DEF ReadPeer
<1>3. /\ pc'[p] = IF last THEN "reply" ELSE "accept"
      /\ \A q \in Procs \ {p} : pc'[q] = pc[q] /\ pc[q] \notin Listening
  BY <1>1 DEF ExchangeTypes, Roles, Listening
<1>4. Gathered(p) /\ listener = p /\ rank(p) = 0 /\ tcp_stream \in Clients
  BY <1>1 DEF Gathering, Roles, Listening
<1>5. size(p) \in Nat /\ tcp_stream \in Workers /\ r \in 1 .. size(p) - 1
  <2>1. tcp_stream \in Workers /\ r # 0
    BY <1>4 DEF Clients
  <2>2. tcp_stream[1] \in Procs
    BY <2>1, WorkerParts
  <2>3. r \in Nat /\ size(p) \in Nat
    BY <2>2 DEF ExchangeTypes, rank, size
  <2>4. QED
    BY <1>1, <2>1, <2>3
<1> HIDE DEF r
<1>6. /\ socket' \in [Workers -> Sockets]
      /\ \A c \in Workers : /\ socket'[c].reply = socket[c].reply
                              /\ socket'[c].sent = socket[c].sent
  <2>1. ASSUME NEW c \in Workers
        PROVE  /\ socket'[c] \in Sockets
               /\ socket'[c].reply = socket[c].reply /\ socket'[c].sent = socket[c].sent
    <3>1. socket[c] \in Sockets
      BY DEF ExchangeTypes
    <3>2. socket'[c] = socket[c] \/ socket'[c] = [socket[c] EXCEPT !.root = "closed"]
      BY <1>2
    <3>3. QED
      BY <3>1, <3>2 DEF Sockets, Ends
  <2>2. socket' = [c \in Workers |-> socket'[c]]
    BY <1>2
  <2>3. QED
    BY <2>1, <2>2
<1>7. Clients' = Clients
  BY <1>1 DEF Clients, rank, Workers
<1>8. ExchangeTypes'
  <2>1. pc' \in [Procs -> Places]
    BY <1>1 DEF ExchangeTypes, Places
  <2>2. QED
    BY <1>1, <1>6, <1>7, <2>1 DEF ExchangeTypes, Workers, Sockets, Replies, Tables, Entries
<1>9. Counted'
  BY <1>1, <1>3 DEF Counted
<1>10. Silent'
  <2>1. \A q \in Procs : Me(q)' = Me(q) /\ Me(q) \in Workers
    BY <1>1, MeWorker DEF Me
  <2>2. \A q \in Procs : socket'[Me(q)].sent = socket[Me(q)].sent
    BY <1>6, <2>1
  <2>3. ASSUME NEW q \in Procs
        PROVE  /\ pc'[q] = "start" => socket'[Me(q)].sent = 0
               /\ pc'[q] = "send" => socket'[Me(q)].sent <= 1
    BY <1>3, <2>2 DEF Silent
  <2>4. \A c \in Workers : c[2] > lives'[c[1]] => socket'[c].sent = 0
    BY <1>1, <1>6 DEF Silent
  <2>5. QED
    BY <2>1, <2>3, <2>4 DEF Silent, Workers
<1>11. Roles'
  BY <1>1, <1>3, <1>4, <1>7 DEF Roles, Listening, rank
<1>12. /\ addresses' \in [0 .. size(p) - 1 -> Entries] /\ addresses'[0] = Me(p)
       /\ Ranked(addresses)'
  <2>1. addresses \in [0 .. size(p) - 1 -> Entries] /\ addresses[0] = Me(p)
    BY <1>4, <1>5 DEF Gathered
  <2>2. addresses' \in [0 .. size(p) - 1 -> Entries] /\ addresses'[0] = Me(p)
    BY <1>1, <1>5, <2>1 DEF Entries
  <2>3. ASSUME NEW i \in 0 .. size(p) - 1, addresses'[i] # NoProc
        PROVE  rank(addresses'[i][1]) = i
    <3>1. CASE i = r
      BY <1>1, <1>5, <2>1, <3>1 DEF r
    <3>2. CASE i # r
      BY <1>1, <1>4, <2>1, <2>3, <3>2 DEF Gathered, Ranked
    <3>3. QED
      BY <3>1, <3>2
  <2>4. QED
    BY <1>1, <2>2, <2>3 DEF Ranked, rank
<1>13. Gathering'
  <2> SUFFICES Gathered(p)'
    BY <1>3 DEF Gathering
  <2>1. size(p)' = size(p) /\ Me(p)' = Me(p)
    BY <1>1 DEF size, Me
  <2>2. /\ conns' \in [1 .. size(p) - 1 -> Entries]
        /\ \A i \in 1 .. size(p) - 1 : conns'[i] # NoProc => conns'[i] = addresses'[i]
    <3>1. /\ conns \in [1 .. size(p) - 1 -> Entries]
          /\ addresses \in [0 .. size(p) - 1 -> Entries]
          /\ \A i \in 1 .. size(p) - 1 : conns[i] # NoProc => conns[i] = addresses[i]
      BY <1>4 DEF Gathered
    <3>2. QED
      BY <1>1, <1>5, <3>1 DEF Entries
  <2>3. turn' \in Nat \ {0} /\ (last => turn' = 1)
    BY <1>1, <1>4 DEF Gathered
  <2>4. pc'[p] = "reply" => turn' = 1 /\ turn' <= size(p) - 1
    BY <1>3, <1>5, <2>3
  <2>5. QED
    BY <1>12, <2>1, <2>2, <2>3, <2>4 DEF Gathered, Entries, Workers
<1>14. Replied'
  BY <1>1, <1>6, RepliedFrame
<1>15. Held'
  <2>1. \A q \in Procs : table'[q] # <<>> => pc'[q] \in Holding
    BY <1>1, <1>3 DEF Held, Holds, Holding, HasTable
  <2>2. QED
    BY <1>1, <2>1, HeldFrame
<1>16. Agree' /\ Past'
  <2>1. CASE last
    <3>1. Issued' \subseteq Issued \cup {addresses'}
      <4>1. Issued' = {table[q] : q \in {q \in Procs : table[q] # <<>>}}
                 \cup {socket'[d].reply : d \in {d \in Workers : socket'[d].reply # <<>>}}
                 \cup {addresses' : q \in {q \in Procs : pc'[q] = "reply"}}
        BY <1>1 DEF Issued, HasTable, Workers
      <4>2. QED
        BY <1>6, <4>1 DEF Issued, HasTable
    <3>2. pc[p] \in Young /\ pc'[p] \notin Young
      BY <1>1, <1>3, <2>1 DEF Young
    <3>3. QED
      BY <1>1, <1>3, <1>12, <3>1, <3>2, OneIssued
  <2>2. CASE ~last
    <3>1. \A q \in Procs : pc'[q] # "reply"
      BY <1>3, <2>2 DEF Listening
    <3>2. Issued' \subseteq Issued
      BY <1>1, <1>6, <3>1, IssuedFrame
    <3>3. \A q \in Procs : pc'[q] \in Young => pc[q] \in Young
      BY <1>1, <1>3 DEF Young
    <3>4. QED
      BY <1>1, <3>2, <3>3, NoneIssued DEF ExchangeTypes
  <2>3. QED
    BY <2>1, <2>2
<1>17. QED
  BY <1>8, <1>9, <1>10, <1>11, <1>13, <1>14, <1>15, <1>16

-----------------------------------------------------------------------------
(* A step of a process that neither listens nor gets a table.              *)
LEMMA ElsewhereKeeps ==
    ASSUME BInv, NEW p \in Procs, ExchangeTypes',
           UNCHANGED <<launch, lives, table, conns, addresses, turn>>,
           \A c \in Workers : socket'[c].reply = socket[c].reply,
           \A q \in Procs \ {p} : pc'[q] = pc[q],
           pc'[p] \in Places \ Listening,
           pc'[p] \in Young => pc[p] \in Young,
           pc[p] \in Holding => pc'[p] \in Holding
    PROVE  Gathering' /\ Replied' /\ Held' /\ Agree' /\ Past'
<1> USE DEF BInv
<1>1. \A q \in Procs : pc'[q] \in Listening => pc'[q] = pc[q]
  OBVIOUS
<1>2. Gathering'
  BY <1>1, GatheringFrame
<1>3. Replied'
  BY RepliedFrame
<1>4. Held'
  <2>1. \A q \in Procs : table'[q] # <<>> => pc'[q] \in Holding
    BY DEF Held, Holds, HasTable
  <2>2. QED
    BY <2>1, HeldFrame
<1>5. Issued' \subseteq Issued
  <2>1. \A q \in Procs : pc'[q] = "reply" => pc[q] = "reply"
    BY DEF Listening
  <2>2. QED
    BY <2>1, IssuedFrame
<1>6. Agree' /\ Past'
  <2>1. \A q \in Procs : pc'[q] \in Young => pc[q] \in Young
    OBVIOUS
  <2>2. QED
    BY <1>5, <2>1, NoneIssued DEF ExchangeTypes
<1>7. QED
  BY <1>2, <1>3, <1>4, <1>6

LEMMA AppendTyped ==
    ASSUME NEW S, NEW q \in Seq(S), NEW e \in S
    PROVE  Append(q, e) \in Seq(S)
OBVIOUS

LEMMA ConnectKeeps ==
    ASSUME BInv, NEW p \in Procs, Connect(p)
    PROVE  BInv'
<1> USE DEF BInv
<1> DEFINE c == Me(p)
<1>1. /\ pc[p] = "start" /\ rank(p) # 0
      /\ socket' = [socket EXCEPT ![c].peer = "open", ![c].root = "open"]
      /\ backlog' = Append(backlog, c)
      /\ pc' = [pc EXCEPT ![p] = "send"]
      /\ UNCHANGED <<launch, lives, faults, retries, table, listener, conns, addresses, tcp_stream,
                     turn>>
  BY DEF Connect, local
<1>2. c \in Workers /\ c[1] = p
  BY MeWorker
<1> HIDE DEF c
<1>3. pc'[p] = "send" /\ \A q \in Procs \ {p} : pc'[q] = pc[q]
  BY <1>1 DEF ExchangeTypes
<1>4. Clients' = Clients
  BY <1>1 DEF Clients, rank, Workers
<1>5. backlog' \in Seq(Clients)
  <2>1. backlog \in Seq(Clients) /\ c \in Clients
    BY <1>1, <1>2 DEF ExchangeTypes, Clients
  <2>2. QED
    BY <1>1, <2>1, AppendTyped
<1>6. /\ socket' \in [Workers -> Sockets]
      /\ \A d \in Workers : /\ socket'[d].reply = socket[d].reply
                              /\ socket'[d].sent = socket[d].sent
  <2>1. socket[c] \in Sockets
    BY <1>2 DEF ExchangeTypes
  <2>2. socket' = [socket EXCEPT ![c] = [socket[c] EXCEPT !.peer = "open", !.root = "open"]]
    BY <1>1, <1>2, <2>1 DEF ExchangeTypes, Sockets
  <2>3. /\ [socket[c] EXCEPT !.peer = "open", !.root = "open"] \in Sockets
        /\ [socket[c] EXCEPT !.peer = "open", !.root = "open"].reply = socket[c].reply
        /\ [socket[c] EXCEPT !.peer = "open", !.root = "open"].sent = socket[c].sent
    BY <2>1 DEF Sockets, Ends
  <2>4. QED
    BY <1>2, <2>2, <2>3 DEF ExchangeTypes
<1>7. ExchangeTypes'
  <2>1. pc' \in [Procs -> Places]
    BY <1>1 DEF ExchangeTypes, Places
  <2>2. QED
    BY <1>1, <1>4, <1>5, <1>6, <2>1
       DEF ExchangeTypes, Workers, Sockets, Replies, Tables, Entries
<1>8. Counted'
  BY <1>1, <1>3 DEF Counted
<1>9. Silent'
  <2>1. \A q \in Procs : Me(q)' = Me(q) /\ Me(q) \in Workers
    BY <1>1, MeWorker DEF Me
  <2>2. \A q \in Procs : socket'[Me(q)].sent = socket[Me(q)].sent
    BY <1>6, <2>1
  <2>3. ASSUME NEW q \in Procs
        PROVE  /\ pc'[q] = "start" => socket'[Me(q)].sent = 0
               /\ pc'[q] = "send" => socket'[Me(q)].sent <= 1
    <3>1. CASE q = p
      <4>1. socket[Me(q)].sent = 0
        BY <1>1, <3>1 DEF Silent
      <4>2. QED
        BY <2>2, <4>1
    <3>2. CASE q # p
      BY <1>3, <2>2, <3>2 DEF Silent
    <3>3. QED
      BY <3>1, <3>2
  <2>4. \A d \in Workers : d[2] > lives'[d[1]] => socket'[d].sent = 0
    BY <1>1, <1>6 DEF Silent
  <2>5. QED
    BY <2>1, <2>3, <2>4 DEF Silent, Workers
<1>10. Roles'
  BY <1>1, <1>3, <1>4 DEF Roles, Listening, rank
<1>11. Gathering' /\ Replied' /\ Held' /\ Agree' /\ Past'
  <2>1. /\ pc'[p] \in Places \ Listening
        /\ pc'[p] \in Young => pc[p] \in Young
        /\ pc[p] \in Holding => pc'[p] \in Holding
    BY <1>1, <1>3 DEF Places, Listening, Young, Holding
  <2>2. QED
    BY <1>1, <1>3, <1>6, <1>7, <2>1, ElsewhereKeeps
<1>12. QED
  BY <1>7, <1>8, <1>9, <1>10, <1>11

LEMMA RetryKeeps ==
    ASSUME BInv, NEW p \in Procs, Retry(p)
    PROVE  BInv'
<1> USE DEF BInv
<1>1. /\ pc[p] = "start"
      /\ retries' = [retries EXCEPT ![p] = IF retries[p] < MaxRetries THEN retries[p] + 1
                                                                       ELSE retries[p]]
      /\ UNCHANGED <<launch, pc, lives, faults, table, socket, listener, backlog, conns,
                     addresses, tcp_stream, turn>>
  BY DEF Retry, local
<1>2. Clients' = Clients
  BY <1>1 DEF Clients, rank, Workers
<1>3. ExchangeTypes'
  <2>1. retries' \in [Procs -> 0 .. MaxRetries]
    BY <1>1 DEF ExchangeTypes, BootstrapAssumption
  <2>2. QED
    BY <1>1, <1>2, <2>1 DEF ExchangeTypes, Workers, Sockets, Replies, Tables, Entries
<1>4. Counted' /\ Roles'
  BY <1>1, <1>2 DEF Counted, Roles, rank
<1>5. Silent'
  BY <1>1 DEF Silent, Me, Workers
<1>6. Gathering' /\ Replied' /\ Held' /\ Agree' /\ Past'
  <2>1. pc'[p] \in Places \ Listening
    BY <1>1 DEF Places, Listening
  <2>2. QED
    BY <1>1, <1>3, <2>1, ElsewhereKeeps
<1>7. QED
  BY <1>3, <1>4, <1>5, <1>6

LEMMA SendKeeps ==
    ASSUME BInv, NEW p \in Procs, Send(p)
    PROVE  BInv'
<1> USE DEF BInv
<1> DEFINE c == Me(p)
<1>1. /\ pc[p] = "send"
      /\ socket' = [socket EXCEPT ![c].sent = socket[c].sent + 1]
      /\ pc' = [pc EXCEPT ![p] = IF socket[c].sent = 1 THEN "receive" ELSE "send"]
      /\ UNCHANGED <<launch, lives, faults, retries, table, listener, backlog, conns, addresses,
                     tcp_stream, turn>>
  BY DEF Send, local
<1>2. c \in Workers /\ c[1] = p /\ c[2] = lives[p] /\ socket[c].sent <= 1
  BY <1>1, MeWorker DEF Silent
<1>3. \A q \in Procs : Me(q)' = Me(q) /\ Me(q) \in Workers /\ (Me(q) = c => q = p)
  BY <1>1, MeWorker DEF Me
<1>4. c' = c
  BY <1>1 DEF Me
<1> HIDE DEF c
<1>5. /\ pc'[p] = IF socket[c].sent = 1 THEN "receive" ELSE "send"
      /\ \A q \in Procs \ {p} : pc'[q] = pc[q]
  BY <1>1 DEF ExchangeTypes
<1>6. Clients' = Clients
  BY <1>1 DEF Clients, rank, Workers
<1>7. /\ socket' \in [Workers -> Sockets]
      /\ \A d \in Workers : socket'[d].reply = socket[d].reply
      /\ \A d \in Workers : d # c => socket'[d].sent = socket[d].sent
      /\ socket'[c].sent = socket[c].sent + 1 /\ socket[c].sent \in 0 .. 1
  <2>1. socket[c] \in Sockets
    BY <1>2 DEF ExchangeTypes
  <2>2. socket' = [socket EXCEPT ![c] = [socket[c] EXCEPT !.sent = socket[c].sent + 1]]
    BY <1>1, <1>2, <2>1 DEF ExchangeTypes, Sockets
  <2>3. socket[c].sent \in 0 .. 1
    BY <1>2, <2>1 DEF Sockets
  <2>4. /\ [socket[c] EXCEPT !.sent = socket[c].sent + 1] \in Sockets
        /\ [socket[c] EXCEPT !.sent = socket[c].sent + 1].reply = socket[c].reply
        /\ [socket[c] EXCEPT !.sent = socket[c].sent + 1].sent = socket[c].sent + 1
    BY <2>1, <2>3 DEF Sockets
  <2>5. QED
    BY <1>2, <2>2, <2>3, <2>4 DEF ExchangeTypes
<1>8. ExchangeTypes'
  <2>1. pc' \in [Procs -> Places]
    BY <1>1 DEF ExchangeTypes, Places
  <2>2. QED
    BY <1>1, <1>6, <1>7, <2>1 DEF ExchangeTypes, Workers, Sockets, Replies, Tables, Entries
<1>9. Counted'
  BY <1>1, <1>5 DEF Counted
<1>10. Silent'
  <2>1. ASSUME NEW q \in Procs
        PROVE  /\ pc'[q] = "start" => socket'[Me(q)].sent = 0
               /\ pc'[q] = "send" => socket'[Me(q)].sent <= 1
    <3>1. CASE q = p
      <4>1. Me(q) = c
        BY <3>1 DEF c
      <4>2. QED
        BY <1>5, <1>7, <3>1, <4>1
    <3>2. CASE q # p
      BY <1>3, <1>5, <1>7, <3>2 DEF Silent
    <3>3. QED
      BY <3>1, <3>2
  <2>2. ASSUME NEW d \in Workers, d[2] > lives'[d[1]]
        PROVE  socket'[d].sent = 0
    <3>1. d # c
      BY <1>1, <1>2, <2>2 DEF ExchangeTypes
    <3>2. QED
      BY <1>1, <1>7, <2>2, <3>1 DEF Silent
  <2>3. QED
    BY <1>3, <2>1, <2>2 DEF Silent, Workers
<1>11. Roles'
  BY <1>1, <1>5, <1>6 DEF Roles, Listening, rank
<1>12. Gathering' /\ Replied' /\ Held' /\ Agree' /\ Past'
  <2>1. /\ pc'[p] \in Places \ Listening
        /\ pc'[p] \in Young => pc[p] \in Young
        /\ pc[p] \in Holding => pc'[p] \in Holding
    BY <1>1, <1>5 DEF Places, Listening, Young, Holding
  <2>2. QED
    BY <1>1, <1>5, <1>7, <1>8, <2>1, ElsewhereKeeps
<1>13. QED
  BY <1>8, <1>9, <1>10, <1>11, <1>12

LEMMA ConnectAddrKeeps ==
    ASSUME BInv, NEW p \in Procs, ConnectAddr(p)
    PROVE  BInv'
<1> USE DEF BInv
<1>1. PICK o \in {"ok", "unreachable"} : pc' = [pc EXCEPT ![p] = o]
  BY DEF ConnectAddr
<1>2. /\ pc[p] = "connect"
      /\ UNCHANGED <<launch, lives, faults, retries, table, socket, listener, backlog, conns,
                     addresses, tcp_stream, turn>>
  BY DEF ConnectAddr, local
<1>3. pc'[p] = o /\ \A q \in Procs \ {p} : pc'[q] = pc[q]
  BY <1>1 DEF ExchangeTypes
<1>4. Clients' = Clients
  BY <1>2 DEF Clients, rank, Workers
<1>5. ExchangeTypes'
  <2>1. pc' \in [Procs -> Places]
    BY <1>1 DEF ExchangeTypes, Places
  <2>2. QED
    BY <1>2, <1>4, <2>1 DEF ExchangeTypes, Workers, Sockets, Replies, Tables, Entries
<1>6. Counted' /\ Roles'
  BY <1>2, <1>3, <1>4 DEF Counted, Roles, Listening, rank
<1>7. Silent'
  BY <1>2, <1>3 DEF Silent, Me, Workers
<1>8. Gathering' /\ Replied' /\ Held' /\ Agree' /\ Past'
  <2>1. pc'[p] \in Places \ Listening /\ pc'[p] \notin Young /\ pc'[p] \in Holding
    BY <1>3 DEF Places, Listening, Young, Holding
  <2>2. QED
    BY <1>2, <1>3, <1>5, <2>1, ElsewhereKeeps
<1>9. QED
  BY <1>5, <1>6, <1>7, <1>8

(* A new life has sent nothing and issued nothing.                         *)
LEMMA RestartKeeps ==
    ASSUME BInv, NEW p \in Procs, Restart(p)
    PROVE  BInv'
<1> USE DEF BInv
<1>1. /\ pc[p] = "crashed" /\ pc' = [pc EXCEPT ![p] = "start"]
      /\ lives' = [lives EXCEPT ![p] = lives[p] + 1]
      /\ retries' = [retries EXCEPT ![p] = 0]
      /\ UNCHANGED <<launch, faults, table, socket, listener, backlog, conns, addresses, tcp_stream,
                     turn>>
  BY DEF Restart, local
<1>2. /\ pc'[p] = "start" /\ \A q \in Procs \ {p} : pc'[q] = pc[q]
      /\ lives'[p] = lives[p] + 1 /\ \A q \in Procs \ {p} : lives'[q] = lives[q]
      /\ lives' \in [Procs -> Nat] /\ lives[p] \in Nat
  BY <1>1 DEF ExchangeTypes
<1>3. Clients' = Clients
  BY <1>1 DEF Clients, rank, Workers
<1>4. ExchangeTypes'
  <2>1. pc' \in [Procs -> Places] /\ retries' \in [Procs -> 0 .. MaxRetries]
    BY <1>1 DEF ExchangeTypes, Places, BootstrapAssumption
  <2>2. QED
    BY <1>1, <1>2, <1>3, <2>1 DEF ExchangeTypes, Workers, Sockets, Replies, Tables, Entries
<1>5. Counted'
  <2> SUFFICES ASSUME NEW q \in Procs
               PROVE  lives'[q] <= faults' /\ (pc'[q] = "crashed" => lives'[q] < faults')
    BY DEF Counted
  <2>1. faults \in Nat
    BY DEF ExchangeTypes
  <2>2. QED
    BY <1>1, <1>2, <2>1 DEF Counted
<1>6. Silent'
  <2>1. Me(p)' = <<p, lives[p] + 1>> /\ Me(p)' \in Workers
    <3>1. Me(p)' = <<p, lives[p] + 1>>
      BY <1>2 DEF Me
    <3>2. lives[p] + 1 \in 0 .. MaxFaults
      BY <1>1, <1>2 DEF Counted, ExchangeTypes, BootstrapAssumption
    <3>3. QED
      BY <3>1, <3>2 DEF Workers
  <2>2. socket[Me(p)'].sent = 0
    BY <1>2, <2>1 DEF Silent
  <2>3. \A q \in Procs \ {p} : Me(q)' = Me(q)
    BY <1>2 DEF Me
  <2>4. ASSUME NEW q \in Procs
        PROVE  /\ pc'[q] = "start" => socket'[Me(q)'].sent = 0
               /\ pc'[q] = "send" => socket'[Me(q)'].sent <= 1
    BY <1>1, <1>2, <2>2, <2>3 DEF Silent
  <2>5. ASSUME NEW d \in Workers, d[2] > lives'[d[1]]
        PROVE  socket'[d].sent = 0
    <3>1. d[1] \in Procs /\ d[2] \in Nat
      BY WorkerParts
    <3>2. d[2] > lives[d[1]]
      <4>1. CASE d[1] = p
        BY <1>2, <2>5, <3>1, <4>1
      <4>2. CASE d[1] # p
        BY <1>2, <2>5, <3>1, <4>2
      <4>3. QED
        BY <4>1, <4>2
    <3>3. QED
      BY <1>1, <3>2 DEF Silent
  <2>6. QED
    BY <2>4, <2>5 DEF Silent, Workers
<1>7. Roles'
  BY <1>1, <1>2, <1>3 DEF Roles, Listening, rank
<1>8. Gathering'
  <2>1. \A q \in Procs : pc'[q] \in Listening => pc'[q] = pc[q] /\ lives'[q] = lives[q]
    BY <1>2 DEF Listening
  <2>2. QED
    BY <1>1, <2>1, GatheringFrame
<1>9. Replied'
  BY <1>1, RepliedFrame
<1>10. Held'
  <2>1. table[p] = <<>>
    BY <1>1 DEF Held, Holds, Holding, HasTable
  <2>2. \A q \in Procs : table'[q] # <<>> => q # p /\ pc'[q] \in Holding
    BY <1>1, <1>2, <2>1 DEF Held, Holds, HasTable
  <2>3. QED
    BY <1>1, <1>2, <2>2, HeldFrame
<1>11. Agree' /\ Past'
  <2>1. \A q \in Procs : pc'[q] = "reply" => pc[q] = "reply"
    BY <1>2
  <2>2. Issued' \subseteq Issued
    BY <1>1, <2>1, IssuedFrame
  <2>3. \A q \in Procs : \/ lives'[q] = lives[q] /\ (pc'[q] \in Young => pc[q] \in Young)
                         \/ lives'[q] > lives[q]
    BY <1>2
  <2>4. QED
    BY <1>2, <2>2, <2>3, NoneIssued
<1>12. QED
  BY <1>4, <1>5, <1>6, <1>7, <1>8, <1>9, <1>10, <1>11

-----------------------------------------------------------------------------
LEMMA NextBInv == BInv /\ [BootstrapNext]_bootstrapVars => BInv'
<1> SUFFICES ASSUME BInv, [BootstrapNext]_bootstrapVars
             PROVE  BInv'
  OBVIOUS
<1>1. ASSUME NEW p \in Procs, Step(p) \/ Crash(p) \/ Restart(p)
      PROVE  BInv'
  BY <1>1, BindKeeps, AloneKeeps, AcceptKeeps, ReadPeerKeeps, ReplyKeeps, ConnectKeeps,
     RetryKeeps, SendKeeps, ReceiveKeeps, ConnectAddrKeeps, FailsKeep, CrashKeeps, RestartKeeps
     DEF Step
<1>2. CASE UNCHANGED bootstrapVars
  <2>1. UNCHANGED <<launch, pc, lives, faults, retries, table, socket, listener, backlog, conns,
                    addresses, tcp_stream, turn>>
    BY <1>2 DEF bootstrapVars
  <2>2. Clients' = Clients /\ Issued' = Issued
    BY <2>1 DEF Clients, Issued, HasTable, rank, Workers
  <2>3. ExchangeTypes'
    BY <2>1, <2>2 DEF BInv, ExchangeTypes, Workers, Sockets, Replies, Tables, Entries
  <2>4. Counted' /\ Silent' /\ Roles'
    BY <2>1, <2>2 DEF BInv, Counted, Silent, Roles, rank, Me, Workers
  <2>5. Gathering' /\ Replied'
    BY <2>1, GatheringFrame, RepliedFrame DEF BInv
  <2>6. Held'
    BY <2>1, HeldFrame DEF BInv, Held, Holds, HasTable
  <2>7. Agree' /\ Past'
    BY <2>1, <2>2 DEF BInv, Agree, Past, Workers
  <2>8. QED
    BY <2>3, <2>4, <2>5, <2>6, <2>7 DEF BInv
<1>3. QED
  BY <1>1, <1>2 DEF BootstrapNext

LEMMA AlwaysBInv == BootstrapSpec => []BInv
BY InitBInv, NextBInv, PTL DEF BootstrapSpec

LEMMA TypesOfExchange == BInv => BootstrapTypeOK
<1> SUFFICES ASSUME BInv
             PROVE  BootstrapTypeOK
  OBVIOUS
<1> USE DEF BInv
<1>1. lives \in [Procs -> 0 .. MaxFaults]
  BY DEF ExchangeTypes, Counted, BootstrapAssumption
<1>2. \A c \in Workers : /\ socket[c].peer \in {"none", "open", "closed"}
                           /\ socket[c].root \in {"none", "open", "closed"}
                           /\ socket[c].sent \in 0 .. 2
  BY DEF ExchangeTypes, Sockets, Ends
<1>3. backlog \in Seq(Workers)
  <2>1. Clients \subseteq Workers /\ backlog \in Seq(Clients)
    BY DEF Clients, ExchangeTypes
  <2>2. QED
    BY <2>1
<1>4. QED
  BY <1>1, <1>2, <1>3 DEF BootstrapTypeOK, ExchangeTypes, Places

LEMMA UsableTables == BInv => TablesUsable
<1> SUFFICES ASSUME BInv, NEW p \in Procs, HasTable(p)
             PROVE  /\ DOMAIN table[p] = 0 .. size(p) - 1
                    /\ table[p][rank(p)] = Me(p)
                    /\ \A r \in DOMAIN table[p] :
                          table[p][r] # NoProc => rank(table[p][r][1]) = r
                    /\ \A q \in {o \in Procs : HasTable(o) /\ table[o][0] = table[p][0]} :
                          /\ table[p] = table[q]
                          /\ rank(q) = 0 => \A r \in DOMAIN table[p] : table[p][r] # NoProc
  BY DEF TablesUsable
<1> USE DEF BInv
<1>1. Holds(p)
  BY DEF Held
<1>2. table[p][rank(p)] = Me(p)
  BY <1>1 DEF Holds, Answer, Me
<1>3. ASSUME NEW q \in Procs, HasTable(q), table[q][0] = table[p][0]
      PROVE  /\ table[p] = table[q]
             /\ rank(q) = 0 => \A r \in DOMAIN table[p] : table[p][r] # NoProc
  <2>1. table[p] \in Issued /\ table[q] \in Issued
    BY <1>3 DEF Issued
  <2>2. table[p] = table[q]
    BY <1>3, <2>1 DEF Agree
  <2>3. QED
    BY <1>3, <2>2 DEF Held, Holds
<1>4. QED
  BY <1>1, <1>2, <1>3 DEF Holds, Answer, Ranked

(* The state of the exchange stays in its types, however often processes   *)
(* crash and start again: see BootstrapTypeOK.                             *)
THEOREM ExchangeTyped == BootstrapSpec => []BootstrapTypeOK
BY AlwaysBInv, TypesOfExchange, PTL

(* exchange_addresses, for any number of processes, crashes and attempts   *)
(* and whatever they were launched with: whoever gets a table can use it,  *)
(* and all that were answered by one rank 0 have the same.                 *)
THEOREM TablesAgree == BootstrapSpec => []TablesUsable
BY AlwaysBInv, UsableTables, PTL

-----------------------------------------------------------------------------
HIDE BootstrapAssumption

(* n ranks in a ring: how far a is after b; the neighbours.                *)
Gap(n, a, b) == (a + n - b) % n
Pred(n, r) == (r + n - 1) % n
Succ(n, r) == (r + 1) % n

(* Round k of the 2 * (n - 1): its phase and step, the chunk that rank r   *)
(* sends and the one that it receives.                                     *)
RingPhase(n, k) == IF k < n - 1 THEN 0 ELSE 1
RingStep(n, k) == IF k < n - 1 THEN k ELSE k - (n - 1)
Out(n, r, k) == (r + n - RingStep(n, k) + RingPhase(n, k)) % n
In(n, r, k) == (Out(n, r, k) + n - 1) % n

(* The ranks from idx on, up to j further.                                 *)
From(n, idx, j) == {i \in 0 .. n - 1 : Gap(n, i, idx) <= j}

(* Whose contributions to chunk idx rank r has after k rounds, and sends   *)
(* in round k.                                                             *)
Have(n, r, k, idx) ==
    IF k <= n - 1
    THEN IF Gap(n, r, idx) <= k THEN From(n, idx, Gap(n, r, idx)) ELSE {r}
    ELSE IF Gap(n, r, idx) < k - (n - 1) THEN 0 .. n - 1 ELSE From(n, idx, Gap(n, r, idx))
Sent(n, r, k) == IF k < n - 1 THEN From(n, Out(n, r, k), k) ELSE 0 .. n - 1

Sum(c, s, S) == SetToBag({<<i, c, s>> : i \in S})

-----------------------------------------------------------------------------
(* Arithmetic.                                                             *)

LEMMA ModSmall ==
    ASSUME NEW n \in Nat \ {0}, NEW y \in 0 .. 3 * n - 1
    PROVE  y % n = IF y < n THEN y ELSE IF y < 2 * n THEN y - n ELSE y - 2 * n
OBVIOUS

LEMMA DivSmall ==
    ASSUME NEW n \in Nat \ {0}, NEW y \in 0 .. 2 * n - 1
    PROVE  y \div n = IF y < n THEN 0 ELSE 1
OBVIOUS

LEMMA DivMod ==
    ASSUME NEW n \in Nat \ {0}, NEW q \in Nat, NEW k \in 0 .. n - 1
    PROVE  (q * n + k) % n = k /\ (q * n + k) \div n = q
OBVIOUS

LEMMA GapIs ==
    ASSUME NEW n \in Nat \ {0}, NEW a \in 0 .. n - 1, NEW b \in 0 .. n - 1
    PROVE  Gap(n, a, b) = IF a >= b THEN a - b ELSE a + n - b
<1> DEFINE y == a + n - b
<1>1. y \in 0 .. 3 * n - 1 /\ y < 2 * n /\ (y < n <=> a < b)
  OBVIOUS
<1> HIDE DEF y
<1>2. y % n = IF a < b THEN y ELSE y - n
  BY <1>1, ModSmall
<1>3. QED
  BY <1>2 DEF Gap, y

LEMMA NeighboursAre ==
    ASSUME NEW n \in Nat \ {0, 1}, NEW r \in 0 .. n - 1
    PROVE  /\ Pred(n, r) = IF r = 0 THEN n - 1 ELSE r - 1
           /\ Succ(n, r) = IF r = n - 1 THEN 0 ELSE r + 1
<1> DEFINE x == r + n - 1
           y == r + 1
<1>1. /\ x \in 0 .. 3 * n - 1 /\ x < 2 * n /\ (x < n <=> r = 0)
      /\ y \in 0 .. 3 * n - 1 /\ y < 2 * n /\ (y < n <=> r # n - 1)
  OBVIOUS
<1> HIDE DEF x, y
<1>2. x % n = (IF r = 0 THEN x ELSE x - n) /\ y % n = (IF r = n - 1 THEN y - n ELSE y)
  BY <1>1, ModSmall
<1>3. QED
  BY <1>2 DEF Pred, Succ, x, y

LEMMA Neighbours ==
    ASSUME NEW n \in Nat \ {0, 1}, NEW r \in 0 .. n - 1
    PROVE  /\ Pred(n, r) \in 0 .. n - 1 /\ Succ(n, r) \in 0 .. n - 1
           /\ Succ(n, Pred(n, r)) = r /\ Pred(n, Succ(n, r)) = r
           /\ Pred(n, r) # r
<1>1. Pred(n, r) \in 0 .. n - 1 /\ Succ(n, r) \in 0 .. n - 1 /\ Pred(n, r) # r
  BY NeighboursAre
<1>2. /\ Pred(n, r) = IF r = 0 THEN n - 1 ELSE r - 1
      /\ Succ(n, r) = IF r = n - 1 THEN 0 ELSE r + 1
  BY NeighboursAre
<1>3. Succ(n, Pred(n, r)) = IF Pred(n, r) = n - 1 THEN 0 ELSE Pred(n, r) + 1
  BY <1>1, NeighboursAre
<1>4. Pred(n, Succ(n, r)) = IF Succ(n, r) = 0 THEN n - 1 ELSE Succ(n, r) - 1
  BY <1>1, NeighboursAre
<1>5. QED
  BY <1>1, <1>2, <1>3, <1>4

LEMMA ChunksAre ==
    ASSUME NEW n \in Nat \ {0, 1}, NEW r \in 0 .. n - 1, NEW k \in 0 .. 2 * (n - 1) - 1
    PROVE  /\ Out(n, r, k) = IF k < n - 1 THEN (IF r >= k THEN r - k ELSE r + n - k)
                             ELSE LET y == r - (k - (n - 1)) + 1
                                  IN  IF y < 0 THEN y + n ELSE IF y < n THEN y ELSE y - n
           /\ In(n, r, k) = IF Out(n, r, k) = 0 THEN n - 1 ELSE Out(n, r, k) - 1
           /\ Out(n, r, k) \in 0 .. n - 1 /\ In(n, r, k) \in 0 .. n - 1
<1> DEFINE z == r + n - RingStep(n, k) + RingPhase(n, k)
<1>1. /\ z \in 0 .. 3 * n - 1
      /\ k < n - 1 => z = r + n - k
      /\ ~(k < n - 1) => z = r - (k - (n - 1)) + 1 + n
  BY DEF RingStep, RingPhase
<1> HIDE DEF z
<1>2. z % n = IF z < n THEN z ELSE IF z < 2 * n THEN z - n ELSE z - 2 * n
  BY <1>1, ModSmall
<1>3. Out(n, r, k) = z % n
  BY DEF Out, z
<1>4. Out(n, r, k) \in 0 .. n - 1
  BY <1>1, <1>2, <1>3
<1>5. Out(n, r, k) = IF k < n - 1 THEN (IF r >= k THEN r - k ELSE r + n - k)
                     ELSE LET y == r - (k - (n - 1)) + 1
                          IN  IF y < 0 THEN y + n ELSE IF y < n THEN y ELSE y - n
  BY <1>1, <1>2, <1>3
<1>6. In(n, r, k) = IF Out(n, r, k) = 0 THEN n - 1 ELSE Out(n, r, k) - 1
  BY <1>4, NeighboursAre DEF In, Pred
<1>7. QED
  BY <1>4, <1>5, <1>6

(* A rank receives the chunk that its predecessor sends.                   *)
LEMMA InIsOut ==
    ASSUME NEW n \in Nat \ {0, 1}, NEW r \in 0 .. n - 1, NEW k \in 0 .. 2 * (n - 1) - 1
    PROVE  In(n, r, k) = Out(n, Pred(n, r), k)
<1>1. Pred(n, r) \in 0 .. n - 1 /\ Pred(n, r) = IF r = 0 THEN n - 1 ELSE r - 1
  BY Neighbours, NeighboursAre
<1> DEFINE o == Out(n, r, k)
           i == In(n, r, k)
           p == Pred(n, r)
           q == Out(n, p, k)
<1>2. /\ o = IF k < n - 1 THEN (IF r >= k THEN r - k ELSE r + n - k)
             ELSE LET y == r - (k - (n - 1)) + 1
                  IN  IF y < 0 THEN y + n ELSE IF y < n THEN y ELSE y - n
      /\ i = IF o = 0 THEN n - 1 ELSE o - 1
  BY ChunksAre
<1>3. q = IF k < n - 1 THEN (IF p >= k THEN p - k ELSE p + n - k)
          ELSE LET y == p - (k - (n - 1)) + 1
               IN  IF y < 0 THEN y + n ELSE IF y < n THEN y ELSE y - n
  BY <1>1, ChunksAre
<1>4. p = IF r = 0 THEN n - 1 ELSE r - 1
  BY <1>1
<1> HIDE DEF o, i, p, q
<1>5. i = q
  <2>1. CASE k < n - 1
    BY <1>2, <1>3, <1>4, <2>1
  <2>2. CASE ~(k < n - 1)
    BY <1>2, <1>3, <1>4, <2>2
  <2>3. QED
    BY <2>1, <2>2
<1>6. QED
  BY <1>5 DEF i, q, p

(* How far a rank is from the chunks of a round.                           *)
LEMMA ChunkGaps ==
    ASSUME NEW n \in Nat \ {0, 1}, NEW r \in 0 .. n - 1, NEW k \in 0 .. 2 * (n - 1) - 1
    PROVE  /\ k < n - 1 => /\ Gap(n, r, Out(n, r, k)) = k
                           /\ Gap(n, r, In(n, r, k)) = k + 1
           /\ ~(k < n - 1) =>
                /\ \/ Gap(n, r, Out(n, r, k)) = n - 1
                   \/ Gap(n, r, Out(n, r, k)) < k - (n - 1)
                /\ Gap(n, r, In(n, r, k)) = k - (n - 1)
<1> DEFINE o == Out(n, r, k)
           i == In(n, r, k)
<1>1. /\ o = IF k < n - 1 THEN (IF r >= k THEN r - k ELSE r + n - k)
             ELSE LET y == r - (k - (n - 1)) + 1
                  IN  IF y < 0 THEN y + n ELSE IF y < n THEN y ELSE y - n
      /\ i = IF o = 0 THEN n - 1 ELSE o - 1
      /\ o \in 0 .. n - 1 /\ i \in 0 .. n - 1
  BY ChunksAre
<1>2. /\ Gap(n, r, o) = IF r >= o THEN r - o ELSE r + n - o
      /\ Gap(n, r, i) = IF r >= i THEN r - i ELSE r + n - i
  BY <1>1, GapIs
<1> HIDE DEF o, i
<1>3. CASE k < n - 1
  <2>1. Gap(n, r, o) = k /\ Gap(n, r, i) = k + 1
    BY <1>1, <1>2, <1>3
  <2>2. QED
    BY <1>3, <2>1 DEF o, i
<1>4. CASE ~(k < n - 1)
  <2>1. /\ Gap(n, r, o) = n - 1 \/ Gap(n, r, o) < k - (n - 1)
        /\ Gap(n, r, i) = k - (n - 1)
    BY <1>1, <1>2, <1>4
  <2>2. QED
    BY <1>4, <2>1 DEF o, i
<1>5. QED
  BY <1>3, <1>4

LEMMA GapUnique ==
    ASSUME NEW n \in Nat \ {0}, NEW a \in 0 .. n - 1, NEW b \in 0 .. n - 1, NEW c \in 0 .. n - 1
    PROVE  /\ Gap(n, a, b) \in 0 .. n - 1
           /\ Gap(n, a, b) = Gap(n, a, c) => b = c
           /\ Gap(n, a, c) = Gap(n, b, c) => a = b
<1>1. /\ Gap(n, a, b) = IF a >= b THEN a - b ELSE a + n - b
      /\ Gap(n, a, c) = IF a >= c THEN a - c ELSE a + n - c
      /\ Gap(n, b, c) = IF b >= c THEN b - c ELSE b + n - c
  BY GapIs
<1>2. QED
  BY <1>1

-----------------------------------------------------------------------------
(* Contributions.                                                          *)

LEMMA HaveFirst ==
    ASSUME NEW n \in Nat \ {0}, NEW r \in 0 .. n - 1, NEW idx \in 0 .. n - 1
    PROVE  Have(n, r, 0, idx) = {r}
<1>1. Gap(n, r, idx) \in 0 .. n - 1
  BY GapUnique
<1>2. CASE Gap(n, r, idx) = 0
  <2>1. \A i \in 0 .. n - 1 : Gap(n, i, idx) \in 0 .. n - 1 /\ (Gap(n, i, idx) = 0 => i = r)
    BY <1>2, GapUnique
  <2>2. From(n, idx, 0) = {r}
    BY <1>2, <2>1 DEF From
  <2>3. QED
    BY <1>2, <2>2 DEF Have
<1>3. CASE Gap(n, r, idx) # 0
  BY <1>1, <1>3 DEF Have
<1>4. QED
  BY <1>2, <1>3

LEMMA FromAll ==
    ASSUME NEW n \in Nat \ {0}, NEW idx \in 0 .. n - 1
    PROVE  From(n, idx, n - 1) = 0 .. n - 1
<1>1. \A i \in 0 .. n - 1 : Gap(n, i, idx) <= n - 1
  BY GapUnique
<1>2. QED
  BY <1>1 DEF From

LEMMA HaveAll ==
    ASSUME NEW n \in Nat \ {0}, NEW r \in 0 .. n - 1, NEW idx \in 0 .. n - 1
    PROVE  Have(n, r, 2 * (n - 1), idx) = 0 .. n - 1
<1>1. Gap(n, r, idx) \in 0 .. n - 1
  BY GapUnique
<1>2. CASE n = 1
  <2>1. r = 0 /\ 2 * (n - 1) = 0 /\ 0 .. n - 1 = {0}
    BY <1>2
  <2>2. QED
    BY <2>1, HaveFirst
<1>3. CASE n # 1 /\ Gap(n, r, idx) = n - 1
  <2>1. ~(2 * (n - 1) <= n - 1) /\ ~(n - 1 < 2 * (n - 1) - (n - 1))
    BY <1>3
  <2>2. QED
    BY <1>3, <2>1, FromAll DEF Have
<1>4. CASE n # 1 /\ Gap(n, r, idx) # n - 1
  <2>1. ~(2 * (n - 1) <= n - 1) /\ Gap(n, r, idx) < 2 * (n - 1) - (n - 1)
    BY <1>1, <1>4
  <2>2. QED
    BY <2>1 DEF Have
<1>5. QED
  BY <1>2, <1>3, <1>4

(* What a rank sends is all it has of the chunk.                           *)
LEMMA HaveOut ==
    ASSUME NEW n \in Nat \ {0, 1}, NEW r \in 0 .. n - 1, NEW k \in 0 .. 2 * (n - 1) - 1
    PROVE  Have(n, r, k, Out(n, r, k)) = Sent(n, r, k)
<1> DEFINE o == Out(n, r, k)
<1>1. o \in 0 .. n - 1
  BY ChunksAre
<1>2. CASE k < n - 1
  <2>1. Gap(n, r, o) = k /\ k <= n - 1 /\ k <= k
    BY <1>2, ChunkGaps
  <2>2. QED
    BY <1>2, <2>1 DEF Have, Sent
<1>3. CASE ~(k < n - 1)
  <2>1. Gap(n, r, o) = n - 1 \/ Gap(n, r, o) < k - (n - 1)
    BY <1>3, ChunkGaps
  <2>2. Sent(n, r, k) = 0 .. n - 1
    BY <1>3 DEF Sent
  <2>3. CASE Gap(n, r, o) = n - 1
    <3>1. From(n, o, n - 1) = 0 .. n - 1
      BY <1>1, FromAll
    <3>2. k <= n - 1 => n - 1 <= k
      BY <1>3
    <3>3. QED
      BY <2>2, <2>3, <3>1, <3>2 DEF Have
  <2>4. CASE Gap(n, r, o) < k - (n - 1)
    <3>1. ~(k <= n - 1)
      <4>1. Gap(n, r, o) \in 0 .. n - 1
        BY <1>1, GapUnique
      <4>2. QED
        BY <2>4, <4>1
    <3>2. QED
      BY <2>2, <2>4, <3>1 DEF Have
  <2>5. QED
    BY <2>1, <2>3, <2>4
<1>4. QED
  BY <1>2, <1>3

(* What it has of the chunk that it receives, before and after.            *)
LEMMA HaveIn ==
    ASSUME NEW n \in Nat \ {0, 1}, NEW r \in 0 .. n - 1, NEW k \in 0 .. 2 * (n - 1) - 1
    PROVE  /\ k < n - 1 =>
                /\ Have(n, r, k, In(n, r, k)) = {r}
                /\ r \notin Sent(n, Pred(n, r), k)
                /\ Have(n, r, k + 1, In(n, r, k)) = {r} \cup Sent(n, Pred(n, r), k)
           /\ ~(k < n - 1) => Have(n, r, k + 1, In(n, r, k)) = Sent(n, Pred(n, r), k)
<1> DEFINE i == In(n, r, k)
<1>1. i \in 0 .. n - 1 /\ i = Out(n, Pred(n, r), k)
  BY ChunksAre, InIsOut
<1>2. CASE k < n - 1
  <2>1. Gap(n, r, i) = k + 1
    BY <1>2, ChunkGaps
  <2>2. Sent(n, Pred(n, r), k) = From(n, i, k)
    BY <1>1, <1>2 DEF Sent
  <2> HIDE DEF i
  <2>3. Have(n, r, k, i) = {r}
    <3>1. k <= n - 1 /\ ~(k + 1 <= k)
      BY <1>2
    <3>2. QED
      BY <2>1, <3>1 DEF Have
  <2>4. r \notin From(n, i, k)
    BY <2>1 DEF From
  <2>5. Have(n, r, k + 1, i) = From(n, i, k + 1)
    <3>1. k + 1 <= n - 1 /\ k + 1 <= k + 1
      BY <1>2
    <3>2. QED
      BY <2>1, <3>1 DEF Have
  <2>6. From(n, i, k + 1) = {r} \cup From(n, i, k)
    <3>1. \A j \in 0 .. n - 1 : Gap(n, j, i) \in 0 .. n - 1 /\ (Gap(n, j, i) = k + 1 => j = r)
      BY <1>1, <2>1, GapUnique
    <3>2. \A j \in 0 .. n - 1 : Gap(n, j, i) <= k + 1 <=> (j = r \/ Gap(n, j, i) <= k)
      BY <2>1, <3>1
    <3>3. QED
      BY <3>2 DEF From
  <2>7. QED
    BY <1>2, <2>2, <2>3, <2>4, <2>5, <2>6 DEF i
<1>3. CASE ~(k < n - 1)
  <2>1. Gap(n, r, i) = k - (n - 1)
    BY <1>3, ChunkGaps
  <2>2. ~(k + 1 <= n - 1) /\ k - (n - 1) < k + 1 - (n - 1)
    BY <1>3
  <2>3. QED
    BY <1>3, <2>1, <2>2 DEF Have, Sent
<1>4. QED
  BY <1>2, <1>3

(* Other chunks stay as they are.                                          *)
LEMMA HaveOther ==
    ASSUME NEW n \in Nat \ {0, 1}, NEW r \in 0 .. n - 1, NEW k \in 0 .. 2 * (n - 1) - 1,
           NEW idx \in 0 .. n - 1, idx # In(n, r, k)
    PROVE  Have(n, r, k + 1, idx) = Have(n, r, k, idx)
<1> DEFINE i == In(n, r, k)
           g == Gap(n, r, idx)
<1>1. i \in 0 .. n - 1 /\ g \in 0 .. n - 1 /\ Gap(n, r, i) # g
  BY ChunksAre, GapUnique
<1>2. (k < n - 1 => Gap(n, r, i) = k + 1) /\ (~(k < n - 1) => Gap(n, r, i) = k - (n - 1))
  BY ChunkGaps
<1> HIDE DEF i, g
<1>3. CASE k < n - 1
  <2>1. k <= n - 1 /\ k + 1 <= n - 1 /\ (g <= k <=> g <= k + 1)
    BY <1>1, <1>2, <1>3
  <2>2. QED
    BY <2>1 DEF Have, g
<1>4. CASE k = n - 1
  <2>1. k <= n - 1 /\ ~(k + 1 <= n - 1) /\ g <= k /\ ~(g < k + 1 - (n - 1))
    BY <1>1, <1>2, <1>4
  <2>2. QED
    BY <2>1 DEF Have, g
<1>5. CASE k > n - 1
  <2>1. ~(k <= n - 1) /\ ~(k + 1 <= n - 1) /\ (g < k - (n - 1) <=> g < k + 1 - (n - 1))
    BY <1>1, <1>2, <1>5
  <2>2. QED
    BY <2>1 DEF Have, g
<1>6. QED
  BY <1>3, <1>4, <1>5

(* Reducing two values with no contribution in common.                     *)
LEMMA SumUnion ==
    ASSUME NEW c, NEW s, NEW S, NEW T, S \cap T = {}
    PROVE  reduce_in_place(Sum(c, s, S), Sum(c, s, T)) = Sum(c, s, S \cup T)
<1> DEFINE A == {<<i, c, s>> : i \in S}
           D == {<<i, c, s>> : i \in T}
<1>1. A \cap D = {}
  OBVIOUS
<1>2. {<<i, c, s>> : i \in S \cup T} = A \cup D
  OBVIOUS
<1> HIDE DEF A, D
<1>3. SetToBag(A) (+) SetToBag(D) = SetToBag(A \cup D)
  BY <1>1 DEF SetToBag, (+)
<1>4. QED
  BY <1>2, <1>3 DEF Sum, reduce_in_place, A, D

(* Slots of M micro-chunks.                                                *)
LEMMA SlotParts ==
    ASSUME NEW n \in Nat, NEW mm \in Nat, NEW s \in 0 .. n * mm - 1
    PROVE  \E idx \in 0 .. n - 1, m \in 0 .. mm - 1 : s = idx * mm + m
<1>1. mm > 0 /\ s \in Nat
  <2>1. n * mm > 0
    OBVIOUS
  <2>2. QED
    BY <2>1
<1> DEFINE q == s \div mm
           m == s % mm
<1>2. s = q * mm + m /\ q \in Int /\ m \in 0 .. mm - 1 /\ q >= 0
  BY <1>1
<1>3. q \in 0 .. n - 1
  BY <1>1, <1>2
<1> HIDE DEF q, m
<1>4. QED
  BY <1>2, <1>3

LEMMA SlotUnique ==
    ASSUME NEW mm \in Nat \ {0}, NEW q \in Nat, NEW p \in Nat,
           NEW k \in 0 .. mm - 1, NEW l \in 0 .. mm - 1, q * mm + k = p * mm + l
    PROVE  q = p /\ k = l
OBVIOUS

LEMMA SlotIn ==
    ASSUME NEW n \in Nat, NEW mm \in Nat, NEW idx \in 0 .. n - 1, NEW m \in 0 .. mm - 1
    PROVE  idx * mm + m \in 0 .. n * mm - 1
OBVIOUS

-----------------------------------------------------------------------------
(* The messages: what chain m of rank s sends in round k of call c.        *)
Tag(n, s, m, k) ==
    [src |-> s, step |-> RingStep(n, k), phase |-> RingPhase(n, k), micro_chunk |-> m]
Parcel(n, mm, s, m, c, k) ==
    [key |-> Tag(n, s, m, k), vals |-> <<Sum(c, Out(n, s, k) * mm + m, Sent(n, s, k))>>]
Parcels == {Parcel(N, M, s, m, c, k) :
              s \in Ranks, m \in Chains, c \in 1 .. Calls, k \in 0 .. Rounds - 1}

(* What chain m of rank r waits for.                                       *)
Want(r, m) == Parcel(N, M, Pred(N, r), m, call[r], round[r][m])

(* The job is a ring allreduce, asked for or chosen.                       *)
Rings == Used \in {"ring", "pipelined"}

Shapes ==
    /\ job \in Jobs
    /\ call \in [Ranks -> 1 .. Calls]
    /\ round \in [Ranks -> [Chains -> 0 .. Rounds]]
    /\ started \in [Ranks -> [Chains -> BOOLEAN]]
    /\ received \in [Ranks -> [Chains -> {x.vals : x \in Parcels} \cup {<<>>}]]
    /\ DOMAIN buf = Ranks
    /\ wire \in [Ranks \X Ranks -> Seq(Parcels)]
    /\ early \in [Ranks -> Seq(Parcels)]
    /\ failed \subseteq Ranks \X Chains
    /\ errs \subseteq Ranks

(* A chain has got something only in the round that it has started.        *)
InRound ==
    \A r \in Ranks, m \in Chains :
        /\ started[r][m] => round[r][m] < Rounds
        /\ ~started[r][m] => received[r][m] = <<>>

(* And then it is what it waits for.                                       *)
GotRight ==
    \A r \in Ranks, m \in Chains : received[r][m] # <<>> => received[r][m] = Want(r, m).vals

Buffered(r, m) ==
    \A idx \in Ranks :
        buf[r][idx * M + m] = Sum(call[r], idx * M + m, Have(N, r, round[r][m], idx))
BuffersRight == \A r \in Ranks, m \in Chains : Buffered(r, m)

(* The rounds of a chain are numbered through all calls: where it is, the  *)
(* messages it has been given and the ones it has sent.                    *)
Number(n, c, k) == (c - 1) * n + k
At(r, m) == Number(Rounds, call[r], round[r][m])
Accepted(r, m) == At(r, m) + (IF received[r][m] = <<>> THEN 0 ELSE 1)
Handed(r, m) == At(r, m) + (IF started[r][m] THEN 1 ELSE 0)

(* x was sent to rank r and is still to be taken there.                    *)
Timely(r, x) ==
    \E m \in Chains, c \in 1 .. Calls, k \in 0 .. Rounds - 1 :
        /\ x = Parcel(N, M, Pred(N, r), m, c, k)
        /\ Accepted(r, m) <= Number(Rounds, c, k)
        /\ Number(Rounds, c, k) < Handed(Pred(N, r), m)

(* What is on its way to a rank is timely, and no two messages of it have  *)
(* the same key.                                                           *)
Link(r) == wire[<<Pred(N, r), r>>]
Apart(s) == \A i, j \in DOMAIN s : s[i].key = s[j].key => i = j
Foreign(s, t) == \A x \in ToSet(s), y \in ToSet(t) : x.key # y.key
Flow(r) ==
    /\ \A x \in ToSet(early[r]) \cup ToSet(Link(r)) : Timely(r, x)
    /\ Apart(early[r]) /\ Apart(Link(r)) /\ Foreign(early[r], Link(r))
Flows == \A r \in Ranks : Flow(r)

Straight == \A s, r \in Ranks : s # Pred(N, r) => wire[<<s, r>>] = <<>>

(* A rank has been given nothing that was not sent; so it is ahead of      *)
(* another by at most its distance from it.                                *)
Sourced == \A r \in Ranks, m \in Chains : Accepted(r, m) <= Handed(Pred(N, r), m)
Leads == \A r, s \in Ranks, m \in Chains : At(s, m) <= At(r, m) + Gap(N, s, r)

CInv ==
    /\ Shapes /\ InRound /\ GotRight /\ BuffersRight
    /\ Flows /\ Straight /\ Sourced /\ Leads

LEMMA JobFacts ==
    ASSUME Rings, job \in Jobs
    PROVE  /\ N \in Nat \ {0} /\ Calls \in Nat \ {0} /\ M \in Nat
           /\ Ranks = 0 .. N - 1 /\ Chains = 0 .. M - 1 /\ Slots = 0 .. N * M - 1
           /\ Used \in {"ring", "pipelined"}
           /\ ~Rejected => Rounds = 2 * (N - 1)
           /\ Rounds \in Nat
           /\ Rounds > 0 => N \in Nat \ {0, 1} /\ Rounds = 2 * (N - 1) /\ M > 0
<1>1. job.ranks \in Nat \ {0} /\ job.calls \in Nat \ {0} /\ job.micro_chunks \in Nat
  BY CollectiveAssumption DEF CollectiveAssumption
<1>3. N \in Nat \ {0} /\ Calls \in Nat \ {0} /\ M \in Nat /\ Used \in {"ring", "pipelined"}
  BY <1>1 DEF N, Calls, M, Rings
<1>4. Rounds = IF N = 1 \/ Rejected THEN 0 ELSE 2 * (N - 1)
  BY <1>3 DEF Rounds
<1>5. Slots = 0 .. N * M - 1
  BY <1>3 DEF Slots
<1>6. N # 1 /\ ~Rejected => M > 0
  <2>1. SUFFICES ASSUME N # 1, ~Rejected, Used = "pipelined"
                 PROVE  job.micro_chunks # 0
    BY <1>1, <1>3 DEF M
  <2>2. N > 1
    BY <1>3, <2>1
  <2>3. QED
    BY <2>1, <2>2 DEF Rejected
<1>7. QED
  BY <1>3, <1>4, <1>5, <1>6 DEF Ranks, Chains

LEMMA JobSame ==
    ASSUME job' = job
    PROVE  /\ N' = N /\ Calls' = Calls /\ M' = M /\ Ranks' = Ranks /\ Chains' = Chains
           /\ Slots' = Slots /\ Rounds' = Rounds /\ Rejected' = Rejected /\ Used' = Used
           /\ Parcels' = Parcels /\ Rings' = Rings
<1>1. N' = N /\ Calls' = Calls /\ Ranks' = Ranks
  BY DEF N, Calls, Ranks
<1>2. Used' = Used
  BY <1>1 DEF Used, choose_allreduce, IsPowerOfTwo
<1>3. Rejected' = Rejected
  BY <1>1, <1>2 DEF Rejected, root
<1>4. M' = M /\ Chains' = Chains
  BY <1>2, <1>3 DEF M, Chains
<1>5. Slots' = Slots
  BY <1>1, <1>2, <1>4 DEF Slots, RecvSlot
<1>6. Rounds' = Rounds
  BY <1>1, <1>2, <1>3 DEF Rounds, Bits
<1>7. Parcels' = Parcels
  BY <1>1, <1>4, <1>6 DEF Parcels
<1>8. QED
  BY <1>1, <1>2, <1>3, <1>4, <1>5, <1>6, <1>7 DEF Rings

(* The rounds of the ring, in terms of Out and In.                         *)
LEMMA RoundIs ==
    ASSUME Rings, job \in Jobs, NEW r \in Ranks, NEW m \in Chains, NEW k \in 0 .. Rounds - 1
    PROVE  /\ Round(r, m, k).sends = {[to |-> Succ(N, r), slots |-> <<Out(N, r, k) * M + m>>]}
           /\ Round(r, m, k).recv = {[from |-> Pred(N, r), slots |-> <<In(N, r, k) * M + m>>]}
           /\ Round(r, m, k).reduce = (k < N - 1)
           /\ \A s : Key(s, m, Round(r, m, k)) = Tag(N, s, m, k)
<1>1. N \in Nat \ {0, 1} /\ Rounds = 2 * (N - 1) /\ Used \in {"ring", "pipelined"} /\ k \in Nat
  BY JobFacts
<1>2. k \div (N - 1) = RingPhase(N, k) /\ k % (N - 1) = RingStep(N, k)
  <2> DEFINE d == N - 1
  <2>1. d \in Nat \ {0} /\ k \in 0 .. 2 * d - 1 /\ k \in 0 .. 3 * d - 1
    BY <1>1
  <2> HIDE DEF d
  <2>2. k \div d = (IF k < d THEN 0 ELSE 1)
    BY <2>1, DivSmall
  <2>3. k % d = (IF k < d THEN k ELSE IF k < 2 * d THEN k - d ELSE k - 2 * d)
    BY <2>1, ModSmall
  <2>4. k < 2 * d
    BY <2>1
  <2>5. QED
    BY <2>2, <2>3, <2>4 DEF d, RingPhase, RingStep
<1>3. Round(r, m, k) = RingRound(r, m, k)
  BY <1>1 DEF Round
<1>4. RingRound(r, m, k) =
        [sends |-> {[to |-> Succ(N, r), slots |-> <<Out(N, r, k) * M + m>>]},
         recv |-> {[from |-> Pred(N, r), slots |-> <<In(N, r, k) * M + m>>]},
         reduce |-> RingReduces(RingPhase(N, k)), step |-> RingStep(N, k), phase |-> RingPhase(N, k)]
  BY <1>2 DEF RingRound, RingIndex, Succ, Pred, Out, In
<1>5. RingReduces(RingPhase(N, k)) = (k < N - 1)
  BY DEF RingReduces, RingPhase
<1>6. QED
  BY <1>3, <1>4, <1>5 DEF Key, Tag

-----------------------------------------------------------------------------
(* What the steps do, in these terms.                                      *)

LEMMA OneSlot ==
    ASSUME NEW a, NEW g
    PROVE  [i \in DOMAIN <<a>> |-> g[<<a>>[i]]] = <<g[a]>>
OBVIOUS

LEMMA OutSlot ==
    ASSUME Rings, job \in Jobs, NEW r \in Ranks, NEW m \in Chains, NEW k \in 0 .. Rounds - 1
    PROVE  /\ Out(N, r, k) \in Ranks /\ In(N, r, k) \in Ranks
           /\ Pred(N, r) \in Ranks /\ Succ(N, r) \in Ranks /\ Pred(N, Succ(N, r)) = r
           /\ Succ(N, Pred(N, r)) = r
           /\ In(N, r, k) * M + m \in Slots
<1>1. /\ N \in Nat \ {0, 1} /\ k \in 0 .. 2 * (N - 1) - 1 /\ r \in 0 .. N - 1 /\ M \in Nat
      /\ Ranks = 0 .. N - 1 /\ Slots = 0 .. N * M - 1 /\ m \in 0 .. M - 1
  BY JobFacts
<1>2. Out(N, r, k) \in 0 .. N - 1 /\ In(N, r, k) \in 0 .. N - 1
  BY <1>1, ChunksAre
<1>3. In(N, r, k) * M + m \in 0 .. N * M - 1
  BY <1>1, <1>2, SlotIn
<1>4. QED
  BY <1>1, <1>2, <1>3, Neighbours

LEMMA LeastExists ==
    ASSUME NEW S \in SUBSET Nat, S # {}
    PROVE  \E i \in S : \A j \in S : i <= j
<1> DEFINE R == OpToRel(<, Nat)
<1>1. PICK i \in S : \A j \in S : ~(<<j, i>> \in R)
  BY WFMin, NatLessThanWellFounded
<1>2. \A j \in S : ~(j < i)
  BY <1>1 DEF OpToRel
<1>3. QED
  BY <1>2

-----------------------------------------------------------------------------
(* Numbers, keys and distances.                                            *)

LEMMA NumberUnique ==
    ASSUME NEW n \in Nat \ {0}, NEW c \in Nat \ {0}, NEW d \in Nat \ {0},
           NEW k \in 0 .. n - 1, NEW l \in 0 .. n - 1, Number(n, c, k) = Number(n, d, l)
    PROVE  c = d /\ k = l
<1>1. c - 1 \in Nat /\ d - 1 \in Nat /\ (c - 1) * n + k = (d - 1) * n + l
  BY DEF Number
<1>2. c - 1 = d - 1 /\ k = l
  <2> DEFINE q == c - 1
             p == d - 1
  <2> HIDE DEF q, p
  <2>1. q \in Nat /\ p \in Nat /\ q * n + k = p * n + l
    BY <1>1 DEF q, p
  <2>2. q = p /\ k = l
    BY <2>1, SlotUnique
  <2>3. QED
    BY <2>2 DEF q, p
<1>3. QED
  BY <1>2

LEMMA NumberIsInt ==
    ASSUME NEW n \in Nat, NEW b \in Nat, NEW c \in 1 .. b, NEW k \in 0 .. n
    PROVE  Number(n, c, k) \in Nat
<1>1. c - 1 \in Nat
  OBVIOUS
<1>2. (c - 1) * n \in Nat
  BY <1>1
<1>3. QED
  BY <1>2 DEF Number

LEMMA Multiple ==
    ASSUME NEW n \in Nat \ {0}, NEW q \in Nat, NEW p \in Nat, q < p
    PROVE  q * n + n <= p * n
OBVIOUS

LEMMA NumberNear ==
    ASSUME NEW n \in Nat \ {0}, NEW c \in Nat \ {0}, NEW d \in Nat \ {0}, NEW k \in Nat,
           Number(n, d, k) <= Number(n, c, k), Number(n, c, k) < Number(n, d, k) + n
    PROVE  c = d
<1> DEFINE q == c - 1
           p == d - 1
<1>1. q \in Nat /\ p \in Nat
  OBVIOUS
<1>2. p * n + k <= q * n + k /\ q * n + k < p * n + k + n
  BY DEF Number
<1> HIDE DEF q, p
<1>3. q * n \in Nat /\ p * n \in Nat
  BY <1>1
<1>4. ~(q < p)
  <2>1. ASSUME q < p PROVE q * n + n <= p * n
    BY <1>1, <2>1, Multiple
  <2>2. QED
    BY <1>2, <1>3, <2>1
<1>5. ~(p < q)
  <2>1. ASSUME p < q PROVE p * n + n <= q * n
    BY <1>1, <2>1, Multiple
  <2>2. QED
    BY <1>2, <1>3, <2>1
<1>6. q = p
  BY <1>1, <1>4, <1>5
<1>7. QED
  BY <1>6 DEF q, p

LEMMA TagUnique ==
    ASSUME NEW n \in Nat \ {0, 1}, NEW s, NEW t, NEW m, NEW l,
           NEW k \in 0 .. 2 * (n - 1) - 1, NEW j \in 0 .. 2 * (n - 1) - 1,
           Tag(n, s, m, k) = Tag(n, t, l, j)
    PROVE  s = t /\ m = l /\ k = j
<1>1. s = t /\ m = l /\ RingStep(n, k) = RingStep(n, j) /\ RingPhase(n, k) = RingPhase(n, j)
  BY DEF Tag
<1>2. k = j
  BY <1>1 DEF RingStep, RingPhase
<1>3. QED
  BY <1>1, <1>2

LEMMA GapSteps ==
    ASSUME NEW n \in Nat \ {0, 1}, NEW r \in 0 .. n - 1, NEW s \in 0 .. n - 1
    PROVE  /\ Gap(n, r, r) = 0
           /\ Gap(n, Pred(n, r), r) = n - 1
           /\ s # r => Gap(n, s, r) = Gap(n, Pred(n, s), r) + 1
           /\ Gap(n, s, r) \in Nat
<1>1. /\ Pred(n, r) \in 0 .. n - 1 /\ Pred(n, r) = IF r = 0 THEN n - 1 ELSE r - 1
      /\ Pred(n, s) \in 0 .. n - 1 /\ Pred(n, s) = IF s = 0 THEN n - 1 ELSE s - 1
  BY Neighbours, NeighboursAre
<1> DEFINE p == Pred(n, r)
           q == Pred(n, s)
<1>2. /\ Gap(n, r, r) = IF r >= r THEN r - r ELSE r + n - r
      /\ Gap(n, p, r) = IF p >= r THEN p - r ELSE p + n - r
      /\ Gap(n, s, r) = IF s >= r THEN s - r ELSE s + n - r
      /\ Gap(n, q, r) = IF q >= r THEN q - r ELSE q + n - r
  BY <1>1, GapIs
<1> HIDE DEF p, q
<1>3. Gap(n, r, r) = 0 /\ Gap(n, s, r) \in Nat
  BY <1>2
<1>4. Gap(n, p, r) = n - 1
  BY <1>1, <1>2 DEF p
<1>5. s # r => Gap(n, s, r) = Gap(n, q, r) + 1
  BY <1>1, <1>2 DEF q
<1>6. QED
  BY <1>3, <1>4, <1>5 DEF p, q

(* A chain that can move at all has a ring of two or more.                 *)
LEMMA Moving ==
    ASSUME Rings, CInv, NEW r \in Ranks, NEW m \in Chains, round[r][m] < Rounds
    PROVE  /\ N \in Nat \ {0, 1} /\ Rounds = 2 * (N - 1) /\ Rounds \in Nat \ {0}
           /\ Ranks = 0 .. N - 1 /\ Chains = 0 .. M - 1 /\ M \in Nat \ {0}
           /\ round[r][m] \in 0 .. Rounds - 1
           /\ call[r] \in 1 .. Calls /\ Calls \in Nat
           /\ Pred(N, r) \in Ranks /\ Succ(N, r) \in Ranks
           /\ Succ(N, Pred(N, r)) = r /\ Pred(N, Succ(N, r)) = r
           /\ Pred(N, r) # r /\ Succ(N, r) # r
<1>1. job \in Jobs /\ round[r][m] \in 0 .. Rounds /\ call[r] \in 1 .. Calls
  BY DEF CInv, Shapes
<1>2. Rounds \in Nat /\ Rounds > 0
  BY <1>1, JobFacts
<1>3. N \in Nat \ {0, 1} /\ Rounds = 2 * (N - 1) /\ M > 0 /\ M \in Nat /\ Calls \in Nat
      /\ Ranks = 0 .. N - 1 /\ Chains = 0 .. M - 1
  BY <1>1, <1>2, JobFacts
<1>4. /\ Pred(N, r) \in Ranks /\ Succ(N, r) \in Ranks
      /\ Succ(N, Pred(N, r)) = r /\ Pred(N, Succ(N, r)) = r /\ Pred(N, r) # r
  BY <1>3, Neighbours
<1>5. Succ(N, r) # r
  BY <1>4
<1>6. round[r][m] \in 0 .. Rounds - 1 /\ Rounds \in Nat \ {0} /\ M \in Nat \ {0}
  BY <1>1, <1>2, <1>3
<1>7. QED
  BY <1>1, <1>3, <1>4, <1>5, <1>6

-----------------------------------------------------------------------------
(* Who is where, and which message is for whom.                            *)

LEMMA Positions ==
    ASSUME Rings, CInv, NEW r \in Ranks, NEW m \in Chains
    PROVE  /\ At(r, m) \in Nat
           /\ Accepted(r, m) = IF received[r][m] = <<>> THEN At(r, m) ELSE At(r, m) + 1
           /\ Handed(r, m) = IF started[r][m] THEN At(r, m) + 1 ELSE At(r, m)
<1>1. /\ job \in Jobs /\ round[r][m] \in 0 .. Rounds /\ call[r] \in 1 .. Calls
      /\ Rounds \in Nat /\ Calls \in Nat
  BY JobFacts DEF CInv, Shapes
<1>2. At(r, m) \in Nat
  BY <1>1, NumberIsInt DEF At
<1>3. QED
  BY <1>2 DEF Accepted, Handed

(* A rank is less than one call ahead of its successor.                    *)
LEMMA Close ==
    ASSUME Rings, CInv, NEW r \in Ranks, NEW m \in Chains, Rounds > 0
    PROVE  /\ At(Pred(N, r), m) < At(r, m) + Rounds
           /\ Handed(Pred(N, r), m) <= At(r, m) + Rounds
<1>1. /\ N \in Nat \ {0, 1} /\ Rounds = 2 * (N - 1) /\ Ranks = 0 .. N - 1
  BY JobFacts DEF CInv, Shapes
<1>2. Pred(N, r) \in Ranks /\ Gap(N, Pred(N, r), r) = N - 1
  BY <1>1, Neighbours, GapSteps
<1>3. At(Pred(N, r), m) <= At(r, m) + (N - 1)
  BY <1>2 DEF CInv, Leads
<1>4. /\ At(r, m) \in Nat /\ At(Pred(N, r), m) \in Nat
      /\ \/ Handed(Pred(N, r), m) = At(Pred(N, r), m)
         \/ Handed(Pred(N, r), m) = At(Pred(N, r), m) + 1
  BY <1>2, Positions
<1>5. QED
  BY <1>1, <1>3, <1>4

(* The message with the key that a chain waits for is the one it waits     *)
(* for: not that of an earlier or a later call.                            *)
LEMMA Matched ==
    ASSUME Rings, CInv, NEW r \in Ranks, NEW m \in Chains,
           received[r][m] = <<>>, round[r][m] < Rounds,
           NEW x, Timely(r, x), x.key = Tag(N, Pred(N, r), m, round[r][m])
    PROVE  x = Want(r, m) /\ At(r, m) < Handed(Pred(N, r), m)
<1>1. PICK l \in Chains, c \in 1 .. Calls, k \in 0 .. Rounds - 1 :
        /\ x = Parcel(N, M, Pred(N, r), l, c, k)
        /\ Accepted(r, l) <= Number(Rounds, c, k)
        /\ Number(Rounds, c, k) < Handed(Pred(N, r), l)
  BY DEF Timely
<1>2. /\ N \in Nat \ {0, 1} /\ Rounds = 2 * (N - 1) /\ Rounds \in Nat \ {0}
      /\ round[r][m] \in 0 .. Rounds - 1 /\ Pred(N, r) \in Ranks
      /\ call[r] \in 1 .. Calls /\ Calls \in Nat
  BY Moving
<1>3. x.key = Tag(N, Pred(N, r), l, k)
  BY <1>1 DEF Parcel
<1>4. l = m /\ k = round[r][m]
  <2>1. k \in 0 .. 2 * (N - 1) - 1 /\ round[r][m] \in 0 .. 2 * (N - 1) - 1
    BY <1>2
  <2>2. Tag(N, Pred(N, r), l, k) = Tag(N, Pred(N, r), m, round[r][m])
    BY <1>3
  <2>3. QED
    BY <1>2, <2>1, <2>2, TagUnique
<1>5. Accepted(r, m) = At(r, m) /\ At(r, m) \in Nat /\ Handed(Pred(N, r), m) \in Nat
  BY <1>2, Positions
<1>6. Handed(Pred(N, r), m) <= At(r, m) + Rounds
  BY <1>2, Close
<1>7. /\ Number(Rounds, call[r], k) <= Number(Rounds, c, k)
      /\ Number(Rounds, c, k) < Number(Rounds, call[r], k) + Rounds
  <2>1. At(r, m) = Number(Rounds, call[r], k)
    BY <1>4 DEF At
  <2>2. Number(Rounds, c, k) \in Nat
    <3>1. k \in 0 .. Rounds
      BY <1>2
    <3>2. QED
      BY <1>2, <3>1, NumberIsInt
  <2>3. QED
    BY <1>1, <1>2, <1>4, <1>5, <1>6, <2>1, <2>2
<1>8. c = call[r]
  BY <1>2, <1>7, NumberNear
<1>9. QED
  BY <1>1, <1>4, <1>5, <1>8 DEF Want, At

(* Any other message is still timely when the chain has got that one.      *)
LEMMA OthersLater ==
    ASSUME Rings, CInv, NEW r \in Ranks, NEW m \in Chains,
           received[r][m] = <<>>, round[r][m] < Rounds,
           NEW x, Timely(r, x), x.key # Tag(N, Pred(N, r), m, round[r][m])
    PROVE  \E l \in Chains, c \in 1 .. Calls, k \in 0 .. Rounds - 1 :
              /\ x = Parcel(N, M, Pred(N, r), l, c, k)
              /\ Accepted(r, l) <= Number(Rounds, c, k)
              /\ l = m => At(r, m) + 1 <= Number(Rounds, c, k)
              /\ Number(Rounds, c, k) < Handed(Pred(N, r), l)
<1>1. PICK l \in Chains, c \in 1 .. Calls, k \in 0 .. Rounds - 1 :
        /\ x = Parcel(N, M, Pred(N, r), l, c, k)
        /\ Accepted(r, l) <= Number(Rounds, c, k)
        /\ Number(Rounds, c, k) < Handed(Pred(N, r), l)
  BY DEF Timely
<1>2. /\ Rounds \in Nat \ {0} /\ round[r][m] \in 0 .. Rounds - 1
      /\ call[r] \in 1 .. Calls /\ Calls \in Nat
  BY Moving
<1>3. ASSUME l = m PROVE At(r, m) + 1 <= Number(Rounds, c, k)
  <2>1. At(r, m) # Number(Rounds, c, k)
    <3>1. SUFFICES ASSUME Number(Rounds, call[r], round[r][m]) = Number(Rounds, c, k)
                   PROVE  FALSE
      BY DEF At
    <3>2. round[r][m] = k
      BY <1>2, <3>1, NumberUnique
    <3>3. QED
      BY <1>1, <1>3, <3>2 DEF Parcel
  <2>2. At(r, m) \in Nat /\ Accepted(r, m) = At(r, m)
    BY Positions
  <2>3. Number(Rounds, c, k) \in Nat
    <3>1. k \in 0 .. Rounds
      BY <1>2
    <3>2. QED
      BY <1>2, <3>1, NumberIsInt
  <2>4. QED
    BY <1>1, <1>3, <2>1, <2>2, <2>3
<1>4. QED
  BY <1>1, <1>3

(* A message that a chain is about to send has a key of its own.           *)
LEMMA FreshKey ==
    ASSUME Rings, CInv, NEW s \in Ranks, NEW m \in Chains,
           ~started[s][m], round[s][m] < Rounds,
           NEW x, Timely(Succ(N, s), x)
    PROVE  x.key # Tag(N, s, m, round[s][m])
<1> DEFINE r == Succ(N, s)
<1>1. /\ N \in Nat \ {0, 1} /\ Rounds = 2 * (N - 1) /\ Rounds \in Nat \ {0}
      /\ round[s][m] \in 0 .. Rounds - 1 /\ r \in Ranks /\ Pred(N, r) = s
      /\ call[s] \in 1 .. Calls /\ Calls \in Nat
  BY Moving
<1> HIDE DEF r
<1>2. PICK l \in Chains, c \in 1 .. Calls, k \in 0 .. Rounds - 1 :
        /\ x = Parcel(N, M, s, l, c, k)
        /\ Accepted(r, l) <= Number(Rounds, c, k)
        /\ Number(Rounds, c, k) < Handed(s, l)
  BY <1>1 DEF Timely, r
<1>3. SUFFICES ASSUME x.key = Tag(N, s, m, round[s][m]) PROVE FALSE
  OBVIOUS
<1>4. l = m /\ k = round[s][m]
  <2>1. x.key = Tag(N, s, l, k)
    BY <1>2 DEF Parcel
  <2>2. k \in 0 .. 2 * (N - 1) - 1 /\ round[s][m] \in 0 .. 2 * (N - 1) - 1
    BY <1>1
  <2>3. Tag(N, s, l, k) = Tag(N, s, m, round[s][m])
    BY <1>3, <2>1
  <2>4. QED
    BY <1>1, <2>2, <2>3, TagUnique
<1>5. /\ Handed(s, m) = At(s, m) /\ At(s, m) \in Nat /\ At(r, m) \in Nat
      /\ Accepted(r, m) \in Nat /\ At(r, m) <= Accepted(r, m)
  <2>1. Handed(s, m) = At(s, m) /\ At(s, m) \in Nat
    BY Positions
  <2>2. At(r, m) \in Nat /\ Accepted(r, m) \in Nat /\ At(r, m) <= Accepted(r, m)
    BY <1>1, Positions
  <2>3. QED
    BY <2>1, <2>2
<1>6. At(s, m) < At(r, m) + Rounds
  BY <1>1, Close
<1>7. At(s, m) = Number(Rounds, call[s], k)
  BY <1>4 DEF At
<1>8. Number(Rounds, c, k) \in Nat
  <2>1. k \in 0 .. Rounds
    BY <1>1
  <2>2. QED
    BY <1>1, <2>1, NumberIsInt
<1>9. /\ Number(Rounds, c, k) < Number(Rounds, call[s], k)
      /\ Number(Rounds, call[s], k) < Number(Rounds, c, k) + Rounds
  BY <1>1, <1>2, <1>4, <1>5, <1>6, <1>7, <1>8
<1>10. call[s] = c
  <2>1. Number(Rounds, c, k) <= Number(Rounds, call[s], k)
    BY <1>5, <1>7, <1>8, <1>9
  <2>2. QED
    BY <1>1, <1>9, <2>1, NumberNear
<1>11. QED
  BY <1>5, <1>7, <1>9, <1>10

-----------------------------------------------------------------------------
(* Sequences of messages with different keys.                              *)

LEMMA AppendApart ==
    ASSUME NEW S, NEW s \in Seq(S), NEW x \in S, Apart(s),
           \A y \in ToSet(s) : y.key # x.key
    PROVE  /\ Append(s, x) \in Seq(S) /\ Apart(Append(s, x))
           /\ ToSet(Append(s, x)) = ToSet(s) \cup {x}
<1> DEFINE t == Append(s, x)
<1>1. /\ t \in Seq(S) /\ Len(t) = Len(s) + 1 /\ Len(s) \in Nat
      /\ DOMAIN t = 1 .. Len(s) + 1 /\ DOMAIN s = 1 .. Len(s)
      /\ \A i \in 1 .. Len(s) : t[i] = s[i]
      /\ t[Len(s) + 1] = x
  OBVIOUS
<1> HIDE DEF t
<1>2. \A i \in DOMAIN t : (i \in DOMAIN s /\ t[i] = s[i]) \/ (i = Len(s) + 1 /\ t[i] = x)
  BY <1>1
<1>3. \A i \in DOMAIN s : s[i].key # x.key
  BY DEF ToSet
<1>4. Apart(t)
  BY <1>2, <1>3 DEF Apart
<1>5. ToSet(t) = ToSet(s) \cup {x}
  <2>1. \A i \in DOMAIN s : i \in DOMAIN t /\ t[i] = s[i]
    BY <1>1
  <2>2. Len(s) + 1 \in DOMAIN t /\ t[Len(s) + 1] = x
    BY <1>1
  <2>3. QED
    BY <1>2, <2>1, <2>2 DEF ToSet
<1>6. QED
  BY <1>1, <1>4, <1>5 DEF t

LEMMA TailApart ==
    ASSUME NEW S, NEW s \in Seq(S), s # <<>>, Apart(s)
    PROVE  /\ Tail(s) \in Seq(S) /\ Apart(Tail(s)) /\ Head(s) \in S
           /\ ToSet(Tail(s)) \subseteq ToSet(s) /\ Head(s) \in ToSet(s)
           /\ \A y \in ToSet(Tail(s)) : y.key # Head(s).key
<1> DEFINE t == Tail(s)
<1>1. /\ t \in Seq(S) /\ Len(t) = Len(s) - 1 /\ Len(s) \in Nat \ {0}
      /\ DOMAIN t = 1 .. Len(s) - 1 /\ DOMAIN s = 1 .. Len(s)
      /\ \A i \in 1 .. Len(s) - 1 : t[i] = s[i + 1]
      /\ Head(s) = s[1] /\ s[1] \in S
  OBVIOUS
<1> HIDE DEF t
<1>2. \A i \in DOMAIN t : i \in Nat /\ i + 1 \in DOMAIN s /\ t[i] = s[i + 1] /\ i + 1 # 1
  BY <1>1
<1>3. 1 \in DOMAIN s
  BY <1>1
<1>4. Apart(t)
  BY <1>2 DEF Apart
<1>5. /\ ToSet(t) \subseteq ToSet(s) /\ Head(s) \in ToSet(s)
      /\ \A y \in ToSet(t) : y.key # Head(s).key
  BY <1>1, <1>2, <1>3 DEF ToSet, Apart
<1>6. QED
  BY <1>1, <1>4, <1>5 DEF t

LEMMA RemoveApart ==
    ASSUME NEW S, NEW s \in Seq(S), NEW i \in DOMAIN s, Apart(s)
    PROVE  /\ RemoveAt(s, i) \in Seq(S) /\ Apart(RemoveAt(s, i))
           /\ ToSet(RemoveAt(s, i)) \subseteq ToSet(s)
           /\ \A y \in ToSet(RemoveAt(s, i)) : y.key # s[i].key
<1> DEFINE a == SubSeq(s, 1, i - 1)
           b == SubSeq(s, i + 1, Len(s))
           t == a \o b
<1>1. Len(s) \in Nat /\ DOMAIN s = 1 .. Len(s) /\ i \in 1 .. Len(s)
  OBVIOUS
<1>2. /\ a \in Seq(S) /\ Len(a) = i - 1 /\ \A j \in 1 .. i - 1 : a[j] = s[j]
  BY <1>1
<1>3. /\ b \in Seq(S) /\ Len(b) = Len(s) - i
      /\ \A j \in 1 .. Len(s) - i : b[j] = s[i + j]
  BY <1>1
<1> HIDE DEF a, b
<1>4. /\ t \in Seq(S) /\ Len(t) = Len(s) - 1 /\ DOMAIN t = 1 .. Len(s) - 1
  <2>1. t \in Seq(S) /\ Len(t) = Len(a) + Len(b)
    <3>1. a \in Seq(S) /\ b \in Seq(S)
      BY <1>2, <1>3
    <3>2. t \in Seq(S)
      BY <3>1
    <3>3. Len(t) = Len(a) + Len(b)
      BY <3>1
    <3>4. QED
      BY <3>2, <3>3
  <2>2. Len(t) = Len(s) - 1
    BY <1>1, <1>2, <1>3, <2>1
  <2>3. DOMAIN t = 1 .. Len(t)
    BY <2>1
  <2>4. QED
    BY <2>1, <2>2, <2>3
<1>5. \A j \in 1 .. Len(s) - 1 : t[j] = s[IF j < i THEN j ELSE j + 1]
  <2>1. SUFFICES ASSUME NEW j \in 1 .. Len(s) - 1
                 PROVE  t[j] = s[IF j < i THEN j ELSE j + 1]
    OBVIOUS
  <2>2. CASE j < i
    <3>1. j \in 1 .. i - 1
      BY <1>1, <2>2
    <3>2. t[j] = a[j]
      BY <1>2, <1>3, <3>1
    <3>3. QED
      BY <1>2, <2>2, <3>1, <3>2
  <2>3. CASE ~(j < i)
    <3>1. j - (i - 1) \in 1 .. Len(s) - i /\ i + (j - (i - 1)) = j + 1
      BY <1>1, <2>3
    <3>2. t[j] = b[j - (i - 1)]
      BY <1>1, <1>2, <1>3, <2>3, <3>1
    <3>3. b[j - (i - 1)] = s[i + (j - (i - 1))]
      BY <1>3, <3>1
    <3>4. QED
      BY <2>3, <3>1, <3>2, <3>3
  <2>4. QED
    BY <2>2, <2>3
<1> HIDE DEF t
<1> DEFINE f(j) == IF j < i THEN j ELSE j + 1
<1>6. \A j \in DOMAIN t : t[j] = s[f(j)] /\ f(j) \in DOMAIN s /\ f(j) # i /\ j \in Nat
  BY <1>1, <1>4, <1>5
<1>7. \A j, l \in DOMAIN t : f(j) = f(l) => j = l
  BY <1>1, <1>4
<1> HIDE DEF f
<1>8. Apart(t)
  BY <1>6, <1>7 DEF Apart
<1>9. /\ ToSet(t) \subseteq ToSet(s)
      /\ \A y \in ToSet(t) : y.key # s[i].key
  BY <1>6 DEF ToSet, Apart
<1>10. RemoveAt(s, i) = t
  BY DEF RemoveAt, t, a, b
<1>11. QED
  BY <1>4, <1>8, <1>9, <1>10

-----------------------------------------------------------------------------
(* What the steps of a ring do.                                            *)

(* The chain sends its message, or fails to, and its receive takes an      *)
(* early arrival or is posted.                                             *)
Begins(r, m) ==
    /\ UNCHANGED <<job, call, round, buf, errs>>
    /\ failed' \in {failed, failed \cup {<<r, m>>}}
    /\ started' = [started EXCEPT ![r][m] = TRUE]
    /\ \/ wire' = wire
       \/ wire' = [wire EXCEPT ![<<r, Succ(N, r)>>] =
                      Append(@, Parcel(N, M, r, m, call[r], round[r][m]))]
    /\ \/ UNCHANGED <<received, early>>
       \/ \E i \in DOMAIN early[r] :
             /\ early[r][i].key = Tag(N, Pred(N, r), m, round[r][m])
             /\ received' = [received EXCEPT ![r][m] = early[r][i].vals]
             /\ early' = [early EXCEPT ![r] = RemoveAt(@, i)]

LEMMA SentIs ==
    ASSUME Rings, CInv, NEW r \in Ranks, NEW m \in Chains, round[r][m] < Rounds
    PROVE  [key |-> Key(r, m, Current(r, m)),
            vals |-> <<buf[r][Out(N, r, round[r][m]) * M + m]>>]
             = Parcel(N, M, r, m, call[r], round[r][m])
<1> DEFINE k == round[r][m]
           o == Out(N, r, k)
<1>1. /\ N \in Nat \ {0, 1} /\ Rounds = 2 * (N - 1) /\ Ranks = 0 .. N - 1
      /\ k \in 0 .. Rounds - 1
  BY Moving
<1>2. Key(r, m, Current(r, m)) = Tag(N, r, m, k)
  BY <1>1, RoundIs DEF CInv, Shapes, Current
<1>3. o \in Ranks /\ Have(N, r, k, o) = Sent(N, r, k)
  <2>1. k \in 0 .. 2 * (N - 1) - 1
    BY <1>1
  <2> HIDE DEF k
  <2>2. Out(N, r, k) \in Ranks
    BY <1>1, <2>1, ChunksAre
  <2>3. Have(N, r, k, Out(N, r, k)) = Sent(N, r, k)
    BY <1>1, <2>1, HaveOut
  <2>4. QED
    BY <2>2, <2>3
<1>4. buf[r][o * M + m] = Sum(call[r], o * M + m, Have(N, r, k, o))
  <2> HIDE DEF o
  <2>1. QED
    BY <1>3 DEF CInv, BuffersRight, Buffered
<1>5. QED
  BY <1>2, <1>3, <1>4 DEF Parcel

LEMMA StartIs ==
    ASSUME Rings, CInv, NEW r \in Ranks, NEW m \in Chains, round[r][m] < Rounds,
           NEW out \in SUBSET Current(r, m).sends, NEW fails, Start(r, m, out, fails)
    PROVE  Begins(r, m)
<1> DEFINE k == round[r][m]
           p == Current(r, m)
           slot == Out(N, r, k) * M + m
           s0 == [to |-> Succ(N, r), slots |-> <<slot>>]
           Message(s) == [key |-> Key(r, m, p),
                          vals |-> [i \in DOMAIN s.slots |-> buf[r][s.slots[i]]]]
           waits == {i \in DOMAIN early[r] :
                       \E f \in p.recv : early[r][i].key = Key(f.from, m, p)}
           first == CHOOSE i \in waits : \A j \in waits : i <= j
           x == Parcel(N, M, r, m, call[r], k)
<1>1. /\ wire' = [q \in Ranks \X Ranks |->
                    IF {s \in out : q = <<r, s.to>>} = {} THEN wire[q]
                    ELSE Append(wire[q], Message(CHOOSE s \in {s \in out : q = <<r, s.to>>} : TRUE))]
      /\ IF waits = {} THEN UNCHANGED <<received, early>>
         ELSE /\ received' = [received EXCEPT ![r][m] = early[r][first].vals]
              /\ early' = [early EXCEPT ![r] = RemoveAt(@, first)]
      /\ started' = [started EXCEPT ![r][m] = TRUE]
      /\ failed' = IF fails THEN failed \cup {<<r, m>>} ELSE failed
      /\ UNCHANGED <<job, call, round, buf, errs>>
  BY DEF Start
<1>2. /\ job \in Jobs /\ k \in 0 .. Rounds - 1 /\ Succ(N, r) \in Ranks
      /\ wire \in [Ranks \X Ranks -> Seq(Parcels)]
      /\ early[r] \in Seq(Parcels)
  BY Moving DEF CInv, Shapes
<1>3. /\ p.sends = {s0}
      /\ p.recv = {[from |-> Pred(N, r), slots |-> <<In(N, r, k) * M + m>>]}
      /\ \A s : Key(s, m, p) = Tag(N, s, m, k)
  BY <1>2, RoundIs DEF Current
<1>4. Message(s0) = x
  <2>1. Message(s0) = [key |-> Key(r, m, p), vals |-> [i \in DOMAIN <<slot>> |-> buf[r][<<slot>>[i]]]]
    OBVIOUS
  <2>2. [i \in DOMAIN <<slot>> |-> buf[r][<<slot>>[i]]] = <<buf[r][slot]>>
    <3> HIDE DEF slot
    <3>1. QED
      BY OneSlot
  <2>3. [key |-> Key(r, m, p), vals |-> <<buf[r][slot]>>] = x
    BY SentIs
  <2>4. QED
    BY <2>1, <2>2, <2>3
<1>5. /\ \/ wire' = wire
         \/ wire' = [wire EXCEPT ![<<r, Succ(N, r)>>] = Append(@, x)]
  <2> HIDE DEF Message, x, p, slot, k, waits, first
  <2>1. out = {} \/ out = {s0}
    BY <1>3 DEF p
  <2>2. CASE out = {}
    <3>1. \A q \in Ranks \X Ranks : {s \in out : q = <<r, s.to>>} = {}
      BY <2>2
    <3>2. wire' = [q \in Ranks \X Ranks |-> wire[q]]
      BY <1>1, <3>1
    <3>3. QED
      BY <1>2, <3>2
  <2>3. CASE out = {s0}
    <3> DEFINE e == <<r, Succ(N, r)>>
    <3>1. {s \in out : e = <<r, s.to>>} = {s0}
      BY <2>3
    <3>2. \A q \in Ranks \X Ranks : q # e => {s \in out : q = <<r, s.to>>} = {}
      BY <2>3
    <3> HIDE DEF s0
    <3>3. (CHOOSE s \in {s0} : TRUE) = s0
      OBVIOUS
    <3>4. e \in Ranks \X Ranks
      BY <1>2
    <3> HIDE DEF e
    <3>5. wire'[e] = Append(wire[e], x)
      BY <1>1, <1>4, <3>1, <3>3, <3>4
    <3>6. \A q \in Ranks \X Ranks : q # e => wire'[q] = wire[q]
      BY <1>1, <3>2
    <3>7. DOMAIN wire' = Ranks \X Ranks /\ wire' = [q \in DOMAIN wire' |-> wire'[q]]
      BY <1>1
    <3>8. wire' = [wire EXCEPT ![e] = Append(@, x)]
      BY <1>2, <3>4, <3>5, <3>6, <3>7
    <3>9. QED
      BY <3>8 DEF e
  <2>4. QED
    BY <2>1, <2>2, <2>3
<1>6. \/ UNCHANGED <<received, early>>
      \/ \E i \in DOMAIN early[r] :
             /\ early[r][i].key = Tag(N, Pred(N, r), m, k)
             /\ received' = [received EXCEPT ![r][m] = early[r][i].vals]
             /\ early' = [early EXCEPT ![r] = RemoveAt(@, i)]
  <2>1. CASE waits = {}
    BY <1>1, <2>1
  <2>2. CASE waits # {}
    <3>1. waits \in SUBSET Nat
      BY <1>2
    <3>2. \A i \in waits : i \in DOMAIN early[r] /\ early[r][i].key = Tag(N, Pred(N, r), m, k)
      <4> HIDE DEF p, k
      <4>1. QED
        BY <1>3
    <3> HIDE DEF waits
    <3>3. first \in waits
      <4>1. \E i \in waits : \A j \in waits : i <= j
        BY <2>2, <3>1, LeastExists
      <4>2. QED
        BY <4>1
    <3> HIDE DEF first
    <3>4. QED
      BY <1>1, <2>2, <3>2, <3>3
  <2>3. QED
    BY <2>1, <2>2
<1>7. failed' \in {failed, failed \cup {<<r, m>>}}
  BY <1>1
<1>8. QED
  BY <1>1, <1>5, <1>6, <1>7 DEF Begins

(* The first message on the way to rank r arrives: at a chain that waits   *)
(* for its key, or early.                                                  *)
Awaits(r, m, key) ==
    /\ started[r][m] /\ received[r][m] = <<>>
    /\ key = Tag(N, Pred(N, r), m, round[r][m])
Arrives(r) ==
    /\ UNCHANGED <<job, call, round, started, buf, failed, errs>>
    /\ Link(r) # <<>>
    /\ wire' = [wire EXCEPT ![<<Pred(N, r), r>>] = Tail(@)]
    /\ \/ \E m \in Chains :
             /\ Awaits(r, m, Head(Link(r)).key)
             /\ received' = [received EXCEPT ![r][m] = Head(Link(r)).vals]
             /\ UNCHANGED early
       \/ early' = [early EXCEPT ![r] = Append(@, Head(Link(r)))] /\ UNCHANGED received

LEMMA DeliverIs ==
    ASSUME Rings, CInv, NEW src \in Ranks, NEW dst \in Ranks, Deliver(src, dst)
    PROVE  Arrives(dst)
<1> DEFINE x == Head(wire[<<src, dst>>])
           at == {m \in Chains : Posted(dst, m, x.key)}
<1>1. /\ wire[<<src, dst>>] # <<>>
      /\ wire' = [wire EXCEPT ![<<src, dst>>] = Tail(@)]
      /\ IF at # {}
         THEN /\ received' = [received EXCEPT ![dst][CHOOSE m \in at : TRUE] = x.vals]
              /\ UNCHANGED early
         ELSE early' = [early EXCEPT ![dst] = EarlyAfter(@, x)] /\ UNCHANGED received
      /\ UNCHANGED <<job, call, round, started, buf, failed, errs>>
  BY DEF Deliver
<1>2. src = Pred(N, dst) /\ x = Head(Link(dst)) /\ Link(dst) # <<>>
  BY <1>1 DEF CInv, Straight, Link
<1>3. job \in Jobs /\ DOMAIN early = Ranks /\ Link(dst) \in Seq(Parcels)
  BY <1>2 DEF CInv, Shapes, Link
<1>4. CASE at # {}
  <2>1. PICK m : m = CHOOSE l \in at : TRUE
    OBVIOUS
  <2>2. m \in Chains /\ Posted(dst, m, x.key)
    BY <1>4, <2>1
  <2>3. /\ started[dst][m] /\ received[dst][m] = <<>>
        /\ \E f \in Current(dst, m).recv : x.key = Key(f.from, m, Current(dst, m))
    BY <2>2 DEF Posted
  <2>4. round[dst][m] \in 0 .. Rounds - 1
    BY <2>2, <2>3, Moving DEF CInv, InRound
  <2>5. x.key = Tag(N, Pred(N, dst), m, round[dst][m])
    BY <1>3, <2>2, <2>3, <2>4, RoundIs DEF Current
  <2>6. Awaits(dst, m, x.key)
    BY <2>3, <2>5 DEF Awaits
  <2>7. received' = [received EXCEPT ![dst][m] = x.vals] /\ UNCHANGED early
    BY <1>1, <1>4, <2>1
  <2> HIDE DEF x, at
  <2>8. QED
    BY <1>1, <1>2, <2>2, <2>6, <2>7 DEF Arrives
<1>5. CASE at = {}
  <2>1. x \in ToSet(Link(dst))
    BY <1>2, <1>3, TailApart DEF CInv, Flows, Flow
  <2>2. \A i \in DOMAIN early[dst] : early[dst][i].key # x.key
    <3> HIDE DEF x
    <3>1. QED
      BY <2>1 DEF CInv, Flows, Flow, Foreign, ToSet
  <2> HIDE DEF x
  <2>3. EarlyAfter(early[dst], x) = Append(early[dst], x)
    BY <2>2 DEF EarlyAfter
  <2>4. early' = [early EXCEPT ![dst] = Append(@, x)] /\ UNCHANGED received
    BY <1>1, <1>5, <1>3, <2>3
  <2>5. QED
    BY <1>1, <1>2, <2>4 DEF Arrives
<1>6. QED
  BY <1>4, <1>5

(* The received values are in the buffer, and the chain goes on.           *)
Concludes(r, m) ==
    /\ UNCHANGED <<job, call, wire, early, failed, errs>>
    /\ started[r][m] /\ received[r][m] # <<>>
    /\ received' = [received EXCEPT ![r][m] = <<>>]
    /\ started' = [started EXCEPT ![r][m] = FALSE]
    /\ round' = [round EXCEPT ![r][m] = @ + 1]
    /\ DOMAIN buf' = DOMAIN buf
    /\ \A s \in Ranks \ {r} : buf'[s] = buf[s]
    /\ \A s \in Slots :
          buf'[r][s] =
            IF s # In(N, r, round[r][m]) * M + m THEN buf[r][s]
            ELSE IF round[r][m] < N - 1
                 THEN reduce_in_place(buf[r][s], Want(r, m).vals[1])
                 ELSE Want(r, m).vals[1]

LEMMA FinishIs ==
    ASSUME Rings, CInv, NEW r \in Ranks, NEW m \in Chains, Finish(r, m), <<r, m>> \notin failed
    PROVE  Concludes(r, m)
<1> DEFINE p == Current(r, m)
           k == round[r][m]
           last == k = Rounds - 1
           b == Stored(r, m, p)
           slot == In(N, r, k) * M + m
<1>1. /\ started[r][m] /\ (p.recv = {} \/ received[r][m] # <<>>)
      /\ buf' = [buf EXCEPT ![r] = IF Used = "bruck" /\ last THEN Rotated(r, b) ELSE b]
      /\ received' = [received EXCEPT ![r][m] = <<>>]
      /\ started' = [started EXCEPT ![r][m] = FALSE]
      /\ round' = [round EXCEPT ![r][m] = @ + 1]
      /\ UNCHANGED <<job, call, wire, early, failed, errs>>
  BY DEF Finish
<1>2. job \in Jobs /\ k \in 0 .. Rounds - 1
  BY <1>1, Moving DEF CInv, Shapes, InRound
<1>3. /\ p.recv = {[from |-> Pred(N, r), slots |-> <<slot>>]}
      /\ p.reduce = (k < N - 1)
  BY <1>2, RoundIs DEF Current
<1>4. received[r][m] # <<>>
  BY <1>1, <1>3
<1>5. received[r][m] = Want(r, m).vals
  BY <1>4 DEF CInv, GotRight
<1>6. \E v : Want(r, m).vals = <<v>>
  BY DEF Want, Parcel
<1> HIDE DEF p, slot
<1>7. ASSUME NEW s \in Slots
      PROVE  b[s] = IF s # slot THEN buf[r][s]
                    ELSE IF k < N - 1 THEN reduce_in_place(buf[r][s], Want(r, m).vals[1])
                         ELSE Want(r, m).vals[1]
  <2> DEFINE at == {i \in 1 .. Len(received[r][m]) : \E f \in p.recv : f.slots[i] = s}
  <2>1. b[s] = IF at = {} THEN buf[r][s]
               ELSE IF p.reduce
                    THEN reduce_in_place(buf[r][s], received[r][m][CHOOSE i \in at : TRUE])
                    ELSE received[r][m][CHOOSE i \in at : TRUE]
    BY DEF Stored
  <2>2. at = {i \in {1} : <<slot>>[i] = s}
    <3>1. 1 .. Len(received[r][m]) = {1}
      BY <1>5, <1>6
    <3>2. QED
      BY <1>3, <3>1
  <2>3. at = IF s = slot THEN {1} ELSE {}
    BY <2>2
  <2> HIDE DEF at
  <2>4. s = slot => (CHOOSE i \in at : TRUE) = 1
    BY <2>3
  <2>5. QED
    BY <1>3, <1>5, <2>1, <2>3, <2>4
<1>8. Used # "bruck"
  BY DEF Rings
<1> HIDE DEF b
<1>9. buf' = [buf EXCEPT ![r] = b]
  BY <1>1, <1>8
<1>10. DOMAIN buf = Ranks
  BY DEF CInv, Shapes
<1>11. DOMAIN buf' = DOMAIN buf /\ buf'[r] = b /\ \A s \in Ranks \ {r} : buf'[s] = buf[s]
  BY <1>9, <1>10
<1>12. \A s \in Slots :
          buf'[r][s] =
            IF s # In(N, r, round[r][m]) * M + m THEN buf[r][s]
            ELSE IF round[r][m] < N - 1
                 THEN reduce_in_place(buf[r][s], Want(r, m).vals[1])
                 ELSE Want(r, m).vals[1]
  BY <1>7, <1>11 DEF slot
<1>13. QED
  BY <1>1, <1>4, <1>11, <1>12 DEF Concludes

-----------------------------------------------------------------------------
(* What is on its way stays timely.                                        *)

LEMMA FlowBy ==
    ASSUME job' = job, NEW q \in Ranks,
           \A x \in ToSet(early'[q]) \cup ToSet(wire'[<<Pred(N, q), q>>]) :
              \E l \in Chains, c \in 1 .. Calls, k \in 0 .. Rounds - 1 :
                 /\ x = Parcel(N, M, Pred(N, q), l, c, k)
                 /\ Accepted(q, l)' <= Number(Rounds, c, k)
                 /\ Number(Rounds, c, k) < Handed(Pred(N, q), l)',
           Apart(early'[q]), Apart(wire'[<<Pred(N, q), q>>]),
           Foreign(early'[q], wire'[<<Pred(N, q), q>>])
    PROVE  Flow(q)'
<1>1. Link(q)' = wire'[<<Pred(N, q), q>>]
  BY JobSame DEF Link
<1>2. \A x \in ToSet(early'[q]) \cup ToSet(wire'[<<Pred(N, q), q>>]) : Timely(q, x)'
  BY JobSame DEF Timely
<1>3. QED
  BY <1>1, <1>2 DEF Flow

LEMMA SameFlow ==
    ASSUME Rings, CInv, job' = job, NEW q \in Ranks,
           early'[q] = early[q], wire'[<<Pred(N, q), q>>] = wire[<<Pred(N, q), q>>],
           \A l \in Chains : /\ Accepted(q, l)' = Accepted(q, l)
                             /\ Handed(Pred(N, q), l)' = Handed(Pred(N, q), l)
    PROVE  Flow(q)'
<1>1. Flow(q)
  BY DEF CInv, Flows
<1>2. \A x \in ToSet(early'[q]) \cup ToSet(wire'[<<Pred(N, q), q>>]) :
              \E l \in Chains, c \in 1 .. Calls, k \in 0 .. Rounds - 1 :
                 /\ x = Parcel(N, M, Pred(N, q), l, c, k)
                 /\ Accepted(q, l)' <= Number(Rounds, c, k)
                 /\ Number(Rounds, c, k) < Handed(Pred(N, q), l)'
  BY <1>1 DEF Flow, Link, Timely
<1>3. /\ Apart(early'[q]) /\ Apart(wire'[<<Pred(N, q), q>>])
      /\ Foreign(early'[q], wire'[<<Pred(N, q), q>>])
  BY <1>1 DEF Flow, Link
<1>4. QED
  BY <1>2, <1>3, FlowBy

(* The chain m of rank r gets the message that it waits for.               *)
LEMMA TakeFlow ==
    ASSUME Rings, CInv, job' = job, NEW r \in Ranks, NEW m \in Chains,
           received[r][m] = <<>>, round[r][m] < Rounds,
           \A l \in Chains : /\ Accepted(r, l)' = IF l = m THEN At(r, m) + 1 ELSE Accepted(r, l)
                             /\ Handed(Pred(N, r), l)' = Handed(Pred(N, r), l),
           ToSet(early'[r]) \subseteq ToSet(early[r]),
           ToSet(wire'[<<Pred(N, r), r>>]) \subseteq ToSet(Link(r)),
           \A x \in ToSet(early'[r]) \cup ToSet(wire'[<<Pred(N, r), r>>]) :
              x.key # Tag(N, Pred(N, r), m, round[r][m]),
           Apart(early'[r]), Apart(wire'[<<Pred(N, r), r>>])
    PROVE  Flow(r)'
<1>1. Flow(r)
  BY DEF CInv, Flows
<1>2. ASSUME NEW x \in ToSet(early'[r]) \cup ToSet(wire'[<<Pred(N, r), r>>])
      PROVE  \E l \in Chains, c \in 1 .. Calls, k \in 0 .. Rounds - 1 :
                 /\ x = Parcel(N, M, Pred(N, r), l, c, k)
                 /\ Accepted(r, l)' <= Number(Rounds, c, k)
                 /\ Number(Rounds, c, k) < Handed(Pred(N, r), l)'
  <2>1. Timely(r, x) /\ x.key # Tag(N, Pred(N, r), m, round[r][m])
    BY <1>1 DEF Flow
  <2>2. \E l \in Chains, c \in 1 .. Calls, k \in 0 .. Rounds - 1 :
              /\ x = Parcel(N, M, Pred(N, r), l, c, k)
              /\ Accepted(r, l) <= Number(Rounds, c, k)
              /\ l = m => At(r, m) + 1 <= Number(Rounds, c, k)
              /\ Number(Rounds, c, k) < Handed(Pred(N, r), l)
    BY <2>1, OthersLater
  <2>3. QED
    BY <2>2
<1>3. Foreign(early'[r], wire'[<<Pred(N, r), r>>])
  BY <1>1 DEF Flow, Foreign
<1>4. QED
  BY <1>2, <1>3, FlowBy

(* The chain m of rank r sends to the next rank, or fails to.              *)
LEMMA SendFlow ==
    ASSUME Rings, CInv, job' = job, NEW r \in Ranks, NEW m \in Chains,
           ~started[r][m], round[r][m] < Rounds,
           NEW q \in Ranks, q = Succ(N, r), early'[q] = early[q],
           \/ wire'[<<r, q>>] = wire[<<r, q>>]
           \/ wire'[<<r, q>>] =
                Append(wire[<<r, q>>], Parcel(N, M, r, m, call[r], round[r][m])),
           \A l \in Chains : /\ Accepted(q, l)' = Accepted(q, l)
                             /\ Handed(r, l)' = IF l = m THEN At(r, m) + 1 ELSE Handed(r, l)
    PROVE  Flow(q)'
<1> DEFINE y == Parcel(N, M, r, m, call[r], round[r][m])
<1>1. Flow(q) /\ Pred(N, q) = r /\ Link(q) = wire[<<r, q>>] /\ Link(q) \in Seq(Parcels)
  <2>1. Pred(N, q) = r
    BY Moving
  <2>2. Link(q) = wire[<<r, q>>]
    BY <2>1 DEF Link
  <2>3. wire[<<r, q>>] \in Seq(Parcels)
    BY DEF CInv, Shapes
  <2>4. QED
    BY <2>1, <2>2, <2>3 DEF CInv, Flows
<1>2. Handed(r, m) = At(r, m) /\ \A l \in Chains : Handed(r, l) \in Int /\ At(r, m) \in Int
  BY Positions
<1>3. ASSUME NEW x, Timely(q, x)
      PROVE  \E l \in Chains, c \in 1 .. Calls, k \in 0 .. Rounds - 1 :
                 /\ x = Parcel(N, M, Pred(N, q), l, c, k)
                 /\ Accepted(q, l)' <= Number(Rounds, c, k)
                 /\ Number(Rounds, c, k) < Handed(Pred(N, q), l)'
  <2>1. PICK l \in Chains, c \in 1 .. Calls, k \in 0 .. Rounds - 1 :
                 /\ x = Parcel(N, M, r, l, c, k)
                 /\ Accepted(q, l) <= Number(Rounds, c, k)
                 /\ Number(Rounds, c, k) < Handed(r, l)
    BY <1>1, <1>3 DEF Timely
  <2>2. Number(Rounds, c, k) \in Int
    <3>1. Rounds \in Nat /\ Calls \in Nat /\ k \in 0 .. Rounds
      BY JobFacts DEF CInv, Shapes
    <3>2. QED
      BY <3>1, NumberIsInt
  <2>3. Number(Rounds, c, k) < (IF l = m THEN At(r, m) + 1 ELSE Handed(r, l))
    BY <1>2, <2>1, <2>2
  <2>4. Number(Rounds, c, k) < Handed(r, l)'
    BY <2>3
  <2>5. Handed(Pred(N, q), l)' = Handed(r, l)'
    <3>1. Pred(N', q) = r
      BY <1>1, JobSame
    <3>2. QED
      BY <3>1 DEF Handed, At
  <2>6. QED
    BY <1>1, <2>1, <2>4, <2>5
<1>4. CASE wire'[<<r, q>>] = wire[<<r, q>>]
  <2>1. \A x \in ToSet(early'[q]) \cup ToSet(wire'[<<Pred(N, q), q>>]) : Timely(q, x)
    BY <1>1, <1>4 DEF Flow
  <2>2. /\ Apart(early'[q]) /\ Apart(wire'[<<Pred(N, q), q>>])
        /\ Foreign(early'[q], wire'[<<Pred(N, q), q>>])
    BY <1>1, <1>4 DEF Flow
  <2>3. QED
    BY <1>3, <2>1, <2>2, FlowBy
<1>5. CASE wire'[<<r, q>>] = Append(wire[<<r, q>>], y)
  <2>1. y \in Parcels /\ y.key = Tag(N, r, m, round[r][m])
    <3>1. call[r] \in 1 .. Calls /\ round[r][m] \in 0 .. Rounds - 1
      BY Moving
    <3>2. QED
      BY <3>1 DEF Parcels, Parcel
  <2>2. \A x \in ToSet(early[q]) \cup ToSet(Link(q)) : Timely(q, x) /\ x.key # y.key
    BY <1>1, <2>1, FreshKey DEF Flow
  <2> HIDE DEF y
  <2>3. /\ Apart(Append(Link(q), y))
        /\ ToSet(Append(Link(q), y)) = ToSet(Link(q)) \cup {y}
    BY <1>1, <2>1, <2>2, AppendApart DEF Flow
  <2>4. \E l \in Chains, c \in 1 .. Calls, k \in 0 .. Rounds - 1 :
                 /\ y = Parcel(N, M, Pred(N, q), l, c, k)
                 /\ Accepted(q, l)' <= Number(Rounds, c, k)
                 /\ Number(Rounds, c, k) < Handed(Pred(N, q), l)'
    <3>1. /\ m \in Chains /\ call[r] \in 1 .. Calls /\ round[r][m] \in 0 .. Rounds - 1
          /\ y = Parcel(N, M, Pred(N, q), m, call[r], round[r][m])
      BY <1>1, Moving DEF y
    <3>2. Number(Rounds, call[r], round[r][m]) = At(r, m)
      BY DEF At
    <3>3. Accepted(q, m) <= Handed(r, m)
      BY <1>1 DEF CInv, Sourced
    <3>4. Accepted(q, m)' <= At(r, m) /\ At(r, m) < Handed(r, m)'
      BY <1>2, <3>3
    <3>5. Handed(Pred(N, q), m)' = Handed(r, m)'
      <4>1. Pred(N', q) = r
        BY <1>1, JobSame
      <4>2. QED
        BY <4>1 DEF Handed, At
    <3>6. QED
      BY <3>1, <3>2, <3>4, <3>5
  <2>5. Foreign(early'[q], wire'[<<Pred(N, q), q>>])
    BY <1>1, <1>5, <2>2, <2>3 DEF Flow, Foreign, y
  <2>6. \A x \in ToSet(early'[q]) \cup ToSet(wire'[<<Pred(N, q), q>>]) :
           x = y \/ Timely(q, x)
    BY <1>1, <1>5, <2>2, <2>3 DEF y
  <2>7. Apart(early'[q]) /\ Apart(wire'[<<Pred(N, q), q>>])
    BY <1>1, <1>5, <2>3 DEF Flow, y
  <2>8. QED
    BY <1>3, <2>4, <2>5, <2>6, <2>7, FlowBy
<1>6. QED
  BY <1>4, <1>5

-----------------------------------------------------------------------------
(* The steps keep the invariant.                                           *)

(* What does not depend on messages in flight or on how far a rank is.     *)
LEMMA BuffersFrame ==
    ASSUME CInv, job' = job, call' = call, round' = round, buf' = buf
    PROVE  BuffersRight'
BY JobSame DEF CInv, BuffersRight, Buffered

LEMMA LeadsFrame ==
    ASSUME CInv, job' = job, call' = call, round' = round
    PROVE  Leads' /\ \A r, m : At(r, m)' = At(r, m)
<1>1. \A r, m : At(r, m)' = At(r, m)
  BY JobSame DEF At
<1>2. Leads'
  BY <1>1, JobSame DEF CInv, Leads
<1>3. QED
  BY <1>1, <1>2

LEMMA WantFrame ==
    ASSUME job' = job, call' = call, round' = round
    PROVE  \A r, m : Want(r, m)' = Want(r, m)
BY JobSame DEF Want

(* A value that a chain gets is none of those that stand for none.         *)
LEMMA ValueGot ==
    ASSUME Rings, CInv, NEW r \in Ranks, NEW m \in Chains, round[r][m] < Rounds
    PROVE  /\ Want(r, m).vals # <<>>
           /\ Want(r, m).vals \in {x.vals : x \in Parcels}
<1>1. Want(r, m).vals # <<>>
  BY DEF Want, Parcel
<1>2. Want(r, m) \in Parcels
  <2>1. Pred(N, r) \in Ranks /\ call[r] \in 1 .. Calls /\ round[r][m] \in 0 .. Rounds - 1
    BY Moving
  <2>2. QED
    BY <2>1 DEF Want, Parcels
<1>3. QED
  BY <1>1, <1>2

LEMMA BeginKeeps ==
    ASSUME Rings, CInv, NEW r \in Ranks, NEW m \in Chains,
           round[r][m] < Rounds, ~started[r][m], Begins(r, m)
    PROVE  CInv'
<1> DEFINE k == round[r][m]
           q == Succ(N, r)
           y == Parcel(N, M, r, m, call[r], k)
<1>1. /\ job' = job /\ call' = call /\ round' = round /\ buf' = buf /\ errs' = errs
      /\ failed' \in {failed, failed \cup {<<r, m>>}}
      /\ started' = [started EXCEPT ![r][m] = TRUE]
  BY DEF Begins
<1>2. received[r][m] = <<>>
  BY DEF CInv, InRound
<1>3. /\ Ranks' = Ranks /\ Chains' = Chains /\ Rounds' = Rounds /\ N' = N /\ Calls' = Calls
      /\ Parcels' = Parcels /\ M' = M
  BY <1>1, JobSame
<1>4. /\ Pred(N, r) \in Ranks /\ q \in Ranks /\ Pred(N, r) # r /\ q # r /\ Pred(N, q) = r
      /\ call[r] \in 1 .. Calls /\ k \in 0 .. Rounds - 1
      /\ \A p \in Ranks : Pred(N, p) \in Ranks /\ (Pred(N, p) = r => p = q)
  <2>1. N \in Nat \ {0, 1} /\ Ranks = 0 .. N - 1
    BY Moving
  <2>2. \A p \in Ranks : Pred(N, p) \in Ranks /\ Succ(N, Pred(N, p)) = p
    BY <2>1, Neighbours
  <2>3. QED
    BY <2>2, Moving
<1>5. y \in Parcels
  BY <1>4 DEF Parcels
<1>6. /\ started \in [Ranks -> [Chains -> BOOLEAN]]
      /\ received \in [Ranks -> [Chains -> {x.vals : x \in Parcels} \cup {<<>>}]]
      /\ wire \in [Ranks \X Ranks -> Seq(Parcels)]
      /\ early \in [Ranks -> Seq(Parcels)]
  BY DEF CInv, Shapes
<1> HIDE DEF y, q, k
<1>7. /\ wire' \in [Ranks \X Ranks -> Seq(Parcels)]
      /\ \A e \in Ranks \X Ranks : e # <<r, q>> => wire'[e] = wire[e]
      /\ wire'[<<r, q>>] = wire[<<r, q>>] \/ wire'[<<r, q>>] = Append(wire[<<r, q>>], y)
  <2>1. wire' = wire \/ wire' = [wire EXCEPT ![<<r, q>>] = Append(@, y)]
    BY DEF Begins, y, q, k
  <2>2. <<r, q>> \in Ranks \X Ranks /\ Append(wire[<<r, q>>], y) \in Seq(Parcels)
    BY <1>4, <1>5, <1>6
  <2>3. QED
    BY <1>6, <2>1, <2>2
<1>8. /\ received' \in [Ranks -> [Chains -> {x.vals : x \in Parcels} \cup {<<>>}]]
      /\ early' \in [Ranks -> Seq(Parcels)]
      /\ \A p \in Ranks : p # r => early'[p] = early[p]
      /\ \A p \in Ranks, l \in Chains : p # r \/ l # m => received'[p][l] = received[p][l]
      /\ \/ early'[r] = early[r] /\ received'[r][m] = <<>>
         \/ /\ Apart(early'[r]) /\ ToSet(early'[r]) \subseteq ToSet(early[r])
            /\ \A x \in ToSet(early'[r]) : x.key # Tag(N, Pred(N, r), m, k)
            /\ \E x \in ToSet(early[r]) : x.key = Tag(N, Pred(N, r), m, k)
            /\ received'[r][m] = Want(r, m).vals
            /\ At(r, m) < Handed(Pred(N, r), m)
  <2>1. CASE UNCHANGED <<received, early>>
    BY <1>2, <1>6, <2>1
  <2>2. CASE ~UNCHANGED <<received, early>>
    <3>1. PICK i \in DOMAIN early[r] :
             /\ early[r][i].key = Tag(N, Pred(N, r), m, k)
             /\ received' = [received EXCEPT ![r][m] = early[r][i].vals]
             /\ early' = [early EXCEPT ![r] = RemoveAt(@, i)]
      BY <2>2 DEF Begins, k
    <3>2. Flow(r) /\ early[r] \in Seq(Parcels)
      BY <1>6 DEF CInv, Flows
    <3>3. /\ RemoveAt(early[r], i) \in Seq(Parcels) /\ Apart(RemoveAt(early[r], i))
          /\ ToSet(RemoveAt(early[r], i)) \subseteq ToSet(early[r])
          /\ \A x \in ToSet(RemoveAt(early[r], i)) : x.key # early[r][i].key
      BY <3>2, RemoveApart DEF Flow
    <3>4. early[r][i] \in ToSet(early[r])
      BY DEF ToSet
    <3>5. Timely(r, early[r][i])
      BY <3>2, <3>4 DEF Flow
    <3>6. early[r][i] = Want(r, m) /\ At(r, m) < Handed(Pred(N, r), m)
      BY <1>2, <3>1, <3>5, Matched DEF k
    <3>7. Want(r, m).vals \in {x.vals : x \in Parcels}
      BY ValueGot
    <3>8. /\ early'[r] = RemoveAt(early[r], i) /\ early' \in [Ranks -> Seq(Parcels)]
          /\ \A p \in Ranks : p # r => early'[p] = early[p]
      BY <1>6, <3>1, <3>3
    <3>9. /\ received' \in [Ranks -> [Chains -> {x.vals : x \in Parcels} \cup {<<>>}]]
          /\ \A p \in Ranks, l \in Chains : p # r \/ l # m => received'[p][l] = received[p][l]
          /\ received'[r][m] = Want(r, m).vals
      BY <1>6, <3>1, <3>6, <3>7
    <3>10. QED
      BY <3>1, <3>3, <3>4, <3>6, <3>8, <3>9
  <2>3. QED
    BY <2>1, <2>2
<1>9. /\ started' \in [Ranks -> [Chains -> BOOLEAN]] /\ started'[r][m] = TRUE
      /\ \A p \in Ranks, l \in Chains : p # r \/ l # m => started'[p][l] = started[p][l]
  BY <1>1, <1>6
<1>10. Leads' /\ \A p, l : At(p, l)' = At(p, l)
  BY <1>1, LeadsFrame
<1>11. \A p \in Ranks, l \in Chains :
          Handed(p, l)' = IF p = r /\ l = m THEN At(r, m) + 1 ELSE Handed(p, l)
  BY <1>9, <1>10 DEF Handed
<1>12. \A p \in Ranks, l \in Chains : p # r \/ l # m => Accepted(p, l)' = Accepted(p, l)
  BY <1>8, <1>10 DEF Accepted
<1>13. Accepted(r, m)' = IF received'[r][m] = <<>> THEN At(r, m) ELSE At(r, m) + 1
  BY <1>10, Positions DEF Accepted
<1>14. Shapes'
  <2>1. failed' \subseteq Ranks \X Chains
    BY <1>1 DEF CInv, Shapes
  <2>2. QED
    BY <1>1, <1>3, <1>7, <1>8, <1>9, <2>1 DEF CInv, Shapes
<1>15. InRound'
  <2>1. ASSUME NEW p \in Ranks, NEW l \in Chains
        PROVE  /\ started'[p][l] => round'[p][l] < Rounds
               /\ ~started'[p][l] => received'[p][l] = <<>>
    <3>1. CASE p = r /\ l = m
      BY <1>1, <1>9, <3>1
    <3>2. CASE ~(p = r /\ l = m)
      <4>1. started'[p][l] = started[p][l] /\ received'[p][l] = received[p][l]
        BY <1>8, <1>9, <3>2
      <4>2. /\ started[p][l] => round[p][l] < Rounds
            /\ ~started[p][l] => received[p][l] = <<>>
        BY DEF CInv, InRound
      <4>3. QED
        BY <1>1, <4>1, <4>2
    <3>3. QED
      BY <3>1, <3>2
  <2>2. QED
    BY <1>3, <2>1 DEF InRound
<1>16. GotRight'
  <2>1. \A p, l : Want(p, l)' = Want(p, l)
    BY <1>1, WantFrame
  <2>2. \A p \in Ranks, l \in Chains :
           received'[p][l] # <<>> => received'[p][l] = Want(p, l).vals
    BY <1>8 DEF CInv, GotRight
  <2>3. QED
    BY <1>3, <2>1, <2>2 DEF GotRight
<1>17. BuffersRight'
  BY <1>1, BuffersFrame
<1>18. Straight'
  BY <1>3, <1>4, <1>7 DEF CInv, Straight
<1>19. Sourced'
  <2>1. \A p \in Ranks, l \in Chains : Accepted(p, l)' <= Handed(Pred(N, p), l)'
    <3>1. SUFFICES ASSUME NEW p \in Ranks, NEW l \in Chains
                   PROVE  Accepted(p, l)' <= Handed(Pred(N, p), l)'
      OBVIOUS
    <3>2. /\ Accepted(p, l) <= Handed(Pred(N, p), l)
          /\ Accepted(p, l) \in Int /\ Handed(Pred(N, p), l) \in Int
          /\ At(r, m) \in Int /\ Handed(r, m) = At(r, m)
      <4>1. Pred(N, p) \in Ranks /\ Accepted(p, l) <= Handed(Pred(N, p), l)
        BY <1>4 DEF CInv, Sourced
      <4>2. Accepted(p, l) \in Int /\ At(r, m) \in Int /\ Handed(r, m) = At(r, m)
        BY Positions
      <4>3. Handed(Pred(N, p), l) \in Int
        BY <4>1, Positions
      <4>4. QED
        BY <4>1, <4>2, <4>3
    <3>3. Handed(Pred(N, p), l)' = IF Pred(N, p) = r /\ l = m THEN At(r, m) + 1
                                   ELSE Handed(Pred(N, p), l)
      BY <1>3, <1>4, <1>11 DEF Handed, At
    <3>4. CASE p = r /\ l = m
      <4>1. Accepted(r, m) = At(r, m)
        BY <1>2, Positions
      <4>2. QED
        BY <1>4, <1>8, <1>13, <3>2, <3>3, <3>4, <4>1
    <3>5. CASE ~(p = r /\ l = m)
      BY <1>12, <3>2, <3>3, <3>5
    <3>6. QED
      BY <3>4, <3>5
  <2>2. QED
    BY <1>3, <2>1 DEF Sourced
<1>20. Flows'
  <2>1. SUFFICES ASSUME NEW p \in Ranks PROVE Flow(p)'
    BY <1>3 DEF Flows
  <2>2. CASE p = q
    <3>1. early'[p] = early[p]
      BY <1>4, <1>8, <2>2
    <3>2. \A l \in Chains : /\ Accepted(p, l)' = Accepted(p, l)
                            /\ Handed(r, l)' = IF l = m THEN At(r, m) + 1 ELSE Handed(r, l)
      BY <1>4, <1>11, <1>12, <2>2
    <3>3. p = Succ(N, r)
      BY <2>2 DEF q
    <3>4. \/ wire'[<<r, p>>] = wire[<<r, p>>]
          \/ wire'[<<r, p>>] =
               Append(wire[<<r, p>>], Parcel(N, M, r, m, call[r], round[r][m]))
      BY <1>7, <2>2 DEF y, k
    <3>5. QED
      BY <1>1, <3>1, <3>2, <3>3, <3>4, SendFlow
  <2>3. CASE p # q
    <3>1. <<Pred(N, p), p>> \in Ranks \X Ranks /\ <<Pred(N, p), p>> # <<r, q>> /\ Pred(N, p) # r
      BY <1>4, <2>3
    <3>2. wire'[<<Pred(N, p), p>>] = wire[<<Pred(N, p), p>>]
      BY <1>7, <3>1
    <3>3. \A l \in Chains : Handed(Pred(N, p), l)' = Handed(Pred(N, p), l)
      BY <1>3, <1>4, <1>11, <3>1 DEF Handed, At
    <3>4. CASE p # r \/ (early'[r] = early[r] /\ received'[r][m] = <<>>)
      <4>1. early'[p] = early[p]
        BY <1>8, <3>4
      <4>2. \A l \in Chains : Accepted(p, l)' = Accepted(p, l)
        <5>1. Accepted(r, m) = At(r, m)
          BY <1>2, Positions
        <5>2. QED
          BY <1>12, <1>13, <3>4, <5>1
      <4>3. QED
        BY <1>1, <3>2, <3>3, <4>1, <4>2, SameFlow
    <3>5. CASE p = r /\ ~(early'[r] = early[r] /\ received'[r][m] = <<>>)
      <4>1. /\ Apart(early'[r]) /\ ToSet(early'[r]) \subseteq ToSet(early[r])
            /\ \A x \in ToSet(early'[r]) : x.key # Tag(N, Pred(N, r), m, k)
            /\ \E x \in ToSet(early[r]) : x.key = Tag(N, Pred(N, r), m, k)
            /\ received'[r][m] = Want(r, m).vals
        BY <1>8, <3>5
      <4>2. /\ Flow(r) /\ wire'[<<Pred(N, r), r>>] = Link(r)
        BY <3>2, <3>5 DEF CInv, Flows, Link
      <4>3. \A x \in ToSet(Link(r)) : x.key # Tag(N, Pred(N, r), m, k)
        BY <4>1, <4>2 DEF Flow, Foreign
      <4>4. \A l \in Chains : Accepted(r, l)' = IF l = m THEN At(r, m) + 1 ELSE Accepted(r, l)
        BY <1>12, <1>13, <4>1, ValueGot
      <4>5. Apart(wire'[<<Pred(N, r), r>>])
        BY <4>2 DEF Flow
      <4>6. Flow(r)'
        BY <1>1, <1>2, <3>3, <3>5, <4>1, <4>2, <4>3, <4>4, <4>5, TakeFlow DEF k
      <4>7. QED
        BY <3>5, <4>6
    <3>6. QED
      BY <3>4, <3>5
  <2>4. QED
    BY <2>2, <2>3
<1>21. QED
  BY <1>10, <1>14, <1>15, <1>16, <1>17, <1>18, <1>19, <1>20 DEF CInv

LEMMA PredIn ==
    ASSUME Rings, job \in Jobs
    PROVE  \A p \in Ranks : Pred(N, p) \in Ranks
<1>1. N \in Nat \ {0} /\ Ranks = 0 .. N - 1
  BY JobFacts
<1>2. CASE N = 1
  <2>1. \A p \in Ranks : p + N - 1 = 0 /\ 0 \in Ranks
    BY <1>1, <1>2
  <2>2. 0 % 1 = 0
    OBVIOUS
  <2>3. QED
    BY <1>1, <1>2, <2>1, <2>2 DEF Pred
<1>3. CASE N # 1
  <2>1. N \in Nat \ {0, 1}
    BY <1>1, <1>3
  <2>2. QED
    BY <1>1, <2>1, Neighbours
<1>4. QED
  BY <1>2, <1>3

LEMMA ArrivalKeeps ==
    ASSUME Rings, CInv, NEW r \in Ranks, Arrives(r)
    PROVE  CInv'
<1> DEFINE x == Head(Link(r))
           e == <<Pred(N, r), r>>
           W == Link(r)
<1>1. /\ job' = job /\ call' = call /\ round' = round /\ buf' = buf /\ errs' = errs
      /\ failed' = failed /\ started' = started
      /\ W # <<>> /\ wire' = [wire EXCEPT ![e] = Tail(@)] /\ W = wire[e]
  BY DEF Arrives, Link
<1>2. /\ Ranks' = Ranks /\ Chains' = Chains /\ Rounds' = Rounds /\ N' = N /\ Calls' = Calls
      /\ Parcels' = Parcels /\ M' = M
  BY <1>1, JobSame
<1>3. /\ N \in Nat \ {0} /\ Ranks = 0 .. N - 1
      /\ \A p \in Ranks : Pred(N, p) \in Ranks
  BY JobFacts, PredIn DEF CInv, Shapes
<1>4. /\ received \in [Ranks -> [Chains -> {y.vals : y \in Parcels} \cup {<<>>}]]
      /\ wire \in [Ranks \X Ranks -> Seq(Parcels)] /\ e \in Ranks \X Ranks
      /\ early \in [Ranks -> Seq(Parcels)] /\ W \in Seq(Parcels)
  BY <1>1, <1>3 DEF CInv, Shapes
<1>5. /\ Flow(r) /\ Apart(W) /\ Apart(early[r]) /\ Foreign(early[r], W)
      /\ \A y \in ToSet(early[r]) \cup ToSet(W) : Timely(r, y)
  BY DEF CInv, Flows, Flow
<1> HIDE DEF W
<1>6. /\ Tail(W) \in Seq(Parcels) /\ Apart(Tail(W)) /\ x \in Parcels
      /\ ToSet(Tail(W)) \subseteq ToSet(W) /\ x \in ToSet(W)
      /\ \A y \in ToSet(Tail(W)) : y.key # x.key
  BY <1>1, <1>4, <1>5, TailApart DEF W
<1> HIDE DEF x, e
<1>7. /\ wire' \in [Ranks \X Ranks -> Seq(Parcels)] /\ wire'[e] = Tail(W)
      /\ \A d \in Ranks \X Ranks : d # e => wire'[d] = wire[d]
  BY <1>1, <1>4, <1>6
<1>8. Leads' /\ \A p, l : At(p, l)' = At(p, l)
  BY <1>1, LeadsFrame
<1>9. \A p, l : Handed(p, l)' = Handed(p, l)
  BY <1>1, <1>8 DEF Handed
<1>10. BuffersRight'
  BY <1>1, BuffersFrame
<1>11. Straight'
  BY <1>2, <1>3, <1>7 DEF CInv, Straight, e
<1>12. ASSUME NEW p \in Ranks, p # r,
              early'[p] = early[p], \A l \in Chains : Accepted(p, l)' = Accepted(p, l)
       PROVE  Flow(p)'
  <2>1. wire'[<<Pred(N, p), p>>] = wire[<<Pred(N, p), p>>]
    BY <1>3, <1>7, <1>12 DEF e
  <2>2. \A l \in Chains : Handed(Pred(N, p), l)' = Handed(Pred(N, p), l)
    BY <1>2, <1>9 DEF Handed, At
  <2>3. QED
    BY <1>1, <1>12, <2>1, <2>2, SameFlow
<1>13. CASE \E m \in Chains :
              /\ Awaits(r, m, x.key)
              /\ received' = [received EXCEPT ![r][m] = x.vals]
              /\ UNCHANGED early
  <2>1. PICK m \in Chains :
           /\ Awaits(r, m, x.key)
           /\ received' = [received EXCEPT ![r][m] = x.vals]
           /\ UNCHANGED early
    BY <1>13
  <2>2. /\ started[r][m] /\ received[r][m] = <<>> /\ round[r][m] < Rounds
        /\ x.key = Tag(N, Pred(N, r), m, round[r][m])
    BY <2>1 DEF Awaits, CInv, InRound
  <2>3. x = Want(r, m) /\ At(r, m) < Handed(Pred(N, r), m)
    BY <1>5, <1>6, <2>2, Matched
  <2>4. Want(r, m).vals # <<>> /\ Want(r, m).vals \in {y.vals : y \in Parcels}
    BY <2>2, ValueGot
  <2>5. /\ received' \in [Ranks -> [Chains -> {y.vals : y \in Parcels} \cup {<<>>}]]
        /\ received'[r][m] = Want(r, m).vals
        /\ \A p \in Ranks, l \in Chains : p # r \/ l # m => received'[p][l] = received[p][l]
    BY <1>4, <2>1, <2>3, <2>4
  <2>6. /\ \A p \in Ranks, l \in Chains : p # r \/ l # m => Accepted(p, l)' = Accepted(p, l)
        /\ Accepted(r, m)' = At(r, m) + 1
    BY <1>8, <2>4, <2>5 DEF Accepted
  <2>7. Shapes'
    BY <1>1, <1>2, <1>7, <2>1, <2>5 DEF CInv, Shapes
  <2>8. InRound'
    <3>1. ASSUME NEW p \in Ranks, NEW l \in Chains
          PROVE  /\ started'[p][l] => round'[p][l] < Rounds
                 /\ ~started'[p][l] => received'[p][l] = <<>>
      <4>1. /\ started[p][l] => round[p][l] < Rounds
            /\ ~started[p][l] => received[p][l] = <<>>
        BY DEF CInv, InRound
      <4>2. QED
        BY <1>1, <2>2, <2>5, <4>1
    <3>2. QED
      BY <1>2, <3>1 DEF InRound
  <2>9. GotRight'
    <3>1. \A p, l : Want(p, l)' = Want(p, l)
      BY <1>1, WantFrame
    <3>2. \A p \in Ranks, l \in Chains :
             received'[p][l] # <<>> => received'[p][l] = Want(p, l).vals
      BY <2>5 DEF CInv, GotRight
    <3>3. QED
      BY <1>2, <3>1, <3>2 DEF GotRight
  <2>10. Sourced'
    <3>1. ASSUME NEW p \in Ranks, NEW l \in Chains
          PROVE  Accepted(p, l)' <= Handed(Pred(N, p), l)'
      <4>1. Accepted(p, l) <= Handed(Pred(N, p), l) /\ Pred(N, p) \in Ranks
        BY <1>3 DEF CInv, Sourced
      <4>2. Handed(Pred(N, p), l)' = Handed(Pred(N, p), l)
        BY <1>2, <1>9 DEF Handed, At
      <4>3. CASE p = r /\ l = m
        <5>1. At(r, m) \in Int /\ Handed(Pred(N, r), m) \in Int
          BY <4>1, <4>3, Positions
        <5>2. QED
          BY <2>3, <2>6, <4>2, <4>3, <5>1
      <4>4. CASE ~(p = r /\ l = m)
        BY <2>6, <4>1, <4>2, <4>4
      <4>5. QED
        BY <4>3, <4>4
    <3>2. QED
      BY <1>2, <3>1 DEF Sourced
  <2>11. Flow(r)'
    <3>1. \A l \in Chains : /\ Accepted(r, l)' = IF l = m THEN At(r, m) + 1 ELSE Accepted(r, l)
                            /\ Handed(Pred(N, r), l)' = Handed(Pred(N, r), l)
      BY <1>2, <1>9, <2>6 DEF Handed, At
    <3>2. wire'[<<Pred(N, r), r>>] = Tail(W) /\ early'[r] = early[r]
      BY <1>7, <2>1 DEF e
    <3>3. \A y \in ToSet(early[r]) : y.key # x.key
      BY <1>5, <1>6 DEF Foreign
    <3>4. Link(r) = W
      BY DEF W
    <3>5. QED
      BY <1>1, <1>5, <1>6, <2>2, <3>1, <3>2, <3>3, <3>4, TakeFlow
  <2>12. Flows'
    BY <1>2, <1>12, <2>1, <2>6, <2>11 DEF Flows
  <2>13. QED
    BY <1>8, <1>10, <1>11, <2>7, <2>8, <2>9, <2>10, <2>12 DEF CInv
<1>14. CASE early' = [early EXCEPT ![r] = Append(@, x)] /\ UNCHANGED received
  <2>1. \A y \in ToSet(early[r]) : y.key # x.key
    BY <1>5, <1>6 DEF Foreign
  <2>2. /\ Append(early[r], x) \in Seq(Parcels) /\ Apart(Append(early[r], x))
        /\ ToSet(Append(early[r], x)) = ToSet(early[r]) \cup {x}
    BY <1>4, <1>5, <1>6, <2>1, AppendApart
  <2>3. /\ early' \in [Ranks -> Seq(Parcels)] /\ early'[r] = Append(early[r], x)
        /\ \A p \in Ranks : p # r => early'[p] = early[p]
    BY <1>4, <1>14, <2>2
  <2>4. \A p, l : Accepted(p, l)' = Accepted(p, l)
    BY <1>8, <1>14 DEF Accepted
  <2>5. Shapes'
    BY <1>1, <1>2, <1>7, <1>14, <2>3 DEF CInv, Shapes
  <2>6. InRound'
    BY <1>1, <1>2, <1>14 DEF CInv, InRound
  <2>7. GotRight'
    <3>1. \A p, l : Want(p, l)' = Want(p, l)
      BY <1>1, WantFrame
    <3>2. QED
      BY <1>2, <1>14, <3>1 DEF CInv, GotRight
  <2>8. Sourced'
    <3>1. ASSUME NEW p \in Ranks, NEW l \in Chains
          PROVE  Accepted(p, l)' <= Handed(Pred(N, p), l)'
      <4>1. Accepted(p, l) <= Handed(Pred(N, p), l)
        BY DEF CInv, Sourced
      <4>2. Handed(Pred(N, p), l)' = Handed(Pred(N, p), l)
        BY <1>2, <1>9 DEF Handed, At
      <4>3. QED
        BY <2>4, <4>1, <4>2
    <3>2. QED
      BY <1>2, <3>1 DEF Sourced
  <2>9. Flow(r)'
    <3>1. \A l \in Chains : /\ Accepted(r, l)' = Accepted(r, l)
                            /\ Handed(Pred(N, r), l)' = Handed(Pred(N, r), l)
      BY <1>2, <1>9, <2>4 DEF Handed, At
    <3>2. wire'[<<Pred(N, r), r>>] = Tail(W)
      BY <1>7 DEF e
    <3>3. \A y \in ToSet(early'[r]) \cup ToSet(wire'[<<Pred(N, r), r>>]) : Timely(r, y)
      BY <1>5, <1>6, <2>2, <2>3, <3>2
    <3>4. \A y \in ToSet(early'[r]) \cup ToSet(wire'[<<Pred(N, r), r>>]) :
              \E l \in Chains, c \in 1 .. Calls, k \in 0 .. Rounds - 1 :
                 /\ y = Parcel(N, M, Pred(N, r), l, c, k)
                 /\ Accepted(r, l)' <= Number(Rounds, c, k)
                 /\ Number(Rounds, c, k) < Handed(Pred(N, r), l)'
      BY <3>1, <3>3 DEF Timely
    <3>5. Foreign(early'[r], wire'[<<Pred(N, r), r>>])
      BY <1>5, <1>6, <2>2, <2>3, <3>2 DEF Foreign
    <3>6. QED
      BY <1>1, <1>6, <2>2, <2>3, <3>2, <3>4, <3>5, FlowBy
  <2>10. Flows'
    BY <1>2, <1>12, <2>3, <2>4, <2>9 DEF Flows
  <2>11. QED
    BY <1>8, <1>10, <1>11, <2>5, <2>6, <2>7, <2>8, <2>10 DEF CInv
<1>15. QED
  BY <1>13, <1>14 DEF Arrives, x

(* A step that neither sends nor takes.                                    *)
LEMMA FlowsFrame ==
    ASSUME Rings, CInv, job' = job, wire' = wire, early' = early,
           \A p \in Ranks, l \in Chains : /\ Accepted(p, l)' = Accepted(p, l)
                                          /\ Handed(p, l)' = Handed(p, l)
    PROVE  Flows' /\ Straight' /\ Sourced'
<1>1. Ranks' = Ranks /\ Chains' = Chains /\ N' = N
  BY JobSame
<1>2. \A p \in Ranks : Pred(N, p) \in Ranks
  BY PredIn DEF CInv, Shapes
<1>3. \A p \in Ranks, l \in Chains : Handed(Pred(N, p), l)' = Handed(Pred(N, p), l)
  BY <1>1, <1>2 DEF Handed, At
<1>4. Flows'
  <2>1. SUFFICES ASSUME NEW p \in Ranks PROVE Flow(p)'
    BY <1>1 DEF Flows
  <2>2. QED
    BY <1>3, SameFlow
<1>5. Straight'
  BY <1>1 DEF CInv, Straight
<1>6. Sourced'
  <2>1. \A p \in Ranks, l \in Chains : Accepted(p, l)' <= Handed(Pred(N, p), l)'
    BY <1>3 DEF CInv, Sourced
  <2>2. QED
    BY <1>1, <2>1 DEF Sourced
<1>7. QED
  BY <1>4, <1>5, <1>6

LEMMA ConcludeKeeps ==
    ASSUME Rings, CInv, NEW r \in Ranks, NEW m \in Chains, Concludes(r, m)
    PROVE  CInv'
<1> DEFINE k == round[r][m]
           i == In(N, r, k)
           v == Want(r, m).vals[1]
<1>1. /\ job' = job /\ call' = call /\ wire' = wire /\ early' = early
      /\ failed' = failed /\ errs' = errs
      /\ started[r][m] /\ received[r][m] # <<>>
      /\ received' = [received EXCEPT ![r][m] = <<>>]
      /\ started' = [started EXCEPT ![r][m] = FALSE]
      /\ round' = [round EXCEPT ![r][m] = k + 1]
      /\ DOMAIN buf' = DOMAIN buf
      /\ \A s \in Ranks \ {r} : buf'[s] = buf[s]
      /\ \A s \in Slots :
            buf'[r][s] = IF s # i * M + m THEN buf[r][s]
                         ELSE IF k < N - 1 THEN reduce_in_place(buf[r][s], v) ELSE v
  BY DEF Concludes
<1>2. k < Rounds
  BY <1>1 DEF CInv, InRound
<1>3. /\ N \in Nat \ {0, 1} /\ Rounds = 2 * (N - 1) /\ Rounds \in Nat \ {0}
      /\ Ranks = 0 .. N - 1 /\ Chains = 0 .. M - 1 /\ M \in Nat \ {0}
      /\ k \in 0 .. Rounds - 1 /\ call[r] \in 1 .. Calls /\ Pred(N, r) \in Ranks
  BY <1>2, Moving
<1>4. Slots = 0 .. N * M - 1
  BY JobFacts DEF CInv, Shapes
<1>5. /\ Ranks' = Ranks /\ Chains' = Chains /\ Rounds' = Rounds /\ N' = N /\ Calls' = Calls
      /\ Parcels' = Parcels /\ M' = M /\ Slots' = Slots
  BY <1>1, JobSame
<1>6. /\ started \in [Ranks -> [Chains -> BOOLEAN]]
      /\ received \in [Ranks -> [Chains -> {x.vals : x \in Parcels} \cup {<<>>}]]
      /\ round \in [Ranks -> [Chains -> 0 .. Rounds]]
  BY DEF CInv, Shapes
<1>7. i \in 0 .. N - 1 /\ k \in 0 .. 2 * (N - 1) - 1
  BY <1>3, ChunksAre
<1>8. v = Sum(call[r], i * M + m, Sent(N, Pred(N, r), k))
  <2>1. i = Out(N, Pred(N, r), k)
    BY <1>3, <1>7, InIsOut
  <2>2. QED
    BY <2>1 DEF Want, Parcel
<1> HIDE DEF k, i, v
<1>9. /\ started' \in [Ranks -> [Chains -> BOOLEAN]] /\ started'[r][m] = FALSE
      /\ received' \in [Ranks -> [Chains -> {x.vals : x \in Parcels} \cup {<<>>}]]
      /\ received'[r][m] = <<>>
      /\ round' \in [Ranks -> [Chains -> 0 .. Rounds]] /\ round'[r][m] = k + 1
  <2>1. k + 1 \in 0 .. Rounds
    BY <1>3
  <2>2. QED
    BY <1>1, <1>6, <2>1
<1>10. \A p \in Ranks, l \in Chains : p # r \/ l # m =>
          /\ started'[p][l] = started[p][l]
          /\ received'[p][l] = received[p][l]
          /\ round'[p][l] = round[p][l]
  BY <1>1, <1>6
<1>11. /\ \A p \in Ranks, l \in Chains : p # r \/ l # m => At(p, l)' = At(p, l)
       /\ At(r, m)' = At(r, m) + 1
  <2>1. ASSUME NEW p \in Ranks, NEW l \in Chains, p # r \/ l # m
        PROVE  At(p, l)' = At(p, l)
    <3>1. round'[p][l] = round[p][l]
      BY <1>10, <2>1
    <3>2. QED
      BY <1>1, <1>5, <3>1 DEF At
  <2>2. At(r, m)' = Number(Rounds, call[r], k + 1)
    BY <1>1, <1>5, <1>9 DEF At
  <2>3. At(r, m) = Number(Rounds, call[r], k)
    BY DEF At, k
  <2>4. Number(Rounds, call[r], k + 1) = Number(Rounds, call[r], k) + 1
    <3> DEFINE a == (call[r] - 1) * Rounds
    <3>1. a \in Int
      <4>1. call[r] - 1 \in Int /\ Rounds \in Int
        BY <1>3
      <4>2. QED
        BY <4>1
    <3> HIDE DEF a
    <3>2. a + (k + 1) = a + k + 1
      BY <1>3, <3>1
    <3>3. QED
      BY <3>2 DEF a, Number
  <2>5. QED
    BY <2>1, <2>2, <2>3, <2>4
<1>12. \A p \in Ranks, l \in Chains :
          At(p, l) \in Nat /\ Accepted(p, l)' = Accepted(p, l) /\ Handed(p, l)' = Handed(p, l)
  <2>1. SUFFICES ASSUME NEW p \in Ranks, NEW l \in Chains
                 PROVE  /\ At(p, l) \in Nat /\ Accepted(p, l)' = Accepted(p, l)
                        /\ Handed(p, l)' = Handed(p, l)
    OBVIOUS
  <2>2. At(p, l) \in Nat
    BY Positions
  <2>3. CASE p = r /\ l = m
    <3>1. Accepted(r, m) = At(r, m) + 1 /\ Handed(r, m) = At(r, m) + 1
      BY <1>1, Positions
    <3>2. Accepted(r, m)' = At(r, m)' + 0 /\ Handed(r, m)' = At(r, m)' + 0
      BY <1>9 DEF Accepted, Handed
    <3>3. QED
      BY <1>11, <2>2, <2>3, <3>1, <3>2
  <2>4. CASE ~(p = r /\ l = m)
    BY <1>10, <1>11, <2>2, <2>4 DEF Accepted, Handed
  <2>5. QED
    BY <2>2, <2>3, <2>4
<1>13. Flows' /\ Straight' /\ Sourced'
  BY <1>1, <1>12, FlowsFrame
<1>14. Shapes'
  BY <1>1, <1>5, <1>9 DEF CInv, Shapes
<1>15. InRound'
  <2>1. ASSUME NEW p \in Ranks, NEW l \in Chains
        PROVE  /\ started'[p][l] => round'[p][l] < Rounds
               /\ ~started'[p][l] => received'[p][l] = <<>>
    <3>1. CASE p = r /\ l = m
      BY <1>9, <3>1
    <3>2. CASE ~(p = r /\ l = m)
      <4>1. /\ started'[p][l] = started[p][l] /\ received'[p][l] = received[p][l]
            /\ round'[p][l] = round[p][l]
        BY <1>10, <3>2
      <4>2. /\ started[p][l] => round[p][l] < Rounds
            /\ ~started[p][l] => received[p][l] = <<>>
        BY DEF CInv, InRound
      <4>3. QED
        BY <4>1, <4>2
    <3>3. QED
      BY <3>1, <3>2
  <2>2. QED
    BY <1>5, <2>1 DEF InRound
<1>16. GotRight'
  <2>1. ASSUME NEW p \in Ranks, NEW l \in Chains, received'[p][l] # <<>>
        PROVE  received'[p][l] = Want(p, l)'.vals
    <3>1. p # r \/ l # m
      BY <1>9, <2>1
    <3>2. received'[p][l] = received[p][l] /\ round'[p][l] = round[p][l]
      BY <1>10, <3>1
    <3>3. Want(p, l)' = Want(p, l)
      BY <1>1, <1>5, <3>2 DEF Want
    <3>4. QED
      BY <2>1, <3>2, <3>3 DEF CInv, GotRight
  <2>2. QED
    BY <1>5, <2>1 DEF GotRight
<1>17. Leads'
  <2>1. ASSUME NEW p \in Ranks, NEW s \in Ranks, NEW l \in Chains
        PROVE  At(s, l)' <= At(p, l)' + Gap(N, s, p)
    <3>1. /\ At(s, l) <= At(p, l) + Gap(N, s, p) /\ At(s, l) \in Nat /\ At(p, l) \in Nat
          /\ Gap(N, s, p) \in Nat
      BY <1>3, <1>12, GapSteps DEF CInv, Leads
    <3>2. CASE l # m \/ (s # r /\ p # r)
      BY <1>11, <3>1, <3>2
    <3>3. CASE l = m /\ s # r /\ p = r
      <4>1. At(s, l)' = At(s, l) /\ At(p, l)' = At(p, l) + 1
        BY <1>11, <3>3
      <4>2. QED
        BY <3>1, <4>1
    <3>4. CASE l = m /\ s = r /\ p = r
      <4>1. Gap(N, s, p) = 0 /\ At(s, l)' = At(p, l)'
        BY <1>3, <3>4, GapSteps
      <4>2. At(p, l)' = At(p, l) + 1
        BY <1>11, <3>4
      <4>3. QED
        BY <3>1, <4>1, <4>2
    <3>5. CASE l = m /\ s = r /\ p # r
      <4> DEFINE d == Pred(N, r)
      <4>1. d \in Ranks /\ Gap(N, r, p) = Gap(N, d, p) + 1 /\ Gap(N, d, p) \in Nat
        BY <1>3, <3>5, GapSteps
      <4>2. At(d, m) <= At(p, m) + Gap(N, d, p) /\ At(d, m) \in Nat
        BY <1>12, <4>1 DEF CInv, Leads
      <4>3. /\ Accepted(r, m) = At(r, m) + 1 /\ Accepted(r, m) <= Handed(d, m)
            /\ Handed(d, m) \in {At(d, m), At(d, m) + 1}
        BY <1>1, <4>1, Positions DEF CInv, Sourced
      <4>4. At(s, l)' = At(r, m) + 1 /\ At(p, l)' = At(p, m)
        BY <1>11, <3>5
      <4> HIDE DEF d
      <4>5. QED
        BY <3>1, <3>5, <4>1, <4>2, <4>3, <4>4
    <3>6. QED
      BY <3>2, <3>3, <3>4, <3>5
  <2>2. QED
    BY <1>5, <2>1 DEF Leads
<1>18. BuffersRight'
  <2>1. ASSUME NEW p \in Ranks, NEW l \in Chains, NEW idx \in Ranks
        PROVE  buf'[p][idx * M + l] =
                 Sum(call[p], idx * M + l, Have(N, p, round'[p][l], idx))
    <3>1. buf[p][idx * M + l] = Sum(call[p], idx * M + l, Have(N, p, round[p][l], idx))
      BY DEF CInv, BuffersRight, Buffered
    <3>2. CASE p # r
      BY <1>1, <1>10, <3>1, <3>2
    <3>3. idx * M + l \in Slots
      BY <1>3, <1>4, SlotIn
    <3>4. idx * M + l = i * M + m => idx = i /\ l = m
      <4>1. idx \in Nat /\ i \in Nat /\ l \in 0 .. M - 1 /\ m \in 0 .. M - 1
        BY <1>3, <1>7
      <4>2. QED
        BY <1>3, <4>1, SlotUnique
    <3>5. CASE p = r /\ ~(idx = i /\ l = m)
      <4>1. buf'[p][idx * M + l] = buf[p][idx * M + l]
        BY <1>1, <3>3, <3>4, <3>5
      <4>2. Have(N, r, round'[r][l], idx) = Have(N, r, round[r][l], idx)
        <5>1. CASE l # m
          BY <1>10, <5>1
        <5>2. CASE l = m
          <6>1. Have(N, r, k + 1, idx) = Have(N, r, k, idx)
            BY <1>3, <1>7, <3>5, <5>2, HaveOther DEF i
          <6>2. QED
            BY <1>9, <5>2, <6>1 DEF k
        <5>3. QED
          BY <5>1, <5>2
      <4>3. QED
        BY <3>1, <3>5, <4>1, <4>2
    <3>6. CASE p = r /\ idx = i /\ l = m
      <4>1. buf'[r][i * M + m] =
              IF k < N - 1 THEN reduce_in_place(buf[r][i * M + m], v) ELSE v
        BY <1>1, <3>3, <3>6
      <4>2. round'[r][m] = k + 1
        BY <1>9
      <4>3. CASE k < N - 1
        <5>1. /\ Have(N, r, k, i) = {r} /\ r \notin Sent(N, Pred(N, r), k)
              /\ Have(N, r, k + 1, i) = {r} \cup Sent(N, Pred(N, r), k)
          BY <1>3, <1>7, <4>3, HaveIn DEF i
        <5>2. {r} \cap Sent(N, Pred(N, r), k) = {}
          BY <5>1
        <5>3. buf[r][i * M + m] = Sum(call[r], i * M + m, {r})
          BY <3>1, <3>6, <5>1 DEF k
        <5>4. reduce_in_place(buf[r][i * M + m], v)
                = Sum(call[r], i * M + m, {r} \cup Sent(N, Pred(N, r), k))
          BY <1>8, <5>2, <5>3, SumUnion
        <5>5. QED
          BY <3>6, <4>1, <4>2, <4>3, <5>1, <5>4
      <4>4. CASE ~(k < N - 1)
        <5>1. Have(N, r, k + 1, i) = Sent(N, Pred(N, r), k)
          BY <1>3, <1>7, <4>4, HaveIn DEF i
        <5>2. QED
          BY <1>8, <3>6, <4>1, <4>2, <4>4, <5>1
      <4>5. QED
        BY <4>3, <4>4
    <3>7. QED
      BY <3>2, <3>5, <3>6
  <2>2. QED
    BY <1>1, <1>5, <2>1 DEF BuffersRight, Buffered
<1>19. QED
  BY <1>13, <1>14, <1>15, <1>16, <1>17, <1>18 DEF CInv

LEMMA FailureKeeps ==
    ASSUME Rings, CInv, NEW r \in Ranks, errs' = errs \cup {r},
           UNCHANGED <<job, call, round, started, received, buf, wire, early, failed>>
    PROVE  CInv'
<1>1. \A p, l : /\ At(p, l)' = At(p, l) /\ Accepted(p, l)' = Accepted(p, l)
                /\ Handed(p, l)' = Handed(p, l)
  BY JobSame DEF At, Accepted, Handed
<1>2. Flows' /\ Straight' /\ Sourced'
  BY <1>1, FlowsFrame
<1>3. BuffersRight' /\ Leads'
  BY BuffersFrame, LeadsFrame
<1>4. Shapes' /\ InRound'
  BY JobSame DEF CInv, Shapes, InRound
<1>5. GotRight'
  BY WantFrame, JobSame DEF CInv, GotRight
<1>6. QED
  BY <1>2, <1>3, <1>4, <1>5 DEF CInv

(* The buffers when a call begins.                                         *)
LEMMA FreshBuffers ==
    ASSUME Rings, job \in Jobs, NEW r \in Ranks, NEW c \in Nat, NEW l \in Chains, NEW idx \in Ranks
    PROVE  Input(r, c)[idx * M + l] = Sum(c, idx * M + l, Have(N, r, 0, idx))
<1>1. /\ N \in Nat \ {0} /\ Ranks = 0 .. N - 1 /\ Slots = 0 .. N * M - 1 /\ M \in Nat
      /\ Chains = 0 .. M - 1
  BY JobFacts
<1> DEFINE s == idx * M + l
<1>2. s \in Slots
  BY <1>1, SlotIn
<1>3. Have(N, r, 0, idx) = {r}
  BY <1>1, HaveFirst
<1> HIDE DEF s
<1>4. Input(r, c)[s] = One(r, c, s)
  BY <1>2 DEF Input, Rings
<1>5. One(r, c, s) = Sum(c, s, {r})
  <2>1. {<<j, c, s>> : j \in {r}} = {<<r, c, s>>}
    OBVIOUS
  <2>2. QED
    BY <2>1 DEF One, Sum
<1>6. QED
  BY <1>3, <1>4, <1>5 DEF s

LEMMA NumberNext ==
    ASSUME NEW c \in Nat, NEW n \in Nat
    PROVE  Number(n, c + 1, 0) = Number(n, c, n)
<1>1. (c + 1) - 1 = c /\ (c - 1) * n + n = c * n /\ c * n + 0 = c * n
  OBVIOUS
<1>2. Number(n, c + 1, 0) = ((c + 1) - 1) * n + 0 /\ Number(n, c, n) = (c - 1) * n + n
  BY DEF Number
<1>3. QED
  BY <1>1, <1>2

LEMMA CallKeeps ==
    ASSUME Rings, CInv, NEW r \in Ranks, CallAgain(r)
    PROVE  CInv'
<1>1. /\ \A m \in Chains : round[r][m] = Rounds
      /\ call[r] < Calls
      /\ call' = [call EXCEPT ![r] = call[r] + 1]
      /\ round' = [round EXCEPT ![r] = [m \in Chains |-> 0]]
      /\ buf' = [buf EXCEPT ![r] = Input(r, call[r] + 1)]
      /\ job' = job /\ started' = started /\ received' = received /\ wire' = wire
      /\ early' = early /\ failed' = failed /\ errs' = errs
  BY DEF CallAgain, Returned
<1>2. /\ call \in [Ranks -> 1 .. Calls] /\ round \in [Ranks -> [Chains -> 0 .. Rounds]]
      /\ DOMAIN buf = Ranks /\ job \in Jobs /\ Calls \in Nat /\ Rounds \in Nat
  BY JobFacts DEF CInv, Shapes
<1>3. /\ Ranks' = Ranks /\ Chains' = Chains /\ Rounds' = Rounds /\ N' = N /\ Calls' = Calls
      /\ Parcels' = Parcels /\ M' = M /\ Slots' = Slots
  BY <1>1, JobSame
<1>4. /\ call' \in [Ranks -> 1 .. Calls] /\ call'[r] = call[r] + 1
      /\ round' \in [Ranks -> [Chains -> 0 .. Rounds]]
      /\ \A m \in Chains : round'[r][m] = 0
      /\ \A p \in Ranks : p # r => call'[p] = call[p] /\ round'[p] = round[p]
  <2>1. call[r] + 1 \in 1 .. Calls
    BY <1>1, <1>2
  <2>2. [m \in Chains |-> 0] \in [Chains -> 0 .. Rounds]
    BY <1>2
  <2>3. QED
    BY <1>1, <1>2, <2>1, <2>2
<1>5. \A m \in Chains : ~started[r][m] /\ received[r][m] = <<>>
  <2>1. SUFFICES ASSUME NEW m \in Chains PROVE ~started[r][m] /\ received[r][m] = <<>>
    OBVIOUS
  <2>2. ~(round[r][m] < Rounds)
    BY <1>1, <1>2
  <2>3. QED
    BY <2>2 DEF CInv, InRound
<1>6. \A p \in Ranks, l \in Chains : At(p, l)' = At(p, l)
  <2>1. SUFFICES ASSUME NEW p \in Ranks, NEW l \in Chains PROVE At(p, l)' = At(p, l)
    OBVIOUS
  <2>2. CASE p # r
    BY <1>3, <1>4, <2>2 DEF At
  <2>3. CASE p = r
    <3>1. At(r, l)' = Number(Rounds, call[r] + 1, 0) /\ At(r, l) = Number(Rounds, call[r], Rounds)
      BY <1>1, <1>3, <1>4 DEF At
    <3>2. Number(Rounds, call[r] + 1, 0) = Number(Rounds, call[r], Rounds)
      <4> DEFINE c == call[r]
                 n == Rounds
      <4>1. c \in Nat /\ n \in Nat
        BY <1>2
      <4> HIDE DEF c, n
      <4>3. Number(n, c + 1, 0) = Number(n, c, n)
        BY <4>1, NumberNext
      <4>4. QED
        BY <4>3 DEF c, n
    <3>3. QED
      BY <2>3, <3>1, <3>2
  <2>4. QED
    BY <2>2, <2>3
<1>7. \A p \in Ranks, l \in Chains :
         Accepted(p, l)' = Accepted(p, l) /\ Handed(p, l)' = Handed(p, l)
  BY <1>1, <1>6 DEF Accepted, Handed
<1>8. Flows' /\ Straight' /\ Sourced'
  BY <1>1, <1>7, FlowsFrame
<1>9. Leads'
  BY <1>3, <1>6 DEF CInv, Leads
<1>10. Shapes'
  BY <1>1, <1>2, <1>3, <1>4 DEF CInv, Shapes
<1>11. InRound'
  <2>1. ASSUME NEW p \in Ranks, NEW l \in Chains
        PROVE  /\ started'[p][l] => round'[p][l] < Rounds
               /\ ~started'[p][l] => received'[p][l] = <<>>
    <3>1. CASE p = r
      BY <1>1, <1>5, <3>1
    <3>2. CASE p # r
      BY <1>1, <1>4, <3>2 DEF CInv, InRound
    <3>3. QED
      BY <3>1, <3>2
  <2>2. QED
    BY <1>3, <2>1 DEF InRound
<1>12. GotRight'
  <2>1. ASSUME NEW p \in Ranks, NEW l \in Chains, received'[p][l] # <<>>
        PROVE  received'[p][l] = Want(p, l)'.vals
    <3>1. p # r /\ received'[p][l] = received[p][l]
      BY <1>1, <1>5, <2>1
    <3>2. Want(p, l)' = Want(p, l)
      BY <1>3, <1>4, <3>1 DEF Want
    <3>3. QED
      BY <2>1, <3>1, <3>2 DEF CInv, GotRight
  <2>2. QED
    BY <1>3, <2>1 DEF GotRight
<1>13. BuffersRight'
  <2>1. ASSUME NEW p \in Ranks, NEW l \in Chains, NEW idx \in Ranks
        PROVE  buf'[p][idx * M + l] =
                 Sum(call'[p], idx * M + l, Have(N, p, round'[p][l], idx))
    <3>1. CASE p # r
      <4>1. buf'[p] = buf[p]
        BY <1>1, <1>2, <3>1
      <4>2. QED
        BY <1>4, <3>1, <4>1 DEF CInv, BuffersRight, Buffered
    <3>2. CASE p = r
      <4>1. buf'[r] = Input(r, call[r] + 1)
        BY <1>1, <1>2
      <4>2. call[r] + 1 \in Nat
        BY <1>2
      <4>3. Input(r, call[r] + 1)[idx * M + l] =
              Sum(call[r] + 1, idx * M + l, Have(N, r, 0, idx))
        BY <1>2, <4>2, FreshBuffers
      <4>4. QED
        BY <1>4, <3>2, <4>1, <4>3
    <3>3. QED
      BY <3>1, <3>2
  <2>2. QED
    BY <1>3, <2>1 DEF BuffersRight, Buffered
<1>14. QED
  BY <1>8, <1>9, <1>10, <1>11, <1>12, <1>13 DEF CInv

LEMMA InitCInv == Rings /\ CollectiveInit => CInv
<1> SUFFICES ASSUME Rings, CollectiveInit PROVE CInv
  OBVIOUS
<1>1. /\ job \in Jobs
      /\ call = [r \in Ranks |-> 1]
      /\ round = [r \in Ranks |-> [m \in Chains |-> 0]]
      /\ started = [r \in Ranks |-> [m \in Chains |-> FALSE]]
      /\ received = [r \in Ranks |-> [m \in Chains |-> <<>>]]
      /\ buf = [r \in Ranks |-> Input(r, 1)]
      /\ wire = [p \in Ranks \X Ranks |-> <<>>]
      /\ early = [r \in Ranks |-> <<>>]
      /\ failed = {} /\ errs = {}
  <2>1. RejectedAlone = {}
    BY DEF RejectedAlone, Rings
  <2>2. QED
    BY <2>1 DEF CollectiveInit
<1>2. /\ N \in Nat \ {0} /\ Calls \in Nat \ {0} /\ Rounds \in Nat /\ Ranks = 0 .. N - 1
  BY <1>1, JobFacts
<1>3. Shapes
  <2>1. 1 \in 1 .. Calls /\ 0 \in 0 .. Rounds
    BY <1>2
  <2>2. QED
    BY <1>1, <2>1 DEF Shapes
<1>4. InRound /\ GotRight
  BY <1>1 DEF InRound, GotRight
<1>5. BuffersRight
  <2>1. ASSUME NEW r \in Ranks, NEW m \in Chains, NEW idx \in Ranks
        PROVE  buf[r][idx * M + m] = Sum(call[r], idx * M + m, Have(N, r, round[r][m], idx))
    <3>1. Input(r, 1)[idx * M + m] = Sum(1, idx * M + m, Have(N, r, 0, idx))
      BY <1>1, FreshBuffers
    <3>2. QED
      BY <1>1, <3>1
  <2>2. QED
    BY <2>1 DEF BuffersRight, Buffered
<1>6. \A p \in Ranks : Pred(N, p) \in Ranks
  BY <1>1, PredIn
<1>7. ToSet(<<>>) = {} /\ Apart(<<>>)
  BY DEF ToSet, Apart
<1>8. Flows
  <2>1. \A r \in Ranks : early[r] = <<>> /\ Link(r) = <<>>
    BY <1>1, <1>6 DEF Link
  <2>2. QED
    BY <1>7, <2>1 DEF Flows, Flow, Foreign
<1>9. Straight
  BY <1>1 DEF Straight
<1>10. \A r \in Ranks, m \in Chains : At(r, m) = Number(Rounds, 1, 0)
  BY <1>1 DEF At
<1>11. Number(Rounds, 1, 0) = 0
  BY <1>2 DEF Number
<1>12. Sourced
  <2>1. \A r \in Ranks, m \in Chains : Accepted(r, m) = 0 /\ Handed(r, m) = 0
    BY <1>1, <1>10, <1>11 DEF Accepted, Handed
  <2>2. QED
    BY <1>6, <2>1 DEF Sourced
<1>13. Leads
  <2>1. \A r, s \in Ranks : Gap(N, s, r) \in 0 .. N - 1
    BY <1>2, GapUnique
  <2>2. \A r, s \in Ranks : 0 <= 0 + Gap(N, s, r)
    BY <2>1
  <2>3. QED
    BY <1>10, <1>11, <2>2 DEF Leads
<1>14. QED
  BY <1>3, <1>4, <1>5, <1>8, <1>9, <1>12, <1>13 DEF CInv

LEMMA JobStays == [CollectiveNext]_collectiveVars => job' = job
<1> SUFFICES ASSUME [CollectiveNext]_collectiveVars PROVE job' = job
  OBVIOUS
<1>1. ASSUME NEW r, NEW m, StartRound(r, m) \/ StartAndFail(r, m) PROVE job' = job
  BY <1>1 DEF StartRound, StartAndFail, Start
<1>2. ASSUME NEW r, NEW m, Finish(r, m) PROVE job' = job
  BY <1>2 DEF Finish
<1>3. ASSUME NEW r, CallAgain(r) PROVE job' = job
  BY <1>3 DEF CallAgain
<1>4. ASSUME NEW src, NEW dst, Deliver(src, dst) PROVE job' = job
  BY <1>4 DEF Deliver
<1>5. QED
  BY <1>1, <1>2, <1>3, <1>4 DEF CollectiveNext, collectiveVars

LEMMA NextCInv == (Rings => CInv) /\ [CollectiveNext]_collectiveVars => (Rings => CInv)'
<1> SUFFICES ASSUME Rings => CInv, [CollectiveNext]_collectiveVars, Rings' PROVE CInv'
  OBVIOUS
<1>1. job' = job
  BY JobStays
<1>2. Rings /\ CInv
  BY <1>1, JobSame
<1>3. ASSUME NEW r \in Ranks, NEW m \in Chains, StartRound(r, m) \/ StartAndFail(r, m)
      PROVE  CInv'
  <2>1. round[r][m] < Rounds /\ ~started[r][m]
    BY <1>3 DEF StartRound, StartAndFail, MayStart
  <2>2. \E out \in SUBSET Current(r, m).sends, fails \in BOOLEAN : Start(r, m, out, fails)
    BY <1>3 DEF StartRound, StartAndFail
  <2>3. Begins(r, m)
    BY <1>2, <2>1, <2>2, StartIs
  <2>4. QED
    BY <1>2, <2>1, <2>3, BeginKeeps
<1>4. ASSUME NEW r \in Ranks, NEW m \in Chains, Finish(r, m) PROVE CInv'
  <2>1. CASE <<r, m>> \in failed
    <3>1. /\ errs' = errs \cup {r}
          /\ UNCHANGED <<job, call, round, started, received, buf, wire, early, failed>>
      BY <1>4, <2>1 DEF Finish
    <3>2. QED
      BY <1>2, <3>1, FailureKeeps
  <2>2. CASE <<r, m>> \notin failed
    BY <1>2, <1>4, <2>2, FinishIs, ConcludeKeeps
  <2>3. QED
    BY <2>1, <2>2
<1>5. ASSUME NEW r \in Ranks, CallAgain(r) PROVE CInv'
  BY <1>2, <1>5, CallKeeps
<1>6. ASSUME NEW src \in Ranks, NEW dst \in Ranks, Deliver(src, dst) PROVE CInv'
  BY <1>2, <1>6, DeliverIs, ArrivalKeeps
<1>7. CASE UNCHANGED collectiveVars
  <2>1. UNCHANGED <<job, call, round, started, received, buf, wire, early, failed, errs>>
    BY <1>7 DEF collectiveVars
  <2>2. \A p, l : /\ At(p, l)' = At(p, l) /\ Accepted(p, l)' = Accepted(p, l)
                  /\ Handed(p, l)' = Handed(p, l)
    BY <2>1, JobSame DEF At, Accepted, Handed
  <2>3. Flows' /\ Straight' /\ Sourced'
    BY <1>2, <2>1, <2>2, FlowsFrame
  <2>4. BuffersRight' /\ Leads'
    BY <1>2, <2>1, BuffersFrame, LeadsFrame
  <2>5. Shapes' /\ InRound'
    BY <1>2, <2>1, JobSame DEF CInv, Shapes, InRound
  <2>6. GotRight'
    BY <1>2, <2>1, WantFrame, JobSame DEF CInv, GotRight
  <2>7. QED
    BY <2>3, <2>4, <2>5, <2>6 DEF CInv
<1>8. QED
  BY <1>3, <1>4, <1>5, <1>6, <1>7 DEF CollectiveNext

(* What the invariant says of a rank that has returned.                    *)
LEMMA ResultRight == Rings /\ CInv => ResultCorrect
<1> SUFFICES ASSUME Rings, CInv, NEW r \in Ranks, Returned(r), ~Rejected, NEW s \in Slots
             PROVE  buf[r][s] = All(call[r], s)
  BY DEF ResultCorrect, Rings
<1>1. /\ N \in Nat \ {0} /\ M \in Nat /\ Ranks = 0 .. N - 1 /\ Chains = 0 .. M - 1
      /\ Slots = 0 .. N * M - 1 /\ Rounds = 2 * (N - 1)
  BY JobFacts DEF CInv, Shapes
<1>2. PICK idx \in 0 .. N - 1, m \in 0 .. M - 1 : s = idx * M + m
  BY <1>1, SlotParts
<1>3. buf[r][s] = Sum(call[r], s, Have(N, r, round[r][m], idx))
  BY <1>1, <1>2 DEF CInv, BuffersRight, Buffered
<1>4. round[r][m] = 2 * (N - 1)
  BY <1>1, <1>2 DEF Returned
<1>5. Have(N, r, 2 * (N - 1), idx) = Ranks
  BY <1>1, HaveAll
<1>6. QED
  BY <1>3, <1>4, <1>5 DEF Sum, All

LEMMA SumIsValue ==
    ASSUME NEW c \in 1 .. Calls, NEW s \in Slots, NEW S \in SUBSET Ranks
    PROVE  IsValue(Sum(c, s, S))
BY DEF IsValue, Sum, SetToBag, Contributions

LEMMA HaveRanks ==
    ASSUME NEW n \in Nat, NEW r \in 0 .. n - 1, NEW k, NEW idx
    PROVE  Have(n, r, k, idx) \in SUBSET (0 .. n - 1) /\ Sent(n, r, k) \in SUBSET (0 .. n - 1)
BY DEF Have, Sent, From

LEMMA RingTypes == Rings /\ CInv => CollectiveTypeOK
<1> SUFFICES ASSUME Rings, CInv PROVE CollectiveTypeOK
  OBVIOUS
<1>1. /\ N \in Nat \ {0} /\ M \in Nat /\ Ranks = 0 .. N - 1 /\ Chains = 0 .. M - 1
      /\ Slots = 0 .. N * M - 1 /\ job \in Jobs
  BY JobFacts DEF CInv, Shapes
<1>2. ASSUME NEW r \in Ranks, NEW s \in Slots PROVE IsValue(buf[r][s])
  <2>1. PICK idx \in 0 .. N - 1, m \in 0 .. M - 1 : s = idx * M + m
    BY <1>1, SlotParts
  <2>2. buf[r][s] = Sum(call[r], s, Have(N, r, round[r][m], idx))
    BY <1>1, <2>1 DEF CInv, BuffersRight, Buffered
  <2>3. Have(N, r, round[r][m], idx) \in SUBSET Ranks /\ call[r] \in 1 .. Calls
    BY <1>1, HaveRanks DEF CInv, Shapes
  <2>4. QED
    BY <2>2, <2>3, SumIsValue
<1>3. ASSUME NEW r \in Ranks, NEW m \in Chains, NEW i \in 1 .. Len(received[r][m])
      PROVE  IsValue(received[r][m][i])
  <2>1. received[r][m] # <<>>
    BY <1>3
  <2>2. received[r][m] = Want(r, m).vals
    BY <2>1 DEF CInv, GotRight
  <2>3. started[r][m] /\ round[r][m] < Rounds
    BY <2>1 DEF CInv, InRound
  <2> DEFINE o == Out(N, Pred(N, r), round[r][m])
             S == Sent(N, Pred(N, r), round[r][m])
  <2>4. received[r][m] = <<Sum(call[r], o * M + m, S)>>
    BY <2>2 DEF Want, Parcel
  <2>5. Pred(N, r) \in Ranks /\ round[r][m] \in 0 .. Rounds - 1 /\ call[r] \in 1 .. Calls
    BY <2>3, Moving
  <2>6. o * M + m \in Slots
    <3>1. o \in 0 .. N - 1
      BY <1>1, <2>5, OutSlot
    <3> HIDE DEF o
    <3>2. QED
      BY <1>1, <3>1, SlotIn
  <2>7. S \in SUBSET Ranks
    BY <1>1, <2>5, HaveRanks
  <2> HIDE DEF o, S
  <2>8. IsValue(Sum(call[r], o * M + m, S))
    BY <2>5, <2>6, <2>7, SumIsValue
  <2>9. i = 1
    BY <2>4
  <2>10. QED
    BY <2>4, <2>8, <2>9
<1>4. QED
  BY <1>2, <1>3 DEF CollectiveTypeOK, CInv, Shapes

LEMMA AlwaysCInv == CollectiveSpec => [](Rings => CInv)
<1>1. CollectiveInit => (Rings => CInv)
  BY InitCInv
<1>2. QED
  BY <1>1, NextCInv, PTL DEF CollectiveSpec

(* In the ring allreduces no contribution is ever reduced into a value     *)
(* twice, and no chain runs past its rounds.                               *)
THEOREM RingTyped == CollectiveSpec => [](Rings => CollectiveTypeOK)
<1>1. (Rings => CInv) => (Rings => CollectiveTypeOK)
  BY RingTypes
<1>2. QED
  BY <1>1, AlwaysCInv, PTL

(* allreduce by ring and by pipelined ring, asked for or chosen by the     *)
(* adaptive communicator or in place of recursive doubling: on any number  *)
(* of ranks and of micro-chunks, for any window, however often and however *)
(* far apart the ranks call it, with eager and rendezvous sends, and after *)
(* a failed send, a call that returns Ok has reduced every rank's input of *)
(* that call, once each, into every chunk.                                 *)
THEOREM RingReducesAll == CollectiveSpec => [](Rings => ResultCorrect)
<1>1. (Rings => CInv) => (Rings => ResultCorrect)
  BY ResultRight
<1>2. QED
  BY <1>1, AlwaysCInv, PTL

-----------------------------------------------------------------------------
(* Scatter, called once.                                                   *)
Scatters == Used = "scatter" /\ Calls = 1

(* With a root every rank accepts.                                         *)
Rooted == Scatters /\ root \in Ranks

(* The only message that is ever sent to rank q.                           *)
Share(q) == <<One(root, 1, q)>>
Present(q) ==
    [key |-> [src |-> root, step |-> root, phase |-> 2, micro_chunk |-> 0], vals |-> Share(q)]

SInv ==
    /\ job \in Jobs
    /\ call = [r \in Ranks |-> 1]
    /\ round \in [Ranks -> [{0} -> Nat]]
    /\ DOMAIN received = Ranks /\ \A q \in Ranks : DOMAIN received[q] = {0}
    /\ DOMAIN buf = Ranks
    /\ DOMAIN wire = Ranks \X Ranks /\ DOMAIN early = Ranks
    /\ \A s, q \in Ranks : wire[<<s, q>>] \in Seq({Present(q)})
    /\ \A q \in Ranks : /\ early[q] \in Seq({Present(q)})
                        /\ received[q][0] \in {<<>>, Share(q)}
    /\ \A q \in Ranks : buf[root][q] = One(root, 1, q)
    /\ \A q \in Ranks : q = root \/ round[q][0] > 0 => buf[q][RecvSlot] = One(root, 1, q)

LEMMA ScatterFacts ==
    ASSUME Rooted, job \in Jobs
    PROVE  /\ N \in Nat \ {0} /\ Ranks = 0 .. N - 1 /\ root \in Ranks
           /\ M = 1 /\ Chains = {0} /\ RecvSlot \notin Ranks /\ Ranks \subseteq Slots
           /\ RecvSlot \in Slots
           /\ \A r \in Ranks : r # root => Rounds = 1
           /\ \A r, m, k : Round(r, m, k) = ScatterRound(r, k)
<1>0. Used = "scatter" /\ root \in Ranks
  BY DEF Rooted, Scatters
<1>1. job.ranks \in Nat \ {0}
  BY CollectiveAssumption DEF CollectiveAssumption
<1>2. N \in Nat \ {0} /\ Ranks = 0 .. N - 1 /\ root \in Ranks
  BY <1>0, <1>1 DEF N, Ranks
<1>3. M = 1 /\ Chains = {0}
  BY <1>0 DEF M, Chains
<1>4. RecvSlot \notin Ranks /\ Slots = Ranks \cup {RecvSlot}
  <2>1. Slots = Ranks \cup {RecvSlot}
    BY <1>0 DEF Slots
  <2>2. QED
    BY <1>2, <2>1 DEF RecvSlot
<1>5. ASSUME NEW r \in Ranks, r # root PROVE Rounds = 1
  <2>1. N # 1 /\ ~Rejected
    BY <1>0, <1>2, <1>5 DEF Rejected
  <2>2. QED
    BY <1>0, <2>1 DEF Rounds
<1>6. \A r, m, k : Round(r, m, k) = ScatterRound(r, k)
  BY <1>0 DEF Round
<1>7. QED
  BY <1>2, <1>3, <1>4, <1>5, <1>6

LEMMA ScatterSame ==
    ASSUME job' = job
    PROVE  /\ Ranks' = Ranks /\ Chains' = Chains /\ root' = root /\ Rooted' = Rooted
           /\ RecvSlot' = RecvSlot /\ Slots' = Slots /\ Calls' = Calls
           /\ \A q : Share(q)' = Share(q) /\ Present(q)' = Present(q)
<1>1. root' = root
  BY DEF root
<1>2. /\ Ranks' = Ranks /\ Chains' = Chains /\ Used' = Used /\ N' = N /\ Slots' = Slots
      /\ Calls' = Calls
  BY JobSame
<1>3. QED
  BY <1>1, <1>2 DEF Rooted, Scatters, RecvSlot, Share, Present

LEMMA ShareIs == ASSUME NEW q PROVE Share(q) # <<>> /\ Len(Share(q)) = 1 /\ Share(q)[1] = One(root, 1, q)
BY DEF Share

LEMMA OnlyPresents ==
    ASSUME NEW x, NEW s \in Seq({x})
    PROVE  /\ \A i \in DOMAIN s : s[i] = x
           /\ Append(s, x) \in Seq({x})
           /\ \A i \in DOMAIN s : RemoveAt(s, i) \in Seq({x})
           /\ s # <<>> => Head(s) = x /\ Tail(s) \in Seq({x})
<1>1. \A i \in DOMAIN s : SubSeq(s, 1, i - 1) \in Seq({x}) /\ SubSeq(s, i + 1, Len(s)) \in Seq({x})
  OBVIOUS
<1>2. \A i \in DOMAIN s : RemoveAt(s, i) \in Seq({x})
  BY <1>1 DEF RemoveAt
<1>3. \A i \in DOMAIN s : s[i] = x
  OBVIOUS
<1>4. Append(s, x) \in Seq({x})
  OBVIOUS
<1>5. s # <<>> => Head(s) = x /\ Tail(s) \in Seq({x})
  OBVIOUS
<1>6. QED
  BY <1>2, <1>3, <1>4, <1>5

LEMMA ScatterFrame ==
    ASSUME SInv, job' = job, call' = call, round' \in [Ranks -> [{0} -> Nat]],
           DOMAIN received' = Ranks, \A q \in Ranks : DOMAIN received'[q] = {0},
           DOMAIN buf' = Ranks, DOMAIN wire' = Ranks \X Ranks, DOMAIN early' = Ranks,
           \A s, q \in Ranks : wire'[<<s, q>>] \in Seq({Present(q)}),
           \A q \in Ranks : /\ early'[q] \in Seq({Present(q)})
                            /\ received'[q][0] \in {<<>>, Share(q)},
           \A q \in Ranks : buf'[root][q] = One(root, 1, q),
           \A q \in Ranks : q = root \/ round'[q][0] > 0 => buf'[q][RecvSlot] = One(root, 1, q)
    PROVE  SInv'
<1>1. /\ Ranks' = Ranks /\ root' = root /\ RecvSlot' = RecvSlot
      /\ \A q : Share(q)' = Share(q) /\ Present(q)' = Present(q)
  BY ScatterSame
<1>2. (\A s, q \in Ranks : wire[<<s, q>>] \in Seq({Present(q)}))'
  BY <1>1
<1>3. (\A q \in Ranks : early[q] \in Seq({Present(q)}) /\ received[q][0] \in {<<>>, Share(q)})'
  BY <1>1
<1>4. (\A q \in Ranks : buf[root][q] = One(root, 1, q))'
  BY <1>1 DEF One
<1>5. (\A q \in Ranks : q = root \/ round[q][0] > 0 => buf[q][RecvSlot] = One(root, 1, q))'
  BY <1>1 DEF One
<1>6. /\ job' \in Jobs /\ call' = [r \in Ranks' |-> 1] /\ round' \in [Ranks' -> [{0} -> Nat]]
      /\ DOMAIN received' = Ranks' /\ \A q \in Ranks' : DOMAIN received'[q] = {0}
      /\ DOMAIN buf' = Ranks' /\ DOMAIN wire' = Ranks' \X Ranks' /\ DOMAIN early' = Ranks'
  BY <1>1 DEF SInv
<1>7. QED
  BY <1>2, <1>3, <1>4, <1>5, <1>6 DEF SInv

(* The messages of a round: rank q is sent its share, by root only.        *)
LEMMA ScatterSends ==
    ASSUME Rooted, SInv, NEW r \in Ranks, NEW out \in SUBSET Current(r, 0).sends,
           NEW fails, Start(r, 0, out, fails), NEW s \in Ranks, NEW q \in Ranks
    PROVE  wire'[<<s, q>>] \in Seq({Present(q)})
<1> DEFINE p == Current(r, 0)
           Message(t) == [key |-> Key(r, 0, p),
                          vals |-> [i \in DOMAIN t.slots |-> buf[r][t.slots[i]]]]
           new == {t \in out : <<s, q>> = <<r, t.to>>}
<1>1. wire'[<<s, q>>] = IF new = {} THEN wire[<<s, q>>]
                        ELSE Append(wire[<<s, q>>], Message(CHOOSE t \in new : TRUE))
  BY DEF Start
<1>2. wire[<<s, q>>] \in Seq({Present(q)}) /\ buf[root][q] = One(root, 1, q)
  BY DEF SInv
<1>3. p = ScatterRound(r, round[r][0])
  BY ScatterFacts DEF SInv, Current
<1>4. ASSUME new # {} PROVE Message(CHOOSE t \in new : TRUE) = Present(q)
  <2>1. PICK t : t = CHOOSE u \in new : TRUE
    OBVIOUS
  <2>2. t \in out /\ <<s, q>> = <<r, t.to>>
    BY <1>4, <2>1
  <2>3. t \in ScatterRound(r, round[r][0]).sends
    BY <1>3, <2>2
  <2>4. r = root /\ t = [to |-> q, slots |-> <<q>>]
    BY <2>2, <2>3 DEF ScatterRound
  <2>5. Key(r, 0, p) = [src |-> root, step |-> root, phase |-> 2, micro_chunk |-> 0]
    BY <1>3, <2>4 DEF Key, ScatterRound
  <2>6. [i \in DOMAIN t.slots |-> buf[r][t.slots[i]]] = <<buf[root][q]>>
    <3>1. t.slots = <<q>>
      BY <2>4
    <3>2. QED
      BY <2>4, <3>1, OneSlot
  <2>7. Message(t) = [key |-> Key(r, 0, p), vals |-> <<buf[root][q]>>]
    BY <2>6
  <2>8. Message(t) = Present(q)
    <3> HIDE DEF p
    <3>1. QED
      BY <1>2, <2>5, <2>7 DEF Present, Share
  <2>9. QED
    BY <2>1, <2>8
<1>5. QED
  <2> HIDE DEF new, Message
  <2>1. QED
    BY <1>1, <1>2, <1>4, OnlyPresents

LEMMA ScatterStarts ==
    ASSUME Rooted, SInv, NEW r \in Ranks, NEW out \in SUBSET Current(r, 0).sends,
           NEW fails, Start(r, 0, out, fails)
    PROVE  SInv'
<1> DEFINE waits == {i \in DOMAIN early[r] :
                       \E f \in Current(r, 0).recv :
                          early[r][i].key = Key(f.from, 0, Current(r, 0))}
           first == CHOOSE i \in waits : \A j \in waits : i <= j
<1>1. /\ DOMAIN wire' = Ranks \X Ranks
      /\ IF waits = {} THEN UNCHANGED <<received, early>>
         ELSE /\ received' = [received EXCEPT ![r][0] = early[r][first].vals]
              /\ early' = [early EXCEPT ![r] = RemoveAt(@, first)]
      /\ UNCHANGED <<job, call, round, buf, errs>>
  BY DEF Start
<1>2. \A s, q \in Ranks : wire'[<<s, q>>] \in Seq({Present(q)})
  BY ScatterSends
<1>3. early[r] \in Seq({Present(r)}) /\ Present(r).vals = Share(r)
  BY DEF SInv, Present
<1>4. waits # {} => /\ early[r][first].vals = Share(r)
                    /\ RemoveAt(early[r], first) \in Seq({Present(r)})
  <2> SUFFICES ASSUME waits # {}
               PROVE  /\ early[r][first].vals = Share(r)
                      /\ RemoveAt(early[r], first) \in Seq({Present(r)})
    OBVIOUS
  <2>1. waits \in SUBSET Nat /\ waits \subseteq DOMAIN early[r]
    BY <1>3
  <2> HIDE DEF waits
  <2>2. first \in waits
    <3>1. \E i \in waits : \A j \in waits : i <= j
      BY <2>1, LeastExists
    <3>2. QED
      BY <3>1
  <2> HIDE DEF first
  <2>3. first \in DOMAIN early[r]
    BY <2>1, <2>2
  <2>4. early[r][first] = Present(r)
    BY <1>3, <2>3, OnlyPresents
  <2>5. RemoveAt(early[r], first) \in Seq({Present(r)})
    BY <1>3, <2>3, OnlyPresents
  <2>6. QED
    BY <1>3, <2>4, <2>5
<1> HIDE DEF waits, first
<1>5. /\ DOMAIN received' = Ranks /\ \A q \in Ranks : DOMAIN received'[q] = {0}
      /\ DOMAIN early' = Ranks
      /\ \A q \in Ranks : /\ early'[q] \in Seq({Present(q)})
                          /\ received'[q][0] \in {<<>>, Share(q)}
  <2>1. CASE waits = {}
    BY <1>1, <2>1 DEF SInv
  <2>2. CASE waits # {}
    <3>1. /\ received' = [received EXCEPT ![r][0] = Share(r)]
          /\ early' = [early EXCEPT ![r] = RemoveAt(early[r], first)]
      BY <1>1, <1>4, <2>2 DEF SInv
    <3>2. QED
      BY <1>4, <2>2, <3>1 DEF SInv
  <2>3. QED
    BY <2>1, <2>2
<1>6. QED
  BY <1>1, <1>2, <1>5, ScatterFrame DEF SInv

LEMMA ScatterDelivers ==
    ASSUME Rooted, SInv, NEW src \in Ranks, NEW dst \in Ranks, Deliver(src, dst)
    PROVE  SInv'
<1> DEFINE x == Head(wire[<<src, dst>>])
           at == {m \in Chains : Posted(dst, m, x.key)}
<1>1. /\ wire[<<src, dst>>] # <<>>
      /\ wire' = [wire EXCEPT ![<<src, dst>>] = Tail(@)]
      /\ IF at # {}
         THEN /\ received' = [received EXCEPT ![dst][CHOOSE m \in at : TRUE] = x.vals]
              /\ UNCHANGED early
         ELSE early' = [early EXCEPT ![dst] = EarlyAfter(@, x)] /\ UNCHANGED received
      /\ UNCHANGED <<job, call, round, buf>>
  BY DEF Deliver
<1>2. /\ wire[<<src, dst>>] \in Seq({Present(dst)}) /\ early[dst] \in Seq({Present(dst)})
      /\ Present(dst).vals = Share(dst)
  BY DEF SInv, Present
<1>3. x = Present(dst) /\ Tail(wire[<<src, dst>>]) \in Seq({Present(dst)})
  BY <1>1, <1>2, OnlyPresents
<1>4. at # {} => (CHOOSE m \in at : TRUE) = 0
  <2>1. at \subseteq {0}
    BY ScatterFacts DEF SInv
  <2> HIDE DEF at
  <2>2. QED
    BY <2>1
<1>5. EarlyAfter(early[dst], x) \in Seq({Present(dst)})
  <2> DEFINE e == early[dst]
             twin == {i \in DOMAIN e : e[i].key = x.key}
  <2>1. EarlyAfter(e, x) = IF Routed /\ twin # {} THEN RemoveAt(e, CHOOSE i \in twin : TRUE)
                           ELSE Append(e, x)
    BY DEF EarlyAfter
  <2>2. twin # {} => (CHOOSE i \in twin : TRUE) \in DOMAIN e
    OBVIOUS
  <2> HIDE DEF twin, x
  <2>3. Append(e, x) \in Seq({Present(dst)})
    BY <1>2, <1>3, OnlyPresents
  <2>4. ASSUME NEW i \in DOMAIN e PROVE RemoveAt(e, i) \in Seq({Present(dst)})
    BY <1>2, OnlyPresents
  <2>5. QED
    BY <2>1, <2>2, <2>3, <2>4
<1> HIDE DEF x, at
<1>6. /\ DOMAIN wire' = Ranks \X Ranks
      /\ \A s, q \in Ranks : wire'[<<s, q>>] \in Seq({Present(q)})
  <2>1. wire' = [wire EXCEPT ![<<src, dst>>] = Tail(wire[<<src, dst>>])]
    BY <1>1
  <2>2. DOMAIN wire' = Ranks \X Ranks
    BY <2>1 DEF SInv
  <2>3. ASSUME NEW s \in Ranks, NEW q \in Ranks PROVE wire'[<<s, q>>] \in Seq({Present(q)})
    <3>1. CASE s = src /\ q = dst
      BY <1>3, <2>1, <3>1 DEF SInv
    <3>2. CASE ~(s = src /\ q = dst)
      <4>1. wire'[<<s, q>>] = wire[<<s, q>>]
        BY <2>1, <3>2 DEF SInv
      <4>2. QED
        BY <4>1 DEF SInv
    <3>3. QED
      BY <3>1, <3>2
  <2>4. QED
    BY <2>2, <2>3
<1>7. /\ DOMAIN received' = Ranks /\ \A q \in Ranks : DOMAIN received'[q] = {0}
      /\ DOMAIN early' = Ranks
      /\ \A q \in Ranks : /\ early'[q] \in Seq({Present(q)})
                          /\ received'[q][0] \in {<<>>, Share(q)}
  <2>1. CASE at # {}
    <3>1. received' = [received EXCEPT ![dst][0] = Share(dst)] /\ early' = early
      BY <1>1, <1>2, <1>3, <1>4, <2>1
    <3>2. QED
      BY <3>1 DEF SInv
  <2>2. CASE at = {}
    <3>1. early' = [early EXCEPT ![dst] = EarlyAfter(early[dst], x)] /\ received' = received
      BY <1>1, <2>2 DEF SInv
    <3>2. QED
      BY <1>5, <3>1 DEF SInv
  <2>3. QED
    BY <2>1, <2>2
<1>8. QED
  BY <1>1, <1>6, <1>7, ScatterFrame DEF SInv

LEMMA ScatterFinishes ==
    ASSUME Rooted, SInv, NEW r \in Ranks, Finish(r, 0)
    PROVE  SInv'
<1> DEFINE p == Current(r, 0)
           b == Stored(r, 0, p)
<1>1. CASE <<r, 0>> \in failed
  <2>1. UNCHANGED <<job, call, round, received, buf, wire, early>>
    BY <1>1 DEF Finish
  <2>2. QED
    BY <2>1, ScatterFrame DEF SInv
<1>2. CASE <<r, 0>> \notin failed
  <2>1. /\ p.recv = {} \/ received[r][0] # <<>>
        /\ buf' = [buf EXCEPT ![r] = b]
        /\ received' = [received EXCEPT ![r][0] = <<>>]
        /\ round' = [round EXCEPT ![r][0] = @ + 1]
        /\ UNCHANGED <<job, call, wire, early>>
    BY <1>2 DEF Finish, Rooted, Scatters
  <2>2. p = ScatterRound(r, round[r][0])
    BY ScatterFacts DEF SInv, Current
  <2>3. /\ RecvSlot \in Slots /\ Ranks \subseteq Slots /\ root \in Ranks
    BY ScatterFacts DEF SInv
  <2>4. r = root => \A s \in Slots : b[s] = buf[root][s]
    <3> SUFFICES ASSUME r = root, NEW s \in Slots PROVE b[s] = buf[root][s]
      OBVIOUS
    <3>1. p.recv = {}
      BY <2>2 DEF ScatterRound
    <3>2. {i \in 1 .. Len(received[r][0]) : \E f \in p.recv : f.slots[i] = s} = {}
      BY <3>1
    <3> HIDE DEF p
    <3>3. QED
      BY <3>2 DEF Stored
  <2>5. r # root => b[RecvSlot] = One(root, 1, r)
    <3> SUFFICES ASSUME r # root PROVE b[RecvSlot] = One(root, 1, r)
      OBVIOUS
    <3>1. p.recv = {[from |-> root, slots |-> <<RecvSlot>>]} /\ p.reduce = FALSE
      BY <2>2 DEF ScatterRound
    <3>2. received[r][0] = Share(r)
      BY <2>1, <3>1 DEF SInv
    <3>3. {i \in 1 .. Len(received[r][0]) : \E f \in p.recv : f.slots[i] = RecvSlot} = {1}
      <4>1. Len(received[r][0]) = 1
        BY <3>2, ShareIs
      <4>2. <<RecvSlot>>[1] = RecvSlot
        OBVIOUS
      <4> HIDE DEF p
      <4>3. QED
        BY <3>1, <4>1, <4>2
    <3>4. received[r][0][CHOOSE i \in {1} : TRUE] = One(root, 1, r)
      <4>1. (CHOOSE i \in {1} : TRUE) = 1
        OBVIOUS
      <4>2. QED
        BY <3>2, <4>1, ShareIs
    <3> HIDE DEF p
    <3>5. QED
      BY <2>3, <3>1, <3>3, <3>4 DEF Stored
  <2> HIDE DEF b, p
  <2>6. \A q \in Ranks : buf'[root][q] = One(root, 1, q)
    BY <2>1, <2>3, <2>4 DEF SInv
  <2>7. ASSUME NEW q \in Ranks, q = root \/ round'[q][0] > 0
        PROVE  buf'[q][RecvSlot] = One(root, 1, q)
    <3>1. CASE q = r
      <4>1. buf'[q] = b
        BY <2>1, <3>1 DEF SInv
      <4>2. QED
        BY <2>3, <2>4, <2>5, <3>1, <4>1 DEF SInv
    <3>2. CASE q # r
      <4>1. buf'[q] = buf[q] /\ round'[q][0] = round[q][0]
        BY <2>1, <3>2 DEF SInv
      <4>2. QED
        BY <2>7, <4>1 DEF SInv
    <3>3. QED
      BY <3>1, <3>2
  <2>8. /\ DOMAIN received' = Ranks /\ \A q \in Ranks : DOMAIN received'[q] = {0}
        /\ \A q \in Ranks : received'[q][0] \in {<<>>, Share(q)}
    BY <2>1 DEF SInv
  <2>9. round' \in [Ranks -> [{0} -> Nat]] /\ DOMAIN buf' = Ranks
    BY <2>1 DEF SInv
  <2>10. QED
    BY <2>1, <2>6, <2>7, <2>8, <2>9, ScatterFrame DEF SInv
<1>3. QED
  BY <1>1, <1>2

LEMMA InitSInv == Rooted /\ CollectiveInit => SInv
<1> SUFFICES ASSUME Rooted, CollectiveInit PROVE SInv
  OBVIOUS
<1>1. /\ job \in Jobs /\ root \in Ranks /\ Ranks \subseteq Slots /\ RecvSlot \in Slots
      /\ RecvSlot \notin Ranks /\ Chains = {0}
  BY ScatterFacts DEF CollectiveInit
<1>2. buf[root] = Input(root, 1)
  BY <1>1 DEF CollectiveInit
<1>3. \A s \in Slots : buf[root][s] = One(root, 1, IF s = RecvSlot THEN root ELSE s)
  BY <1>2 DEF Input, Rooted, Scatters
<1>4. /\ \A q \in Ranks : buf[root][q] = One(root, 1, q)
      /\ buf[root][RecvSlot] = One(root, 1, root)
  BY <1>1, <1>3
<1>5. \A q \in Ranks : round[q][0] = 0 /\ received[q][0] = <<>> /\ early[q] = <<>>
  BY <1>1 DEF CollectiveInit
<1>6. \A s, q \in Ranks : wire[<<s, q>>] = <<>>
  BY DEF CollectiveInit
<1>7. /\ call = [r \in Ranks |-> 1] /\ DOMAIN buf = Ranks
      /\ DOMAIN wire = Ranks \X Ranks /\ DOMAIN early = Ranks
      /\ round \in [Ranks -> [{0} -> Nat]]
      /\ DOMAIN received = Ranks /\ \A q \in Ranks : DOMAIN received[q] = {0}
  BY <1>1 DEF CollectiveInit
<1>8. \A q \in Ranks : <<>> \in Seq({Present(q)})
  OBVIOUS
<1>9. \A q \in Ranks : q = root \/ round[q][0] > 0 => buf[q][RecvSlot] = One(root, 1, q)
  BY <1>4, <1>5
<1>10. QED
  BY <1>1, <1>4, <1>5, <1>6, <1>7, <1>8, <1>9 DEF SInv

LEMMA NextSInv == (Rooted => SInv) /\ [CollectiveNext]_collectiveVars => (Rooted => SInv)'
<1> SUFFICES ASSUME Rooted => SInv, [CollectiveNext]_collectiveVars, Rooted' PROVE SInv'
  OBVIOUS
<1>1. job' = job
  BY JobStays
<1>2. Rooted /\ SInv
  BY <1>1, ScatterSame
<1>3. Chains = {0}
  BY <1>2, ScatterFacts DEF SInv
<1>4. ASSUME NEW r \in Ranks, NEW m \in Chains, StartRound(r, m) \/ StartAndFail(r, m)
      PROVE  SInv'
  <2>1. \E out \in SUBSET Current(r, 0).sends, fails \in BOOLEAN : Start(r, 0, out, fails)
    BY <1>3, <1>4 DEF StartRound, StartAndFail
  <2>2. QED
    BY <1>2, <2>1, ScatterStarts
<1>5. ASSUME NEW r \in Ranks, NEW m \in Chains, Finish(r, m) PROVE SInv'
  BY <1>2, <1>3, <1>5, ScatterFinishes
<1>6. ASSUME NEW r \in Ranks, CallAgain(r) PROVE FALSE
  BY <1>2, <1>6 DEF CallAgain, SInv, Rooted, Scatters
<1>7. ASSUME NEW src \in Ranks, NEW dst \in Ranks, Deliver(src, dst) PROVE SInv'
  BY <1>2, <1>7, ScatterDelivers
<1>8. CASE UNCHANGED collectiveVars
  BY <1>2, <1>8, ScatterFrame DEF SInv, collectiveVars
<1>9. QED
  BY <1>4, <1>5, <1>6, <1>7, <1>8 DEF CollectiveNext

LEMMA ScatterRight == Rooted /\ SInv => ResultCorrect
<1> SUFFICES ASSUME Rooted, SInv, NEW r \in Ranks, Returned(r)
             PROVE  call[r] = 1 /\ buf[r][RecvSlot] = One(root, 1, r)
  BY DEF ResultCorrect, Rooted, Scatters
<1>1. r # root => round[r][0] > 0
  BY ScatterFacts DEF SInv, Returned
<1>2. QED
  BY <1>1 DEF SInv

(* scatter, called once: on any number of ranks and from any root, however *)
(* early its message is at a rank, a rank whose call returns Ok has its    *)
(* own chunk of the root's data.  (A second call in a row may lose it:     *)
(* Collective_ahead.)                                                      *)
THEOREM ScatterGivesShares == CollectiveSpec => [](Scatters => ResultCorrect)
<1>1. CollectiveInit => (Rooted => SInv)
  BY InitSInv
<1>2. (Rooted => SInv) => (Scatters => ResultCorrect)
  <2>1. Scatters /\ root \notin Ranks => Rejected
    BY DEF Scatters, Rejected
  <2>2. Rejected => ResultCorrect
    BY DEF ResultCorrect
  <2>3. QED
    BY <2>1, <2>2, ScatterRight DEF Rooted
<1>3. QED
  BY <1>1, <1>2, NextSInv, PTL DEF CollectiveSpec

=============================================================================
