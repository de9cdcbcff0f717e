-------------------------- MODULE UcxWorkerProofs ---------------------------
(***************************************************************************)
(* For any number of workers, calls and streams: used as pluvio_collective *)
(* uses them, the reactor's counter is the number of workers that are not  *)
(* Inactive, and the reactor is polled while UCX holds a call or a         *)
(* message, and no longer once the streams and listeners are gone.         *)
(***************************************************************************)
EXTENDS UcxWorker, FiniteSetTheorems, TLAPS

(* The types, with the counter in its word.                                *)
Shape ==
    /\ state \in [Workers -> {"Active", "WaitConnect", "Inactive"}]
    /\ listener_ids \in [Workers -> SUBSET Ids]
    /\ count \in 0 .. Word - 1
    /\ handles \in [Workers -> [Ids -> 0 .. MaxHandles]]
    /\ on \in [Ops -> Workers]
    /\ kind \in [Ops -> {"op", "send", "wait", "bare"}]
    /\ phase \in [Ops -> {"idle", "flight", "complete", "buffered"}]
    /\ strayed \in BOOLEAN

Counting == {w \in Workers : state[w] # "Inactive"}

(* A worker has one stream or listener at most, and its id is registered   *)
(* only while it is held; a worker with a call in progress has its id      *)
(* registered and is not Inactive; and a worker without a registered id is *)
(* Inactive.                                                               *)
Intended ==
    /\ \A w \in Workers, i, j \in Ids : handles[w][i] > 0 /\ handles[w][j] > 0 => i = j
    /\ \A w \in Workers : \A i \in listener_ids[w] : handles[w][i] > 0
    /\ \A o \in Ops : phase[o] # "idle" =>
           listener_ids[on[o]] # {} /\ state[on[o]] # "Inactive"
    /\ \A w \in Workers : state[w] # "Inactive" => listener_ids[w] # {}

IInv == Shape /\ (~strayed => Intended /\ count = Cardinality(Counting))

-----------------------------------------------------------------------------
(* The wrapping additions of the counter, where they do not wrap and where *)
(* they may.                                                               *)
LEMMA CountUp ==
    ASSUME NEW c \in Nat, NEW m \in Nat, c + 1 < m
    PROVE  (c + 1) % m = c + 1
  BY SMT

LEMMA CountDown ==
    ASSUME NEW c \in Nat \ {0}, NEW m \in Nat, c < m
    PROVE  (c + m - 1) % m = c - 1
  <1>1. c + m - 1 = (c - 1) + m /\ c - 1 \in 0 .. m - 1
    OBVIOUS
  <1> QED
    BY <1>1, SMT

LEMMA InWord ==
    ASSUME NEW c \in 0 .. Word - 1
    PROVE  (c + 1) % Word \in 0 .. Word - 1 /\ (c + Word - 1) % Word \in 0 .. Word - 1
  <1>1. Word \in Nat \ {0}
    BY UcxAssumption
  <1>2. c + 1 \in Nat /\ c + Word - 1 \in Nat
    BY <1>1
  <1> QED
    BY <1>1, <1>2, SMT

(* How many workers are not Inactive.                                      *)
LEMMA CountingSize ==
    /\ IsFiniteSet(Counting)
    /\ Cardinality(Counting) \in 0 .. Cardinality(Workers)
    /\ Cardinality(Workers) \in Nat /\ Word \in Nat /\ Cardinality(Workers) < Word
  <1>1. Counting \subseteq Workers
    BY DEF Counting
  <1>2. IsFiniteSet(Workers) /\ Word \in Nat /\ Word > Cardinality(Workers)
    BY UcxAssumption
  <1>3. IsFiniteSet(Counting) /\ Cardinality(Counting) <= Cardinality(Workers)
    BY <1>1, <1>2, FS_Subset
  <1>4. Cardinality(Counting) \in Nat /\ Cardinality(Workers) \in Nat
    BY <1>2, <1>3, FS_CardinalityType
  <1> QED
    BY <1>2, <1>3, <1>4

(* activate and wait_connect count the worker once.                        *)
LEMMA CountedUp ==
    ASSUME Shape, NEW w \in Workers, NEW s \in {"Active", "WaitConnect"},
           state' = [state EXCEPT ![w] = s], count' = Counted(w)
    PROVE  /\ state' \in [Workers -> {"Active", "WaitConnect", "Inactive"}]
           /\ count' \in 0 .. Word - 1
           /\ count = Cardinality(Counting) => count' = Cardinality(Counting')
  <1>1. /\ state' \in [Workers -> {"Active", "WaitConnect", "Inactive"}]
        /\ \A v \in Workers : state'[v] = IF v = w THEN s ELSE state[v]
    BY DEF Shape
  <1>2. count' \in 0 .. Word - 1
    BY InWord DEF Shape, Counted
  <1>3. Counting' = Counting \cup {w}
    BY <1>1 DEF Counting
  <1>4. ASSUME count = Cardinality(Counting)
        PROVE  count' = Cardinality(Counting')
    <2>1. CASE w \in Counting
      <3>1. Counting' = Counting /\ count' = count
        BY <1>3, <2>1 DEF Counting, Counted
      <3> QED
        BY <1>4, <3>1
    <2>2. CASE w \notin Counting
      <3>1. count' = (count + 1) % Word
        BY <2>2 DEF Counting, Counted
      <3>2. Cardinality(Counting') = Cardinality(Counting) + 1
        BY <1>3, <2>2, CountingSize, FS_AddElement
      <3>3. Counting' \subseteq Workers
        BY DEF Counting
      <3>4. IsFiniteSet(Workers)
        BY UcxAssumption
      <3>5. Cardinality(Counting') <= Cardinality(Workers)
        BY <3>3, <3>4, FS_Subset
      <3>6. count \in Nat /\ count + 1 < Word
        BY <1>4, <3>2, <3>5, CountingSize
      <3>7. (count + 1) % Word = count + 1
        BY <3>6, CountUp, CountingSize
      <3> QED
        BY <1>4, <3>1, <3>2, <3>7
    <2> QED
      BY <2>1, <2>2
  <1> QED
    BY <1>1, <1>2, <1>4

(* deactivate uncounts it once, or leaves a worker that is counted in      *)
(* WaitConnect.                                                            *)
LEMMA CountedDown ==
    ASSUME Shape, NEW w \in Workers, NEW ids, deactivate(w, ids)
    PROVE  /\ state' \in [Workers -> {"Active", "WaitConnect", "Inactive"}]
           /\ count' \in 0 .. Word - 1
           /\ \A v \in Workers : state'[v] = IF v # w THEN state[v]
                                 ELSE IF ids = {} THEN "Inactive" ELSE "WaitConnect"
           /\ count = Cardinality(Counting) /\ (ids # {} => state[w] # "Inactive") =>
                  count' = Cardinality(Counting')
  <1>1. /\ state' \in [Workers -> {"Active", "WaitConnect", "Inactive"}]
        /\ \A v \in Workers : state'[v] = IF v # w THEN state[v]
                              ELSE IF ids = {} THEN "Inactive" ELSE "WaitConnect"
    BY DEF Shape, deactivate
  <1>2. count' \in 0 .. Word - 1
    BY InWord DEF Shape, deactivate
  <1>3. ASSUME count = Cardinality(Counting), ids # {} => state[w] # "Inactive"
        PROVE  count' = Cardinality(Counting')
    <2>1. CASE ids # {}
      <3>1. Counting' = Counting /\ count' = count
        BY <1>1, <1>3, <2>1 DEF Counting, deactivate
      <3> QED
        BY <1>3, <3>1
    <2>2. CASE ids = {} /\ w \notin Counting
      <3>1. Counting' = Counting /\ count' = count
        BY <1>1, <2>2 DEF Counting, deactivate
      <3> QED
        BY <1>3, <3>1
    <2>3. CASE ids = {} /\ w \in Counting
      <3>1. Counting' = Counting \ {w} /\ count' = (count + Word - 1) % Word
        BY <1>1, <2>3 DEF Counting, deactivate
      <3>2. Cardinality(Counting') = Cardinality(Counting) - 1
        BY <2>3, <3>1, CountingSize, FS_RemoveElement
      <3>3. Cardinality(Counting) # 0
        BY <2>3, CountingSize, FS_EmptySet
      <3>4. count \in Nat \ {0} /\ count < Word /\ Word \in Nat
        BY <1>3, <3>3, CountingSize
      <3>5. (count + Word - 1) % Word = count - 1
        BY <3>4, CountDown
      <3> QED
        BY <1>3, <3>1, <3>2, <3>5
    <2> QED
      BY <2>1, <2>2, <2>3
  <1> QED
    BY <1>1, <1>2, <1>3

-----------------------------------------------------------------------------
LEMMA InitIInv == Init => IInv
  <1> SUFFICES ASSUME Init PROVE IInv
    OBVIOUS
  <1>1. AnyWorker \in Workers
    BY UcxAssumption DEF AnyWorker
  <1>2. Counting = {}
    BY DEF Init, Counting
  <1>3. Cardinality(Counting) = 0
    BY <1>2, FS_EmptySet
  <1>4. 0 \in 0 .. Word - 1 /\ 0 \in 0 .. MaxHandles
    BY UcxAssumption, CountingSize
  <1>5. Shape
    BY <1>1, <1>4 DEF Init, Shape
  <1>6. Intended
    BY DEF Init, Intended
  <1> QED
    BY <1>3, <1>5, <1>6 DEF IInv, Init

(* A call starts: its worker is counted.                                   *)
LEMMA StartKeeps ==
    ASSUME IInv, NEW o \in Ops, NEW w \in Workers, NEW k \in {"op", "send", "wait"},
           NEW s \in {"Active", "WaitConnect"}, Start(o, w, k), Used(listener_ids[w] # {}),
           state' = [state EXCEPT ![w] = s], count' = Counted(w)
    PROVE  IInv'
  <1>1. Shape
    BY DEF IInv
  <1>2. PICK p \in {"flight", "complete"} : phase' = [phase EXCEPT ![o] = p]
    BY DEF Start
  <1>3. /\ strayed' = (strayed \/ listener_ids[w] = {})
        /\ on' = [on EXCEPT ![o] = w] /\ kind' = [kind EXCEPT ![o] = k]
        /\ listener_ids' = listener_ids /\ handles' = handles
    BY DEF Start, Used
  <1>4. Shape'
    BY <1>1, <1>2, <1>3, CountedUp DEF Shape
  <1>5. ASSUME ~strayed'
        PROVE  Intended' /\ count' = Cardinality(Counting')
    <2>1. ~strayed /\ listener_ids[w] # {}
      BY <1>3, <1>5
    <2>2. Intended /\ count = Cardinality(Counting)
      BY <2>1 DEF IInv
    <2>3. count' = Cardinality(Counting')
      BY <1>1, <2>2, CountedUp
    <2>4. \A x \in Ops : phase'[x] # "idle" =>
              listener_ids[on'[x]] # {} /\ state'[on'[x]] # "Inactive"
      <3> SUFFICES ASSUME NEW x \in Ops, phase'[x] # "idle"
                   PROVE  listener_ids[on'[x]] # {} /\ state'[on'[x]] # "Inactive"
        OBVIOUS
      <3>1. \A v \in Workers : state'[v] = IF v = w THEN s ELSE state[v]
        BY <1>1 DEF Shape
      <3>2. CASE x = o
        BY <1>1, <1>3, <2>1, <3>1, <3>2 DEF Shape
      <3>3. CASE x # o
        <4>1. on'[x] = on[x] /\ phase'[x] = phase[x] /\ on[x] \in Workers
          BY <1>1, <1>2, <1>3, <3>3 DEF Shape
        <4> QED
          BY <2>2, <3>1, <4>1 DEF Intended
      <3> QED
        BY <3>2, <3>3
    <2>5. \A v \in Workers : state'[v] # "Inactive" => listener_ids[v] # {}
      BY <1>1, <2>1, <2>2 DEF Intended, Shape
    <2> QED
      BY <1>3, <2>2, <2>3, <2>4, <2>5 DEF Intended
  <1> QED
    BY <1>4, <1>5 DEF IInv

LEMMA StartsKeep ==
    ASSUME IInv, NEW o \in Ops, NEW w \in Workers, NEW i \in Ids,
           StartOp(o, w) \/ StartSend(o, w) \/ StartWait(o, w, i)
    PROVE  IInv'
  BY StartKeeps DEF StartOp, StartSend, StartWait, activate, wait_connect

(* A call that leaves its worker as it is starts on one that is counted.   *)
LEMMA StartBareKeeps ==
    ASSUME IInv, NEW o \in Ops, NEW w \in Workers, StartBare(o, w)
    PROVE  IInv'
  <1>1. Shape
    BY DEF IInv
  <1>2. PICK p \in {"flight", "complete"} : phase' = [phase EXCEPT ![o] = p]
    BY DEF StartBare, Start
  <1>3. /\ strayed' = (strayed \/ ~(listener_ids[w] # {} /\ state[w] # "Inactive"))
        /\ on' = [on EXCEPT ![o] = w] /\ kind' = [kind EXCEPT ![o] = "bare"]
        /\ UNCHANGED <<listener_ids, handles, state, count>>
    BY DEF StartBare, Start, Used
  <1>4. Shape'
    BY <1>1, <1>2, <1>3 DEF Shape
  <1>5. ASSUME ~strayed'
        PROVE  Intended' /\ count' = Cardinality(Counting')
    <2>1. ~strayed /\ listener_ids[w] # {} /\ state[w] # "Inactive"
      BY <1>3, <1>5
    <2>2. Intended /\ count = Cardinality(Counting) /\ Counting' = Counting
      BY <1>3, <2>1 DEF IInv, Counting
    <2>3. ASSUME NEW x \in Ops, phase'[x] # "idle"
          PROVE  listener_ids[on'[x]] # {} /\ state[on'[x]] # "Inactive"
      <3>1. CASE x = o
        BY <1>1, <1>3, <2>1, <3>1 DEF Shape
      <3>2. CASE x # o
        BY <1>1, <1>2, <1>3, <2>2, <2>3, <3>2 DEF Shape, Intended
      <3> QED
        BY <3>1, <3>2
    <2> QED
      BY <1>3, <2>2, <2>3 DEF Intended
  <1> QED
    BY <1>4, <1>5 DEF IInv

(* The calls other than o stay what they are, and o ends or goes on.       *)
CallsShrink(o) ==
    /\ on' \in [Ops -> Workers]
    /\ kind' \in [Ops -> {"op", "send", "wait", "bare"}]
    /\ phase' \in [Ops -> {"idle", "flight", "complete", "buffered"}]
    /\ \A x \in Ops : phase'[x] # "idle" => phase[x] # "idle" /\ on'[x] = on[x]
    /\ phase[o] # "idle"

LEMMA OverShrinks ==
    ASSUME Shape, NEW o \in Ops, phase[o] # "idle", Over(o)
    PROVE  CallsShrink(o)
  <1>1. AnyWorker \in Workers
    BY UcxAssumption DEF AnyWorker
  <1> QED
    BY <1>1 DEF Over, Shape, CallsShrink

(* A step that only changes calls.                                         *)
LEMMA ShrinkKeeps ==
    ASSUME IInv, NEW o \in Ops, CallsShrink(o),
           UNCHANGED <<state, listener_ids, count, handles, strayed>>
    PROVE  IInv'
  <1>1. Shape'
    BY DEF IInv, Shape, CallsShrink
  <1>2. Counting' = Counting
    BY DEF Counting
  <1>3. ~strayed => Intended'
    BY DEF IInv, Intended, CallsShrink
  <1> QED
    BY <1>1, <1>2, <1>3 DEF IInv

(* The end of a call deactivates a worker whose stream is registered, and  *)
(* so leaves it in WaitConnect.                                            *)
LEMMA FinishKeeps ==
    ASSUME IInv, NEW o \in Ops, Finish(o)
    PROVE  IInv'
  <1>1. Shape /\ phase[o] = "complete" /\ UNCHANGED <<listener_ids, handles, strayed>>
    BY DEF IInv, Finish
  <1>2. CASE kind[o] = "send"
    <2>1. UNCHANGED <<state, count>>
      BY <1>2 DEF Finish
    <2>2. CallsShrink(o)
      <3>1. CASE Over(o)
        BY <1>1, <3>1, OverShrinks
      <3>2. CASE phase' = [phase EXCEPT ![o] = "buffered"] /\ UNCHANGED <<on, kind>>
        BY <1>1, <3>2 DEF CallsShrink, Shape
      <3> QED
        BY <1>2, <3>1, <3>2 DEF Finish
    <2> QED
      BY <1>1, <2>1, <2>2, ShrinkKeeps
  <1>3. CASE kind[o] = "bare"
    <2>1. Over(o) /\ UNCHANGED <<state, count>>
      BY <1>3 DEF Finish
    <2> QED
      BY <1>1, <2>1, OverShrinks, ShrinkKeeps
  <1>4. CASE kind[o] \in {"op", "wait"}
    <2>1. Over(o) /\ deactivate(on[o], listener_ids[on[o]])
      BY <1>4 DEF Finish
    <2>2. CallsShrink(o)
      BY <1>1, <2>1, OverShrinks
    <2>3. on[o] \in Workers
      BY <1>1 DEF Shape
    <2>4. /\ state' \in [Workers -> {"Active", "WaitConnect", "Inactive"}]
          /\ count' \in 0 .. Word - 1
          /\ \A v \in Workers : state'[v] = IF v # on[o] THEN state[v]
                                ELSE IF listener_ids[on[o]] = {} THEN "Inactive" ELSE "WaitConnect"
          /\ count = Cardinality(Counting)
             /\ (listener_ids[on[o]] # {} => state[on[o]] # "Inactive") =>
                  count' = Cardinality(Counting')
      BY <1>1, <2>1, <2>3, CountedDown
    <2>5. Shape'
      BY <1>1, <2>2, <2>4 DEF Shape, CallsShrink
    <2>6. ASSUME ~strayed
          PROVE  Intended' /\ count' = Cardinality(Counting')
      <3>1. Intended /\ count = Cardinality(Counting)
        BY <2>6 DEF IInv
      <3>2. listener_ids[on[o]] # {} /\ state[on[o]] # "Inactive"
        BY <1>1, <3>1 DEF Intended
      <3>3. \A v \in Workers : state'[v] # "Inactive" <=> state[v] # "Inactive"
        BY <2>3, <2>4, <3>2
      <3>4. \A x \in Ops : phase'[x] # "idle" => on[x] \in Workers
        BY <1>1 DEF Shape
      <3>5. Intended'
        BY <1>1, <2>2, <3>1, <3>3, <3>4 DEF Intended, CallsShrink
      <3> QED
        BY <2>4, <3>1, <3>2, <3>5
    <2> QED
      BY <1>1, <2>5, <2>6 DEF IInv
  <1> QED
    BY <1>1, <1>2, <1>3, <1>4 DEF Shape

LEMMA CancelKeeps ==
    ASSUME IInv, NEW o \in Ops, Cancel(o)
    PROVE  IInv'
  <1>1. Shape
    BY DEF IInv
  <1>2. CallsShrink(o)
    BY <1>1, OverShrinks DEF Cancel
  <1> QED
    BY <1>2, ShrinkKeeps DEF Cancel

LEMMA ProgressKeeps ==
    ASSUME IInv, NEW o \in Ops, Progress(o)
    PROVE  IInv'
  <1>1. Shape
    BY DEF IInv
  <1>2. CASE phase[o] = "flight" /\ phase' = [phase EXCEPT ![o] = "complete"] /\ UNCHANGED <<on, kind>>
    BY <1>1, <1>2, ShrinkKeeps DEF CallsShrink, Shape, Progress
  <1>3. CASE phase[o] = "buffered" /\ Over(o)
    BY <1>1, <1>3, OverShrinks, ShrinkKeeps DEF Progress
  <1> QED
    BY <1>2, <1>3 DEF Progress

LEMMA CloseStreamKeeps ==
    ASSUME IInv, NEW w \in Workers, NEW i \in Ids, CloseStream(w, i)
    PROVE  IInv'
  <1>1. Shape
    BY DEF IInv
  <1>2. PICK o \in Ops : on[o] = w /\ kind[o] = "wait" /\ phase[o] = "flight"
    BY DEF CloseStream
  <1>3. /\ phase' = [x \in Ops |-> IF on[x] = w /\ kind[x] = "wait" /\ phase[x] = "flight"
                                   THEN "complete" ELSE phase[x]]
        /\ UNCHANGED <<state, listener_ids, count, handles, on, kind, strayed>>
    BY DEF CloseStream
  <1>4. CallsShrink(o)
    BY <1>1, <1>2, <1>3 DEF CallsShrink, Shape
  <1> QED
    BY <1>3, <1>4, ShrinkKeeps

(* The first stream or listener of a worker registers its id.              *)
LEMMA OpenKeeps ==
    ASSUME IInv, NEW w \in Workers, NEW i \in Ids, handles[w][i] = 0,
           Used((\A j \in Ids : handles[w][j] = 0) /\ Outstanding(w) = {}),
           listener_ids' = [listener_ids EXCEPT ![w] = @ \cup {i}],
           handles' = [handles EXCEPT ![w][i] = 1], UNCHANGED calls,
           \/ UNCHANGED <<state, count>>
           \/ wait_connect(w)
    PROVE  IInv'
  <1>1. Shape /\ 1 \in 0 .. MaxHandles
    BY UcxAssumption DEF IInv
  <1>2. UNCHANGED <<on, kind, phase>>
    BY DEF calls
  <1>3. strayed' \in BOOLEAN /\ (strayed => strayed')
    BY <1>1 DEF Used, Shape
  <1>4. /\ state' \in [Workers -> {"Active", "WaitConnect", "Inactive"}]
        /\ count' \in 0 .. Word - 1
        /\ count = Cardinality(Counting) => count' = Cardinality(Counting')
        /\ \A v \in Workers : state[v] # "Inactive" => state'[v] # "Inactive"
        /\ \A v \in Workers \ {w} : state'[v] = state[v]
    <2>1. CASE UNCHANGED <<state, count>>
      BY <1>1, <2>1 DEF Shape, Counting
    <2>2. CASE wait_connect(w)
      <3>1. state' = [state EXCEPT ![w] = "WaitConnect"] /\ count' = Counted(w)
        BY <2>2 DEF wait_connect
      <3>2. /\ state' \in [Workers -> {"Active", "WaitConnect", "Inactive"}]
            /\ count' \in 0 .. Word - 1
            /\ count = Cardinality(Counting) => count' = Cardinality(Counting')
        BY <1>1, <3>1, CountedUp
      <3>3. /\ \A v \in Workers : state[v] # "Inactive" => state'[v] # "Inactive"
            /\ \A v \in Workers \ {w} : state'[v] = state[v]
        BY <1>1, <3>1 DEF Shape
      <3> QED
        BY <3>2, <3>3
    <2> QED
      BY <2>1, <2>2
  <1>5. /\ handles' \in [Workers -> [Ids -> 0 .. MaxHandles]]
        /\ listener_ids' \in [Workers -> SUBSET Ids]
    BY <1>1 DEF Shape
  <1>6. Shape'
    BY <1>1, <1>2, <1>3, <1>4, <1>5 DEF Shape
  <1>7. ASSUME ~strayed'
        PROVE  Intended' /\ count' = Cardinality(Counting')
    <2>1. ~strayed /\ \A j \in Ids : handles[w][j] = 0
      BY <1>7 DEF Used
    <2>2. Intended /\ count = Cardinality(Counting)
      BY <2>1 DEF IInv
    <2>3. /\ \A v \in Workers, j \in Ids : v # w => handles'[v][j] = handles[v][j]
          /\ \A j \in Ids : handles'[w][j] = IF j = i THEN 1 ELSE 0
      BY <1>1, <2>1 DEF Shape
    <2>4. \A v \in Workers : listener_ids'[v] = IF v = w THEN listener_ids[w] \cup {i} ELSE listener_ids[v]
      BY <1>1 DEF Shape
    <2>5. \A v \in Workers, j, k \in Ids : handles'[v][j] > 0 /\ handles'[v][k] > 0 => j = k
      BY <2>2, <2>3 DEF Intended
    <2>6. \A v \in Workers : \A j \in listener_ids'[v] : handles'[v][j] > 0
      <3> SUFFICES ASSUME NEW v \in Workers, NEW j \in listener_ids'[v]
                   PROVE  handles'[v][j] > 0
        OBVIOUS
      <3>1. j \in Ids
        BY <1>5
      <3>2. CASE v # w
        BY <2>2, <2>3, <2>4, <3>1, <3>2 DEF Intended
      <3>3. CASE v = w
        <4>1. listener_ids[w] = {}
          BY <1>1, <2>1, <2>2 DEF Intended, Shape
        <4> QED
          BY <2>3, <2>4, <3>3, <4>1
      <3> QED
        BY <3>2, <3>3
    <2>7. \A o \in Ops : phase'[o] # "idle" =>
              listener_ids'[on'[o]] # {} /\ state'[on'[o]] # "Inactive"
      BY <1>1, <1>2, <1>4, <2>2, <2>4 DEF Intended, Shape
    <2>8. \A v \in Workers : state'[v] # "Inactive" => listener_ids'[v] # {}
      BY <1>4, <2>2, <2>4 DEF Intended
    <2> QED
      BY <1>4, <2>2, <2>5, <2>6, <2>7, <2>8 DEF Intended
  <1> QED
    BY <1>6, <1>7 DEF IInv

LEMMA OpensKeep ==
    ASSUME IInv, NEW w \in Workers, NEW i \in Ids, OpenStream(w, i) \/ CreateListener(w, i)
    PROVE  IInv'
  <1>1. CASE OpenStream(w, i)
    BY <1>1, OpenKeeps DEF OpenStream
  <1>2. CASE CreateListener(w, i)
    BY <1>2, OpenKeeps DEF CreateListener
  <1> QED
    BY <1>1, <1>2

LEMMA CloneKeeps ==
    ASSUME IInv, NEW w \in Workers, NEW i \in Ids, CloneStream(w, i)
    PROVE  IInv'
  <1>1. /\ Shape /\ handles[w][i] \in 1 .. MaxHandles - 1
        /\ handles' = [handles EXCEPT ![w][i] = @ + 1]
        /\ UNCHANGED <<state, listener_ids, count, on, kind, phase, strayed>>
    BY DEF IInv, CloneStream, calls
  <1>2. handles[w][i] + 1 \in 0 .. MaxHandles
    BY <1>1, UcxAssumption
  <1>3. Shape'
    BY <1>1, <1>2 DEF Shape
  <1>4. \A v \in Workers, j \in Ids : handles'[v][j] > 0 <=> handles[v][j] > 0
    <2> SUFFICES ASSUME NEW v \in Workers, NEW j \in Ids
                 PROVE  handles'[v][j] > 0 <=> handles[v][j] > 0
      OBVIOUS
    <2>1. CASE v = w /\ j = i
      BY <1>1, <2>1 DEF Shape
    <2>2. CASE ~(v = w /\ j = i)
      BY <1>1, <2>2 DEF Shape
    <2> QED
      BY <2>1, <2>2
  <1>5. \A v \in Workers : \A j \in listener_ids[v] : j \in Ids
    BY <1>1 DEF Shape
  <1>6. Intended => Intended'
    BY <1>1, <1>4, <1>5 DEF Intended
  <1>7. Counting' = Counting
    BY <1>1 DEF Counting
  <1> QED
    BY <1>1, <1>3, <1>6, <1>7 DEF IInv

(* The drop of a handle takes the only id of the worker, while no call is  *)
(* in progress there.                                                      *)
LEMMA DropHandleKeeps ==
    ASSUME IInv, NEW w \in Workers, NEW i \in Ids, DropHandle(w, i)
    PROVE  IInv'
  <1> DEFINE ids == listener_ids[w] \ {i}
  <1>1. /\ Shape /\ handles[w][i] > 0 /\ Used(Outstanding(w) = {})
        /\ handles' = [handles EXCEPT ![w][i] = @ - 1]
        /\ listener_ids' = [listener_ids EXCEPT ![w] = @ \ {i}]
        /\ deactivate(w, ids) /\ UNCHANGED <<on, kind, phase>>
    BY DEF IInv, DropHandle, calls
  <1>2. /\ state' \in [Workers -> {"Active", "WaitConnect", "Inactive"}]
        /\ count' \in 0 .. Word - 1
        /\ \A v \in Workers : state'[v] = IF v # w THEN state[v]
                              ELSE IF ids = {} THEN "Inactive" ELSE "WaitConnect"
        /\ count = Cardinality(Counting) /\ (ids # {} => state[w] # "Inactive") =>
               count' = Cardinality(Counting')
    BY <1>1, CountedDown
  <1>3. handles[w][i] - 1 \in 0 .. MaxHandles
    BY <1>1, UcxAssumption DEF Shape
  <1>4. /\ handles' \in [Workers -> [Ids -> 0 .. MaxHandles]]
        /\ listener_ids' \in [Workers -> SUBSET Ids]
    BY <1>1, <1>3 DEF Shape
  <1>5. strayed' \in BOOLEAN
    BY <1>1 DEF Used
  <1>6. Shape'
    BY <1>1, <1>2, <1>4, <1>5 DEF Shape
  <1>7. ASSUME ~strayed'
        PROVE  Intended' /\ count' = Cardinality(Counting')
    <2>1. ~strayed /\ Outstanding(w) = {}
      BY <1>1, <1>7 DEF Used
    <2>2. Intended /\ count = Cardinality(Counting)
      BY <2>1 DEF IInv
    <2>3. ids = {}
      BY <1>1, <2>2 DEF Intended, Shape
    <2>4. \A v \in Workers, j \in Ids : /\ handles'[v][j] > 0 => handles[v][j] > 0
                                        /\ ~(v = w /\ j = i) => handles'[v][j] = handles[v][j]
      <3> SUFFICES ASSUME NEW v \in Workers, NEW j \in Ids
                   PROVE  /\ handles'[v][j] > 0 => handles[v][j] > 0
                          /\ ~(v = w /\ j = i) => handles'[v][j] = handles[v][j]
        OBVIOUS
      <3>1. CASE v = w /\ j = i
        BY <1>1, <3>1
      <3>2. CASE ~(v = w /\ j = i)
        BY <1>1, <3>2 DEF Shape
      <3> QED
        BY <3>1, <3>2
    <2>5. \A v \in Workers : listener_ids'[v] = IF v = w THEN {} ELSE listener_ids[v]
      BY <1>1, <2>3 DEF Shape
    <2>6. \A o \in Ops : phase[o] # "idle" => on[o] # w /\ on[o] \in Workers
      BY <1>1, <2>1 DEF Outstanding, Shape
    <2>7. \A v \in Workers, j, k \in Ids : handles'[v][j] > 0 /\ handles'[v][k] > 0 => j = k
      BY <2>2, <2>4 DEF Intended
    <2>8. \A v \in Workers : \A j \in listener_ids'[v] : handles'[v][j] > 0
      <3> SUFFICES ASSUME NEW v \in Workers, NEW j \in listener_ids'[v]
                   PROVE  handles'[v][j] > 0
        OBVIOUS
      <3>1. v # w /\ j \in listener_ids[v] /\ j \in Ids
        BY <1>4, <2>5
      <3> QED
        BY <2>2, <2>4, <3>1 DEF Intended
    <2>9. \A o \in Ops : phase'[o] # "idle" =>
              listener_ids'[on'[o]] # {} /\ state'[on'[o]] # "Inactive"
      BY <1>1, <1>2, <2>2, <2>5, <2>6 DEF Intended
    <2>10. \A v \in Workers : state'[v] # "Inactive" => listener_ids'[v] # {}
      BY <1>2, <2>2, <2>3, <2>5 DEF Intended
    <2> QED
      BY <1>2, <2>2, <2>3, <2>7, <2>8, <2>9, <2>10 DEF Intended
  <1> QED
    BY <1>6, <1>7 DEF IInv

LEMMA NextIInv == IInv /\ [Next]_vars => IInv'
  <1> SUFFICES ASSUME IInv, [Next]_vars PROVE IInv'
    OBVIOUS
  <1>1. CASE UNCHANGED vars
    BY <1>1 DEF vars, IInv, Shape, Intended, Counting
  <1>2. CASE \E o \in Ops, w \in Workers : StartOp(o, w) \/ StartSend(o, w)
    BY <1>2, StartKeeps DEF StartOp, StartSend, activate
  <1>3. CASE \E o \in Ops, w \in Workers, i \in Ids : StartWait(o, w, i)
    BY <1>3, StartsKeep
  <1>4. CASE \E o \in Ops : Finish(o) \/ Cancel(o) \/ Progress(o)
    BY <1>4, FinishKeeps, CancelKeeps, ProgressKeeps
  <1>5. CASE \E w \in Workers, i \in Ids : OpenStream(w, i) \/ CreateListener(w, i)
    BY <1>5, OpensKeep
  <1>6. CASE \E w \in Workers, i \in Ids : CloneStream(w, i) \/ CloseStream(w, i) \/ DropHandle(w, i)
    BY <1>6, CloneKeeps, CloseStreamKeeps, DropHandleKeeps
  <1>7. CASE \E o \in Ops, w \in Workers : StartBare(o, w)
    BY <1>7, StartBareKeeps
  <1> QED
    BY <1>1, <1>2, <1>3, <1>4, <1>5, <1>6, <1>7 DEF Next

LEMMA AlwaysIInv == Spec => []IInv
  BY InitIInv, NextIInv, PTL DEF Spec

(* The state keeps its types; the counter stays in its word however the    *)
(* workers are used, and at most the number of workers when they are used  *)
(* as intended.                                                            *)
THEOREM TypeCorrect == Spec => []TypeOK
  <1>1. IInv => TypeOK
    <2> SUFFICES ASSUME IInv PROVE TypeOK
      OBVIOUS
    <2>1. count \in 0 .. (IF strayed THEN Word - 1 ELSE Cardinality(Workers))
      BY CountingSize DEF IInv, Shape
    <2> QED
      BY <2>1 DEF IInv, Shape, TypeOK
  <1> QED
    BY <1>1, AlwaysIInv, PTL

(* The counter by which UCXReactor::status answers is the number of        *)
(* workers that are not Inactive, whichever calls overlap, end or are      *)
(* dropped, for any number of workers below the range of usize.            *)
THEOREM CounterExact == Spec => []CountMirrorsStates
  <1>1. IInv => CountMirrorsStates
    BY DEF IInv, CountMirrorsStates, Counting
  <1> QED
    BY <1>1, AlwaysIInv, PTL

(* While UCX holds a call or a message that am_send left with it, the      *)
(* reactor says Running and so is polled.                                  *)
THEOREM PolledWhileInFlight == Spec => []InFlightPolled
  <1>1. IInv => InFlightPolled
    <2> SUFFICES ASSUME IInv, ~strayed, NEW o \in Ops, InFlight(o)
                 PROVE  Running
      BY DEF InFlightPolled
    <2>1. on[o] \in Counting
      BY DEF IInv, Shape, Intended, InFlight, Counting
    <2>2. Cardinality(Counting) # 0 /\ Cardinality(Counting) \in Nat
      BY <2>1, CountingSize, FS_EmptySet
    <2> QED
      BY <2>2 DEF IInv, Running
  <1> QED
    BY <1>1, AlwaysIInv, PTL

(* When every stream and listener is gone the reactor says Stopped.        *)
THEOREM RestsClosed == Spec => []RestsWhenClosed
  <1>1. IInv => RestsWhenClosed
    <2> SUFFICES ASSUME IInv, ~strayed, \A w \in Workers, i \in Ids : handles[w][i] = 0
                 PROVE  ~Running
      BY DEF RestsWhenClosed
    <2>1. Shape /\ Intended /\ count = Cardinality(Counting)
      BY DEF IInv
    <2>2. ASSUME NEW w \in Workers PROVE listener_ids[w] = {}
      BY <2>1 DEF Shape, Intended
    <2>3. Counting = {}
      BY <2>1, <2>2 DEF Intended, Counting
    <2> QED
      BY <2>1, <2>3, FS_EmptySet DEF Running
  <1> QED
    BY <1>1, AlwaysIInv, PTL
=============================================================================
