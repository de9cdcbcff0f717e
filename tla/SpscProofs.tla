----------------------------- MODULE SpscProofs -----------------------------
(***************************************************************************)
(* The ring buffer is safe and is a FIFO channel for every capacity, every *)
(* set of messages and any number of growths.                              *)
(*                                                                         *)
(* TypeOK /\ InitializedExactly is inductive: the indices stay below the   *)
(* length, so that every reduction modulo the length is the identity       *)
(* (ModSmall), and the occupied slots are the interval, possibly wrapped,  *)
(* from tail to head (OccupiedIs).                                         *)
(***************************************************************************)
EXTENDS Spsc, TLAPS

(* The defensive `% m' of inc, len, write_at and read_at changes nothing   *)
(* for an index already inside the buffer.                                 *)
LEMMA ModSmall ==
    ASSUME NEW m \in Nat, NEW i \in 0 .. m - 1
    PROVE  i % m = i
  BY SMT

(* Inside the buffer, inc is the successor with wrap-around.               *)
LEMMA IncIs ==
    ASSUME NEW m \in Nat \ {0}, NEW i \in 0 .. m - 1
    PROVE  /\ inc(i, m) = IF i + 1 = m THEN 0 ELSE i + 1
           /\ inc(i, m) \in 0 .. m - 1
  <1>1. i % m = i
    BY ModSmall
  <1> QED
    BY <1>1 DEF inc

(* len() is the distance from tail to head.                                *)
Distance == IF head >= tail THEN head - tail ELSE buf_len - tail + head

LenForm == len = Distance /\ len \in 0 .. buf_len - 1

LEMMA LenIs == TypeOK => LenForm
  <1> SUFFICES ASSUME TypeOK PROVE LenForm
    OBVIOUS
  <1>1. head % buf_len = head /\ tail % buf_len = tail
    BY ModSmall DEF TypeOK
  <1> QED
    BY <1>1 DEF len, LenForm, Distance, TypeOK

(* The occupied slots are those from tail to head, wrapped when head is    *)
(* behind tail.                                                            *)
Between(i) == IF tail <= head THEN tail <= i /\ i < head ELSE tail <= i \/ i < head

OccupiedForm == \A i \in 0 .. buf_len - 1 : i \in Occupied <=> Between(i)

LEMMA OccupiedIs == TypeOK => OccupiedForm
  <1> SUFFICES ASSUME TypeOK, NEW i \in 0 .. buf_len - 1
               PROVE  i \in Occupied <=> Between(i)
    BY DEF OccupiedForm
  <1>1. len = Distance
    BY LenIs DEF LenForm
  <1>2. i \in Occupied <=> \E k \in 0 .. len - 1 : Slot(k) = i
    BY DEF Occupied
  <1>3. ASSUME NEW k \in 0 .. len - 1, Slot(k) = i
        PROVE  Between(i)
    BY <1>1, <1>3 DEF Slot, Between, Distance, TypeOK
  <1>4. CASE tail <= i
    <2>1. i - tail \in 0 .. buf_len - 1 /\ Slot(i - tail) = i
      BY <1>4 DEF Slot, TypeOK
    <2>2. Between(i) => i - tail \in 0 .. len - 1
      BY <1>1, <1>4 DEF Between, Distance, TypeOK
    <2> QED
      BY <1>2, <1>3, <2>1, <2>2
  <1>5. CASE i < tail
    <2>1. i + buf_len - tail \in Nat /\ Slot(i + buf_len - tail) = i
      BY <1>5 DEF Slot, TypeOK
    <2>2. Between(i) => i + buf_len - tail \in 0 .. len - 1
      BY <1>1, <1>5 DEF Between, Distance, TypeOK
    <2> QED
      BY <1>2, <1>3, <2>1, <2>2
  <1> QED
    BY <1>4, <1>5 DEF TypeOK

-----------------------------------------------------------------------------
(* The inductive invariant, and the form the proofs use: a slot is         *)
(* initialised exactly when it is between tail and head.                   *)
IInv == TypeOK /\ InitializedExactly

Exact == \A i \in 0 .. buf_len - 1 : buf[i] # Uninit <=> Between(i)

LEMMA ExactIs == TypeOK => (InitializedExactly <=> Exact)
  BY OccupiedIs DEF OccupiedForm, InitializedExactly, Exact

(* The slots counted from tail are inside the buffer and hold messages.    *)
SlotForm == \A i \in 0 .. len - 1 : Slot(i) \in 0 .. buf_len - 1 /\ buf[Slot(i)] \in Msg

LEMMA SlotHolds == IInv => SlotForm
  <1> SUFFICES ASSUME IInv, NEW i \in 0 .. len - 1
               PROVE  Slot(i) \in 0 .. buf_len - 1 /\ buf[Slot(i)] \in Msg
    BY DEF SlotForm
  <1>1. Slot(i) \in 0 .. buf_len - 1
    BY LenIs DEF LenForm, Slot, TypeOK, IInv
  <1>2. Slot(i) \in Occupied
    BY DEF Occupied
  <1> QED
    BY <1>1, <1>2 DEF InitializedExactly, TypeOK, IInv

LEMMA InitIInv == Init => IInv
  <1> SUFFICES ASSUME Init PROVE IInv
    OBVIOUS
  <1>1. TypeOK
    BY SpscAssumption DEF Init, TypeOK, Results
  <1>2. Exact
    BY SpscAssumption DEF Init, Exact, Between
  <1> QED
    BY <1>1, <1>2, ExactIs DEF IInv

(* A send that finds room initialises the slot at head.                    *)
LEMMA SendStep ==
    ASSUME IInv, NEW m \in Msg, TrySend(m)
    PROVE  TypeOK' /\ Exact'
  <1> USE DEF IInv, handles, ring
  <1>1. Exact
    BY ExactIs
  <1>2. CASE UNCHANGED ring
    BY <1>1, <1>2 DEF TrySend, TypeOK, Exact, Between, Results, WriteAt
  <1>3. CASE receiver_alive /\ ~is_full /\ WriteAt(buf, buf_len, head, m) /\ tail' = tail
             /\ ret' = [op |-> "send", ok |-> m]
    <2>1. head % buf_len = head
      BY ModSmall DEF TypeOK
    <2>2. /\ head' = IF head + 1 = buf_len THEN 0 ELSE head + 1
          /\ head' \in 0 .. buf_len - 1 /\ head' # tail
      BY <1>3, IncIs DEF WriteAt, TypeOK, is_full
    <2>3. buf' = [buf EXCEPT ![head] = m] /\ buf_len' = buf_len /\ unbounded' = unbounded
      BY <1>3, <2>1 DEF WriteAt
    <2>4. TypeOK'
      BY <1>3, <2>2, <2>3 DEF TypeOK, TrySend, Results
    <2>5. Exact'
      <3> SUFFICES ASSUME NEW i \in 0 .. buf_len - 1
                   PROVE  buf'[i] # Uninit <=> Between(i)'
        BY <2>3 DEF Exact
      <3>1. buf'[i] # Uninit <=> i = head \/ Between(i)
        BY <1>1, <2>3, SpscAssumption DEF Exact, TypeOK
      <3>2. Between(i)' <=> i = head \/ Between(i)
        BY <1>3, <2>2 DEF Between, TypeOK
      <3> QED
        BY <3>1, <3>2
    <2> QED
      BY <2>4, <2>5
  <1>4. CASE /\ receiver_alive /\ is_full /\ unbounded /\ tail' = 0
             /\ WriteAt(GrownBuf, NewCap + 1, len, m)
             /\ ret' = [op |-> "send", ok |-> m]
    <2>1. len = Distance /\ len \in 0 .. buf_len - 1
      BY LenIs DEF LenForm
    <2>2. NewCap \in Nat /\ buf_len <= NewCap /\ len < NewCap
      BY <2>1 DEF NewCap, cap, TypeOK
    <2>3. len % (NewCap + 1) = len /\ inc(len, NewCap + 1) = len + 1
      BY <2>1, <2>2, ModSmall, IncIs DEF TypeOK
    <2>4. /\ buf' = [GrownBuf EXCEPT ![len] = m]
          /\ buf_len' = NewCap + 1 /\ head' = len + 1 /\ unbounded' = unbounded
      BY <1>4, <2>3 DEF WriteAt
    <2>5. \A i \in 0 .. len - 1 : buf[Slot(i)] \in Msg
      BY SlotHolds DEF SlotForm
    <2>6. GrownBuf \in [0 .. NewCap -> Msg \cup {Uninit}]
      BY <2>1, <2>2, <2>5 DEF GrownBuf
    <2>7. TypeOK'
      BY <1>4, <2>1, <2>2, <2>4, <2>6 DEF TypeOK, TrySend, Results
    <2>8. ASSUME NEW i \in 0 .. NewCap
          PROVE  buf'[i] # Uninit <=> i < len + 1
      BY <2>1, <2>2, <2>4, <2>5, SpscAssumption DEF GrownBuf
    <2> QED
      BY <1>4, <2>1, <2>2, <2>4, <2>7, <2>8 DEF Exact, Between
  <1> QED
    BY <1>2, <1>3, <1>4 DEF TrySend

(* A receive that finds a message leaves the slot at tail uninitialised.   *)
LEMMA RecvStep ==
    ASSUME IInv, TryRecv
    PROVE  TypeOK' /\ Exact'
  <1> USE DEF IInv, handles, ring
  <1>1. Exact
    BY ExactIs
  <1>2. CASE is_empty
    BY <1>1, <1>2 DEF TryRecv, TypeOK, Exact, Between, Results, is_empty
  <1>3. CASE ~is_empty
    <2>1. tail % buf_len = tail
      BY ModSmall DEF TypeOK
    <2>2. /\ tail' = IF tail + 1 = buf_len THEN 0 ELSE tail + 1
          /\ tail' \in 0 .. buf_len - 1
      BY <1>3, IncIs DEF TryRecv, TypeOK
    <2>3. /\ buf' = [buf EXCEPT ![tail] = Uninit] /\ UNCHANGED <<buf_len, head>>
          /\ ret' = [op |-> "recv", ok |-> buf[tail]]
      BY <1>3, <2>1 DEF TryRecv
    <2>4. Between(tail) /\ buf[tail] \in Msg
      BY <1>1, <1>3 DEF Exact, Between, TypeOK, is_empty
    <2>5. TypeOK'
      BY <1>3, <2>2, <2>3, <2>4 DEF TypeOK, TryRecv, Results
    <2>6. ASSUME NEW i \in 0 .. buf_len - 1
          PROVE  Between(i)' <=> i # tail /\ Between(i)
      BY <1>3, <2>2, <2>3 DEF Between, TypeOK, is_empty
    <2>7. ASSUME NEW i \in 0 .. buf_len - 1
          PROVE  buf'[i] # Uninit <=> i # tail /\ Between(i)
      BY <1>1, <2>3 DEF Exact, TypeOK
    <2> QED
      BY <2>3, <2>5, <2>6, <2>7 DEF Exact
  <1> QED
    BY <1>2, <1>3

(* Cloning or dropping a handle leaves the ring alone, except that the     *)
(* last drop empties it.                                                   *)
LEMMA HandleStep ==
    ASSUME IInv, CloneSender \/ CloneReceiver \/ DropSender \/ DropReceiver
    PROVE  TypeOK' /\ Exact'
  <1> USE DEF IInv, ring
  <1>1. Exact
    BY ExactIs
  <1>2. /\ sender_count' \in Nat /\ receivers' \in Nat
        /\ receiver_alive' \in BOOLEAN /\ ret' = ret
    <2>1. sender_count' \in Nat /\ receivers' \in Nat
      BY SpscAssumption DEF CloneSender, CloneReceiver, DropSender, DropReceiver, TypeOK
    <2>2. receiver_alive' \in BOOLEAN /\ ret' = ret
      BY DEF CloneSender, CloneReceiver, DropSender, DropReceiver, TypeOK
    <2> QED
      BY <2>1, <2>2
  <1>3. CASE UNCHANGED ring
    BY <1>1, <1>2, <1>3 DEF TypeOK, Exact, Between
  <1>4. CASE DropInner
    <2>1. tail' = head /\ UNCHANGED <<buf_len, head>>
      BY <1>4, ModSmall DEF DropInner, TypeOK
    <2>2. \A i \in 0 .. buf_len - 1 : buf'[i] = Uninit
      BY <1>4 DEF DropInner, InitializedExactly
    <2>3. buf' \in [0 .. buf_len - 1 -> Msg \cup {Uninit}]
      BY <1>4 DEF DropInner, TypeOK
    <2> QED
      BY <1>2, <1>4, <2>1, <2>2, <2>3 DEF TypeOK, Exact, Between, DropInner
  <1> QED
    BY <1>3, <1>4 DEF CloneSender, CloneReceiver, DropSender, DropReceiver

LEMMA StepIInv == IInv /\ [Next]_vars => IInv'
  <1> SUFFICES ASSUME IInv, [Next]_vars PROVE IInv'
    OBVIOUS
  <1>1. TypeOK' /\ Exact'
    <2>1. CASE \E m \in Msg : TrySend(m)
      BY <2>1, SendStep
    <2>2. CASE TryRecv
      BY <2>2, RecvStep
    <2>3. CASE CloneSender \/ CloneReceiver \/ DropSender \/ DropReceiver
      BY <2>3, HandleStep
    <2>4. CASE UNCHANGED vars
      BY <2>4, ExactIs DEF vars, IInv, TypeOK, Exact, Between
    <2> QED
      BY <2>1, <2>2, <2>3, <2>4 DEF Next
  <1>2. TypeOK' => (InitializedExactly <=> Exact)'
    BY ExactIs, PTL
  <1> QED
    BY <1>1, <1>2 DEF IInv

(* For every capacity, bounded or growing, the indices stay inside the     *)
(* buffer and no call returns the content of an uninitialised slot.        *)
THEOREM TypeCorrect == Spec => []TypeOK
  BY InitIInv, StepIInv, PTL DEF Spec, IInv

(* For every capacity the contracts of write_at and read_at hold whenever  *)
(* the channel calls them.                                                 *)
THEOREM ContractsHold == Spec => []InitializedExactly
  BY InitIInv, StepIInv, PTL DEF Spec, IInv

(* Nothing is leaked when the last handle goes, whatever is still queued.  *)
THEOREM NothingLeaks == Spec => []NoLeak
  <1>1. Init => NoLeak
    BY DEF Init, NoLeak
  <1>2. IInv /\ NoLeak /\ [Next]_vars => NoLeak'
    <2> SUFFICES ASSUME IInv, NoLeak, [Next]_vars PROVE NoLeak'
      OBVIOUS
    <2>1. CASE UNCHANGED vars
      BY <2>1 DEF vars, NoLeak
    <2>2. CASE (\E m \in Msg : TrySend(m)) \/ TryRecv \/ CloneSender \/ CloneReceiver
      BY <2>2 DEF TrySend, TryRecv, CloneSender, CloneReceiver, handles, NoLeak, IInv, TypeOK
    <2>3. CASE DropSender \/ DropReceiver
      <3>1. CASE DropInner
        BY <3>1 DEF DropInner, NoLeak, IInv, InitializedExactly
      <3>2. CASE ~DropInner
        BY <2>3, <3>2 DEF DropSender, DropReceiver, NoLeak, IInv, TypeOK
      <3> QED
        BY <3>1, <3>2
    <2> QED
      BY <2>1, <2>2, <2>3 DEF Next
  <1> QED
    BY <1>1, <1>2, InitIInv, StepIInv, PTL DEF Spec

-----------------------------------------------------------------------------
(* Refinement of the abstract channel.                                     *)

(* A bounded channel keeps the capacity it was made with.                  *)
CapacityFixed == ~unbounded => cap = InitCap

LEMMA InitCapacity == Init => CapacityFixed
  BY SpscAssumption DEF Init, CapacityFixed, cap

LEMMA StepCapacity == IInv /\ CapacityFixed /\ [Next]_vars => CapacityFixed'
  <1> SUFFICES ASSUME IInv, CapacityFixed, [Next]_vars, ~unbounded' PROVE cap' = InitCap
    BY DEF CapacityFixed
  <1>0. unbounded' = unbounded
    BY DEF Next, TrySend, TryRecv, CloneSender, CloneReceiver, DropSender, DropReceiver,
           DropInner, WriteAt, ring, vars
  <1>1. buf_len' = buf_len
    BY <1>0 DEF Next, TrySend, TryRecv, CloneSender, CloneReceiver, DropSender, DropReceiver,
           DropInner, WriteAt, ring, vars
  <1> QED
    BY <1>0, <1>1 DEF CapacityFixed, cap

(* The represented queue is a sequence of messages, len() long.            *)
MessagesForm ==
    /\ Messages \in Seq(Msg)
    /\ Len(Messages) = len
    /\ \A i \in 1 .. len : Messages[i] = buf[Slot(i - 1)]

LEMMA MessagesIs == IInv => MessagesForm
  <1> SUFFICES ASSUME IInv PROVE MessagesForm
    OBVIOUS
  <1>1. len \in Nat
    BY LenIs DEF LenForm, IInv
  <1>2. \A i \in 1 .. len : buf[Slot(i - 1)] \in Msg
    BY <1>1, SlotHolds DEF SlotForm
  <1> QED
    BY <1>1, <1>2 DEF Messages, MessagesForm

LEMMA FullIs == IInv => (is_full <=> len = cap)
  <1> SUFFICES ASSUME IInv PROVE is_full <=> len = cap
    OBVIOUS
  <1>1. inc(head, buf_len) = IF head + 1 = buf_len THEN 0 ELSE head + 1
    BY IncIs DEF IInv, TypeOK
  <1> QED
    BY <1>1, LenIs DEF LenForm, Distance, is_full, cap, IInv, TypeOK

LEMMA SendRefines ==
    ASSUME IInv, IInv', CapacityFixed, NEW m \in Msg, TrySend(m)
    PROVE  Abstract!Send(m)
  <1> USE DEF ring, handles
  <1>0. MessagesForm /\ MessagesForm'
    BY MessagesIs, PTL
  <1>1. LenForm /\ LenForm' /\ SlotForm
    BY LenIs, SlotHolds, PTL DEF IInv
  <1>2. Abstract!Full <=> ~unbounded /\ is_full
    BY <1>0, <1>1, FullIs, SpscAssumption
       DEF Abstract!Full, MessagesForm, CapacityFixed, IInv, TypeOK, cap
  <1>3. sender_count > 0 /\ UNCHANGED <<sender_count, receiver_alive, receivers>>
    BY DEF TrySend
  <1>4. UNCHANGED ring => Messages' = Messages
    BY DEF Messages, Slot, len
  <1>5. CASE receiver_alive /\ ~is_full /\ WriteAt(buf, buf_len, head, m) /\ tail' = tail
             /\ ret' = [op |-> "send", ok |-> m]
    <2>1. /\ head % buf_len = head
          /\ head' = IF head + 1 = buf_len THEN 0 ELSE head + 1
          /\ buf_len' = buf_len /\ head' # tail
      BY <1>5, ModSmall, IncIs DEF WriteAt, IInv, TypeOK, is_full
    <2>2. buf' = [buf EXCEPT ![head] = m]
      BY <1>5, <2>1 DEF WriteAt
    <2>3. len' = len + 1 /\ Slot(len) = head
      BY <1>1, <1>5, <2>1 DEF LenForm, Distance, Slot, IInv, TypeOK
    <2>4. \A i \in 0 .. len : Slot(i)' = Slot(i)
      BY <1>5, <2>1 DEF Slot
    <2>5. \A i \in 0 .. len - 1 : Slot(i) # head
      BY <1>1, <1>5, <2>1 DEF LenForm, Distance, Slot, IInv, TypeOK
    <2>6. \A i \in 1 .. len : Messages'[i] = Messages[i]
      <3> SUFFICES ASSUME NEW i \in 1 .. len PROVE Messages'[i] = Messages[i]
        OBVIOUS
      <3>1. Messages'[i] = buf'[Slot(i - 1)'] /\ Messages[i] = buf[Slot(i - 1)]
        BY <1>0, <1>1, <2>3 DEF MessagesForm, LenForm
      <3>2. Slot(i - 1)' = Slot(i - 1) /\ Slot(i - 1) # head
        BY <1>1, <2>4, <2>5 DEF LenForm
      <3>3. Slot(i - 1) \in 0 .. buf_len - 1
        BY <1>1 DEF SlotForm, LenForm
      <3> QED
        BY <2>2, <3>1, <3>2, <3>3 DEF IInv, TypeOK
    <2>7. Messages'[len + 1] = m
      <3>0. PICK n \in Nat : n = len
        BY <1>1 DEF LenForm
      <3>1. Messages'[n + 1] = buf'[Slot(n)']
        BY <1>0, <1>1, <2>3, <3>0 DEF MessagesForm, LenForm
      <3>2. Slot(n)' = head
        BY <1>1, <2>3, <2>4, <3>0 DEF LenForm
      <3> QED
        BY <2>2, <3>0, <3>1, <3>2 DEF IInv, TypeOK
    <2>8. Messages' = Append(Messages, m)
      BY <1>0, <1>1, <2>3, <2>6, <2>7 DEF MessagesForm, LenForm
    <2> QED
      BY <1>2, <1>3, <1>5, <2>8 DEF Abstract!Send, WriteAt
  <1>6. CASE /\ receiver_alive /\ is_full /\ unbounded /\ tail' = 0
             /\ WriteAt(GrownBuf, NewCap + 1, len, m)
             /\ ret' = [op |-> "send", ok |-> m]
    <2>1. NewCap \in Nat /\ buf_len <= NewCap /\ len < NewCap /\ len \in Nat
      BY <1>1 DEF LenForm, NewCap, cap, IInv, TypeOK
    <2>2. len % (NewCap + 1) = len /\ inc(len, NewCap + 1) = len + 1
      BY <2>1, ModSmall, IncIs
    <2>3. /\ buf' = [GrownBuf EXCEPT ![len] = m]
          /\ buf_len' = NewCap + 1 /\ head' = len + 1
      BY <1>6, <2>2 DEF WriteAt
    <2>4. len' = len + 1
      BY <1>1, <1>6, <2>1, <2>3 DEF LenForm, Distance
    <2>5. \A i \in 0 .. len : Slot(i)' = i
      BY <1>6, <2>1, <2>3 DEF Slot
    <2>6. \A i \in 0 .. len - 1 : buf'[i] = buf[Slot(i)]
      BY <2>1, <2>3 DEF GrownBuf
    <2>7. buf'[len] = m
      BY <2>1, <2>3 DEF GrownBuf
    <2>8. \A i \in 1 .. len : Messages'[i] = Messages[i]
      BY <1>0, <2>1, <2>4, <2>5, <2>6 DEF MessagesForm
    <2>9. Messages'[len + 1] = m
      BY <1>0, <2>1, <2>4, <2>5, <2>7 DEF MessagesForm
    <2>10. Messages' = Append(Messages, m)
      BY <1>0, <2>1, <2>4, <2>8, <2>9 DEF MessagesForm
    <2> QED
      BY <1>2, <1>3, <1>6, <2>10 DEF Abstract!Send, WriteAt
  <1>7. CASE ~receiver_alive
    BY <1>3, <1>4, <1>7 DEF TrySend, Abstract!Send
  <1>8. CASE receiver_alive /\ ~is_full
    BY <1>5, <1>8 DEF TrySend
  <1>9. CASE receiver_alive /\ is_full
    <2>1. CASE unbounded
      BY <1>6, <1>9, <2>1 DEF TrySend
    <2>2. CASE ~unbounded
      BY <1>2, <1>3, <1>4, <1>9, <2>2 DEF TrySend, Abstract!Send
    <2> QED
      BY <2>1, <2>2
  <1> QED
    BY <1>7, <1>8, <1>9

LEMMA RecvRefines ==
    ASSUME IInv, IInv', TryRecv
    PROVE  Abstract!Receive
  <1> USE DEF ring, handles
  <1>0. MessagesForm /\ MessagesForm'
    BY MessagesIs, PTL
  <1>1. LenForm /\ LenForm' /\ SlotForm
    BY LenIs, SlotHolds, PTL DEF IInv
  <1>2. is_empty <=> Messages = <<>>
    BY <1>0, <1>1 DEF is_empty, MessagesForm, LenForm, Distance, IInv, TypeOK
  <1>3. receivers > 0 /\ UNCHANGED <<sender_count, receiver_alive, receivers>>
    BY DEF TryRecv
  <1>4. CASE is_empty
    <2>1. Messages' = Messages
      BY <1>4 DEF TryRecv, Messages, Slot, len
    <2> QED
      BY <1>2, <1>3, <1>4, <2>1 DEF TryRecv, Abstract!Receive, IInv, TypeOK
  <1>5. CASE ~is_empty
    <2>1. /\ tail % buf_len = tail
          /\ tail' = IF tail + 1 = buf_len THEN 0 ELSE tail + 1
          /\ UNCHANGED <<buf_len, head, unbounded>>
      BY <1>5, ModSmall, IncIs DEF TryRecv, IInv, TypeOK
    <2>2. buf' = [buf EXCEPT ![tail] = Uninit] /\ ret' = [op |-> "recv", ok |-> buf[tail]]
      BY <1>5, <2>1 DEF TryRecv
    <2>3. len > 0 /\ len' = len - 1 /\ Slot(0) = tail
      BY <1>1, <1>5, <2>1 DEF LenForm, Distance, Slot, is_empty, IInv, TypeOK
    <2>4. \A i \in 0 .. len - 2 : Slot(i)' = Slot(i + 1) /\ Slot(i + 1) # tail
      BY <1>1, <2>1 DEF LenForm, Distance, Slot, IInv, TypeOK
    <2>5. Messages[1] = buf[tail]
      BY <1>0, <1>1, <2>3 DEF MessagesForm, LenForm
    <2>6. \A i \in 1 .. len - 1 : Messages'[i] = Messages[i + 1]
      <3> SUFFICES ASSUME NEW i \in 1 .. len - 1 PROVE Messages'[i] = Messages[i + 1]
        OBVIOUS
      <3>1. Messages'[i] = buf'[Slot(i - 1)'] /\ Messages[i + 1] = buf[Slot(i)]
        BY <1>0, <1>1, <2>3 DEF MessagesForm, LenForm
      <3>2. Slot(i - 1)' = Slot(i) /\ Slot(i) # tail
        BY <1>1, <2>4 DEF LenForm
      <3>3. Slot(i) \in 0 .. buf_len - 1
        BY <1>1 DEF SlotForm, LenForm
      <3> QED
        BY <2>2, <3>1, <3>2, <3>3 DEF IInv, TypeOK
    <2>7. Messages' = Tail(Messages)
      BY <1>0, <1>1, <2>3, <2>6 DEF MessagesForm, LenForm
    <2>8. Head(Messages) = buf[tail]
      BY <1>0, <2>5
    <2> QED
      BY <1>2, <1>3, <1>5, <2>1, <2>2, <2>7, <2>8 DEF Abstract!Receive, IInv, TypeOK
  <1> QED
    BY <1>4, <1>5

LEMMA HandlesRefine ==
    ASSUME IInv, IInv', CloneSender \/ CloneReceiver \/ DropSender \/ DropReceiver
    PROVE  Abstract!Handles \/ UNCHANGED Abstract!vars
  <1> USE DEF ring
  <1>1. CASE UNCHANGED ring /\ (CloneSender \/ CloneReceiver)
    <2>1. Messages' = Messages
      BY <1>1 DEF Messages, Slot, len
    <2> QED
      BY <1>1, <2>1 DEF CloneSender, CloneReceiver, Abstract!Handles, Abstract!vars,
                        IInv, TypeOK
  <1>2. CASE UNCHANGED ring /\ (DropSender \/ DropReceiver)
             /\ ~(sender_count' = 0 /\ receivers' = 0)
    <2>1. Messages' = Messages
      BY <1>2 DEF Messages, Slot, len
    <2> QED
      BY <1>2, <2>1 DEF DropSender, DropReceiver, Abstract!Handles, Abstract!vars, IInv, TypeOK
  <1>3. CASE DropInner /\ (DropSender \/ DropReceiver)
             /\ sender_count' = 0 /\ receivers' = 0
    <2>1. tail' = head /\ head' = head
      BY <1>3, ModSmall DEF DropInner, IInv, TypeOK
    <2>2. LenForm'
      BY LenIs, PTL DEF IInv
    <2>3. len' = 0
      BY <2>1, <2>2 DEF LenForm, Distance, IInv, TypeOK
    <2>4. Messages' = <<>>
      BY <2>3 DEF Messages
    <2> QED
      BY <1>3, <2>1, <2>4 DEF DropSender, DropReceiver, DropInner, Abstract!Handles,
                              Abstract!vars, IInv, TypeOK
  <1> QED
    <2>1. CASE CloneSender \/ CloneReceiver
      BY <1>1, <2>1 DEF CloneSender, CloneReceiver
    <2>2. CASE DropSender \/ DropReceiver
      <3>1. CASE sender_count' = 0 /\ receivers' = 0
        <4>1. DropInner
          BY <2>2, <3>1 DEF DropSender, DropReceiver, IInv, TypeOK
        <4> QED
          BY <1>3, <2>2, <3>1, <4>1
      <3>2. CASE ~(sender_count' = 0 /\ receivers' = 0)
        <4>1. UNCHANGED ring
          BY <2>2, <3>2 DEF DropSender, DropReceiver, IInv, TypeOK
        <4> QED
          BY <1>2, <2>2, <3>2, <4>1
      <3> QED
        BY <3>1, <3>2
    <2> QED
      BY <2>1, <2>2

(* Every run of the ring buffer is a run of the abstract FIFO channel, for *)
(* every capacity, across wrap-around, growth and the loss of handles.     *)
THEOREM RingImplementsFifo == Spec => ImplementsFifo
  <1>1. Init => Abstract!Init
    <2> SUFFICES ASSUME Init PROVE Abstract!Init
      OBVIOUS
    <2>1. len = 0
      BY InitIInv, LenIs DEF LenForm, Distance, IInv, Init
    <2>2. Messages = <<>>
      BY <2>1 DEF Messages
    <2> QED
      BY <2>2 DEF Init, Abstract!Init
  <1>2. IInv /\ IInv' /\ CapacityFixed /\ [Next]_vars => [Abstract!Next]_(Abstract!vars)
    <2> SUFFICES ASSUME IInv, IInv', CapacityFixed, [Next]_vars
                 PROVE  Abstract!Next \/ UNCHANGED Abstract!vars
      OBVIOUS
    <2>1. CASE \E m \in Msg : TrySend(m)
      BY <2>1, SendRefines DEF Abstract!Next
    <2>2. CASE TryRecv
      BY <2>2, RecvRefines DEF Abstract!Next
    <2>3. CASE CloneSender \/ CloneReceiver \/ DropSender \/ DropReceiver
      BY <2>3, HandlesRefine DEF Abstract!Next
    <2>4. CASE UNCHANGED vars
      BY <2>4 DEF vars, Abstract!vars, Messages, Slot, len
    <2> QED
      BY <2>1, <2>2, <2>3, <2>4 DEF Next
  <1> QED
    BY <1>1, <1>2, InitIInv, StepIInv, InitCapacity, StepCapacity, PTL
       DEF Spec, ImplementsFifo, Abstract!Spec
=============================================================================
