--------------------------- MODULE HoldQueueProofs ---------------------------
(***************************************************************************)
(* Proofs about the hold queue (HoldQueue), for any sets of notifications, *)
(* Wait calls and counts, and about the suite loop that runs the tests     *)
(* (Suite), for suites of any size.                                        *)
(***************************************************************************)
EXTENDS HoldQueue, SequenceTheorems, TLAPS

(* What ReleaseNeverBlocks and NoOrphanedHandler rest on: a notification   *)
(* that has not been enqueued is nowhere, and a closed queue is empty.     *)
ArrivingIsFresh ==
  \A h \in Notifs : handler[h] = "arriving" =>
     releaseCh[h] = "empty" /\ \A i \in DOMAIN pending : pending[i] # h

ClosedIsEmpty == closed => pending = <<>>

(* What ParkedMustWait rests on: a Wait between its test and its cond.Wait *)
(* owns q.mu, so nothing is enqueued in between.                           *)
OwnerInWait ==
  \A w \in Waits : wait[w] \in {"checking", "parking"} <=> owner = w

ParkingMustWait ==
  \A w \in Waits :
    wait[w] \in {"parking", "parked"} => Len(pending) < count[w] /\ ~closed

QueueInv == ReleaseNeverBlocks /\ ArrivingIsFresh /\ ClosedIsEmpty /\ NoOrphanedHandler

IInv == TypeOK /\ QueueInv /\ OwnerInWait /\ ParkingMustWait

-----------------------------------------------------------------------------
(* The part of a sequence from position m on. *)
LEMMA SuffixProperties ==
  ASSUME NEW S, NEW s \in Seq(S), NEW m \in 1..(Len(s) + 1)
  PROVE  /\ SubSeq(s, m, Len(s)) \in Seq(S)
         /\ Len(SubSeq(s, m, Len(s))) = Len(s) - m + 1
         /\ \A i \in 1..(Len(s) - m + 1) : SubSeq(s, m, Len(s))[i] = s[m + i - 1]
<1>1. /\ Len(s) \in Nat
      /\ s \in [1..Len(s) -> S]
  BY LenProperties
<1>2. \A i \in m..Len(s) : s[i] \in S
  BY <1>1
<1>3. m \in Int /\ Len(s) \in Int
  BY <1>1
<1>4. /\ SubSeq(s, m, Len(s)) \in Seq(S)
      /\ Len(SubSeq(s, m, Len(s))) = IF m <= Len(s) THEN Len(s) - m + 1 ELSE 0
      /\ \A i \in 1..(Len(s) - m + 1) : SubSeq(s, m, Len(s))[i] = s[m + i - 1]
  BY <1>2, <1>3, SubSeqProperties
<1>5. IF m <= Len(s) THEN TRUE ELSE Len(s) - m + 1 = 0
  BY <1>1
<1> QED
  BY <1>4, <1>5

(* What DeleteAt, the slice deletion of ReleaseByIndex, returns. *)
LEMMA DeleteAtProperties ==
  ASSUME NEW S, NEW s \in Seq(S), NEW k \in 1..Len(s)
  PROVE  /\ DeleteAt(s, k) \in Seq(S)
         /\ Len(DeleteAt(s, k)) = Len(s) - 1
         /\ \A i \in 1..(Len(s) - 1) :
              DeleteAt(s, k)[i] = IF i < k THEN s[i] ELSE s[i + 1]
<1> DEFINE left == SubSeq(s, 1, k - 1)
           right == SubSeq(s, k + 1, Len(s))
<1>1. /\ Len(s) \in Nat
      /\ s \in [1..Len(s) -> S]
  BY LenProperties
<1>2. /\ left \in Seq(S)
      /\ Len(left) = k - 1
      /\ \A i \in 1..(k - 1) : left[i] = s[i]
  <2>1. \A i \in 1..(k - 1) : s[i] \in S
    BY <1>1
  <2> QED
    BY <1>1, <2>1, SubSeqProperties
<1>3. /\ right \in Seq(S)
      /\ Len(right) = Len(s) - k
      /\ \A i \in 1..(Len(s) - k) : right[i] = s[k + i]
  <2>1. PICK m \in 1..(Len(s) + 1) : m = k + 1
    BY <1>1
  <2>2. /\ right = SubSeq(s, m, Len(s))
        /\ right \in Seq(S)
        /\ Len(right) = Len(s) - m + 1
    BY <2>1, SuffixProperties
  <2>3. \A i \in 1..(Len(s) - m + 1) : right[i] = s[m + i - 1]
    BY <2>2, SuffixProperties
  <2> HIDE DEF right
  <2>4. \A i \in 1..(Len(s) - k) : i \in 1..(Len(s) - m + 1) /\ m + i - 1 = k + i
    BY <1>1, <2>1
  <2>5. \A i \in 1..(Len(s) - k) : right[i] = s[k + i]
    BY <2>3, <2>4, Zenon
  <2>6. Len(s) - m + 1 = Len(s) - k
    BY <1>1, <2>1
  <2> QED
    BY <2>2, <2>5, <2>6, Zenon
<1> HIDE DEF left, right
<1>4. /\ left \o right \in Seq(S)
      /\ Len(left \o right) = Len(left) + Len(right)
      /\ \A i \in 1..(Len(left) + Len(right)) :
           (left \o right)[i] = IF i <= Len(left) THEN left[i] ELSE right[i - Len(left)]
  BY <1>2, <1>3, ConcatProperties, Zenon
<1>5. DeleteAt(s, k) = left \o right
  BY DEF DeleteAt, left, right
<1>6. Len(left) + Len(right) = Len(s) - 1
  BY <1>1, <1>2, <1>3
<1>7. ASSUME NEW i \in 1..(Len(s) - 1)
      PROVE  DeleteAt(s, k)[i] = IF i < k THEN s[i] ELSE s[i + 1]
  <2>1. CASE i < k
    <3>1. i \in 1..(k - 1)
      BY <2>1
    <3> QED
      BY <1>1, <1>2, <1>4, <1>5, <1>6, <2>1, <3>1
  <2>2. CASE ~(i < k)
    <3>1. i - (k - 1) \in 1..(Len(s) - k) /\ k + (i - (k - 1)) = i + 1
      BY <1>1, <2>2
    <3>2. right[i - (k - 1)] = s[i + 1]
      BY <1>3, <3>1
    <3> QED
      BY <1>1, <1>2, <1>4, <1>5, <1>6, <2>2, <3>2
  <2> QED
    BY <2>1, <2>2
<1> QED
  BY <1>4, <1>5, <1>6, <1>7

(* The counts that Wait compares with the length of the queue. *)
LEMMA CountIsNat == TypeOK => \A w \in Waits : count[w] \in Nat
<1> SUFFICES ASSUME TypeOK, NEW w \in Waits PROVE count[w] \in Nat
  OBVIOUS
<1>1. count[w] \in Counts \cup {0}
  BY DEF TypeOK
<1>2. CASE count[w] \in Counts
  BY <1>2, CountsAssumption, Zenon DEF CountsAssumption
<1>3. CASE count[w] = 0
  BY <1>3
<1> QED
  BY <1>1, <1>2, <1>3

(* Initially nothing is enqueued, and no Wait has started. *)
LEMMA InitIInv == Init => IInv
<1> SUFFICES ASSUME Init PROVE IInv
  OBVIOUS
<1> USE DEF Init
<1>1. TypeOK
  <2>1. pending \in Seq(Notifs)
    BY EmptySeq
  <2> QED
    BY <2>1, CountsAssumption, Zenon DEF TypeOK, Decisions, HandlerStates, WaitStates
<1>2. DOMAIN pending = {}
  OBVIOUS
<1>3. QueueInv
  BY <1>2 DEF QueueInv, ReleaseNeverBlocks, ArrivingIsFresh, ClosedIsEmpty, NoOrphanedHandler
<1>4. OwnerInWait /\ ParkingMustWait
  BY NoOneAssumption DEF OwnerInWait, ParkingMustWait
<1> QED
  BY <1>1, <1>3, <1>4 DEF IInv

(* The steps that leave the queue, the channels and the handlers alone. *)
LEMMA UnchangedQueueInv ==
  QueueInv /\ UNCHANGED <<queueVars, handler>> => QueueInv'
BY DEF QueueInv, queueVars, ReleaseNeverBlocks, ArrivingIsFresh, ClosedIsEmpty,
       NoOrphanedHandler, Held

(* The steps that leave the queue and the Wait calls alone. *)
LEMMA UnchangedWaitInv ==
  OwnerInWait /\ ParkingMustWait /\ UNCHANGED <<pending, closed, waitVars>> =>
    OwnerInWait' /\ ParkingMustWait'
BY DEF waitVars, OwnerInWait, ParkingMustWait

(* The steps of the handlers preserve the invariant.  Enqueue may make a   *)
(* parked Wait's test fail, which is why it broadcasts.                    *)
LEMMA HandlerIInv == IInv /\ HandlerNext => IInv'
<1> SUFFICES ASSUME IInv, HandlerNext PROVE IInv'
  OBVIOUS
<1> USE DEF IInv
<1>1. /\ Len(pending) \in Nat
      /\ pending \in [1..Len(pending) -> Notifs]
      /\ DOMAIN pending = 1..Len(pending)
  BY LenProperties DEF TypeOK
<1>2. CASE CancelSession
  BY <1>2, UnchangedQueueInv, UnchangedWaitInv
     DEF CancelSession, TypeOK, queueVars, waitVars
<1>3. ASSUME NEW h \in Notifs, Enqueue(h) PROVE IInv'
  <2> USE <1>3 DEF Enqueue, Unlocked
  <2>1. CASE closed
    <3>1. TypeOK'
      BY <2>1 DEF TypeOK, Send, Decisions, HandlerStates
    <3>2. QueueInv'
      BY <1>1, <2>1 DEF TypeOK, QueueInv, Send, ReleaseNeverBlocks, ArrivingIsFresh,
         ClosedIsEmpty, NoOrphanedHandler, Held
    <3>3. OwnerInWait' /\ ParkingMustWait'
      BY <2>1 DEF OwnerInWait, ParkingMustWait
    <3> QED
      BY <3>1, <3>2, <3>3
  <2>2. CASE ~closed
    <3>1. /\ pending' \in Seq(Notifs)
          /\ Len(pending') = Len(pending) + 1
          /\ DOMAIN pending' = 1..(Len(pending) + 1)
          /\ \A i \in 1..Len(pending) : pending'[i] = pending[i]
          /\ pending'[Len(pending) + 1] = h
      <4>1. pending' = Append(pending, h) /\ pending \in Seq(Notifs)
        BY <2>2 DEF TypeOK
      <4>2. pending' \in Seq(Notifs) /\ Len(pending') = Len(pending) + 1
        BY <4>1, AppendProperties
      <4>3. DOMAIN pending' = 1..(Len(pending) + 1)
        BY <4>2, LenProperties
      <4> QED
        BY <4>1, <4>2, <4>3, AppendProperties
    <3>2. TypeOK'
      BY <2>2, <3>1 DEF TypeOK, Broadcast, HandlerStates, WaitStates
    <3>3. ReleaseNeverBlocks'
      <4>1. /\ \A i \in 1..Len(pending) : pending[i] # h
            /\ releaseCh[h] = "empty"
            /\ releaseCh' = releaseCh
        BY <1>1, <2>2 DEF QueueInv, ArrivingIsFresh
      <4>2. /\ \A i, j \in 1..Len(pending) : pending[i] = pending[j] => i = j
            /\ \A i \in 1..Len(pending) : releaseCh[pending[i]] = "empty"
        BY <1>1 DEF QueueInv, ReleaseNeverBlocks
      <4>3. \A i \in DOMAIN pending' : i \in 1..Len(pending) \/ i = Len(pending) + 1
        BY <1>1, <3>1
      <4> HIDE <1>3
      <4> QED
        BY <3>1, <4>1, <4>2, <4>3 DEF ReleaseNeverBlocks
    <3>4. ArrivingIsFresh' /\ ClosedIsEmpty'
      BY <1>1, <2>2, <3>1 DEF TypeOK, QueueInv, ArrivingIsFresh, ClosedIsEmpty
    <3>5. NoOrphanedHandler'
      BY <1>1, <2>2, <3>1 DEF TypeOK, QueueInv, NoOrphanedHandler, Held
    <3>6. OwnerInWait' /\ ParkingMustWait'
      BY <1>1, <2>2, <3>1, NoOneAssumption
         DEF TypeOK, OwnerInWait, ParkingMustWait, Broadcast
    <3> QED
      BY <3>2, <3>3, <3>4, <3>5, <3>6 DEF QueueInv
  <2> QED
    BY <2>1, <2>2
<1>4. ASSUME NEW h \in Notifs, HandlerReleased(h) PROVE IInv'
  <2> USE <1>4 DEF HandlerReleased
  <2>1. TypeOK'
    BY DEF TypeOK, HandlerStates, waitVars
  <2>2. QueueInv'
    BY <1>1 DEF TypeOK, QueueInv, ReleaseNeverBlocks, ArrivingIsFresh, ClosedIsEmpty,
       NoOrphanedHandler, Held
  <2> QED
    BY <2>1, <2>2, UnchangedWaitInv
<1>5. ASSUME NEW h \in Notifs, HandlerFailSafe(h) PROVE IInv'
  <2> USE <1>5 DEF HandlerFailSafe
  <2>1. TypeOK'
    BY DEF TypeOK, HandlerStates, queueVars, waitVars
  <2>2. QueueInv'
    BY <1>1 DEF TypeOK, QueueInv, ReleaseNeverBlocks, ArrivingIsFresh, ClosedIsEmpty,
       NoOrphanedHandler, Held, queueVars
  <2> QED
    BY <2>1, <2>2, UnchangedWaitInv DEF queueVars
<1> QED
  BY <1>2, <1>3, <1>4, <1>5 DEF HandlerNext

(* A release takes notifications out of the queue and fills their channels *)
(* in the same critical section: the notifications that stay are still     *)
(* distinct, still empty-handed, and no released one stays.                *)
LEMMA ReleaseIInv == IInv /\ ReleaseNext => IInv'
<1> SUFFICES ASSUME IInv, ReleaseNext PROVE IInv'
  OBVIOUS
<1>1. /\ Len(pending) \in Nat
      /\ pending \in [1..Len(pending) -> Notifs]
      /\ DOMAIN pending = 1..Len(pending)
  BY LenProperties DEF IInv, TypeOK
<1>2. ASSUME NEW k \in DOMAIN pending, NEW d \in Decisions,
             Send({pending[k]}, d), pending' = DeleteAt(pending, k),
             UNCHANGED <<closed, handlerVars, waitVars>>
      PROVE  IInv'
  <2>1. /\ pending' \in Seq(Notifs)
        /\ Len(pending') = Len(pending) - 1
        /\ DOMAIN pending' = 1..(Len(pending) - 1)
        /\ \A i \in 1..(Len(pending) - 1) :
             pending'[i] = IF i < k THEN pending[i] ELSE pending[i + 1]
    <3>1. pending \in Seq(Notifs) /\ k \in 1..Len(pending)
      BY <1>1 DEF IInv, TypeOK
    <3>2. /\ pending' \in Seq(Notifs)
          /\ Len(pending') = Len(pending) - 1
      BY <1>2, <3>1, DeleteAtProperties
    <3>3. DOMAIN pending' = 1..(Len(pending) - 1)
      BY <3>2, LenProperties
    <3> QED
      BY <1>2, <3>1, <3>2, <3>3, DeleteAtProperties
  <2>2. \A i \in 1..Len(pending') : \E j \in 1..Len(pending) :
          pending'[i] = pending[j] /\ j # k /\ j = (IF i < k THEN i ELSE i + 1)
    BY <1>1, <2>1
  <2>3. \A j \in 1..Len(pending) : j # k =>
          \E i \in 1..Len(pending') : pending'[i] = pending[j]
    <3> SUFFICES ASSUME NEW j \in 1..Len(pending), j # k
                 PROVE  \E i \in 1..Len(pending') : pending'[i] = pending[j]
      OBVIOUS
    <3>1. CASE j < k
      BY <1>1, <2>1, <3>1
    <3>2. CASE j > k
      <4>1. j - 1 \in 1..Len(pending') /\ ~(j - 1 < k) /\ (j - 1) + 1 = j
        BY <1>1, <2>1, <3>2
      <4>2. pending'[j - 1] = pending[j]
        BY <2>1, <4>1
      <4> QED
        BY <4>1, <4>2
    <3> QED
      BY <1>1, <3>1, <3>2
  <2>4. TypeOK'
    BY <1>2, <2>1 DEF IInv, TypeOK, Send, Decisions, handlerVars, waitVars
  <2>5. /\ \A i, j \in 1..Len(pending) : pending[i] = pending[j] => i = j
        /\ \A i \in 1..Len(pending) : releaseCh[pending[i]] = "empty"
    BY <1>1 DEF IInv, QueueInv, ReleaseNeverBlocks
  <2>6. \A h \in Notifs : releaseCh'[h] = IF h = pending[k] THEN d ELSE releaseCh[h]
    BY <1>2 DEF Send
  <2>7. \A i, j \in 1..Len(pending') : pending'[i] = pending'[j] => i = j
    <3> TAKE i, j \in 1..Len(pending')
    <3> HAVE pending'[i] = pending'[j]
    <3>1. PICK a \in 1..Len(pending) :
            pending'[i] = pending[a] /\ a # k /\ a = (IF i < k THEN i ELSE i + 1)
      BY <2>2
    <3>2. PICK b \in 1..Len(pending) :
            pending'[j] = pending[b] /\ b # k /\ b = (IF j < k THEN j ELSE j + 1)
      BY <2>2
    <3>3. a = b
      BY <2>5, <3>1, <3>2, Zenon
    <3> QED
      BY <1>1, <2>1, <3>1, <3>2, <3>3
  <2>8. \A i \in 1..Len(pending') : releaseCh'[pending'[i]] = "empty"
    BY <1>1, <2>2, <2>5, <2>6
  <2>9. ArrivingIsFresh' /\ ClosedIsEmpty'
    <3>1. ~closed'
      <4>1. pending # <<>>
        BY <1>1
      <4> QED
        BY <1>2, <4>1 DEF IInv, QueueInv, ClosedIsEmpty
    <3>2. ASSUME NEW h \in Notifs, handler'[h] = "arriving"
          PROVE  releaseCh'[h] = "empty" /\ \A i \in 1..Len(pending') : pending'[i] # h
      <4>1. releaseCh[h] = "empty" /\ \A i \in 1..Len(pending) : pending[i] # h
        BY <1>1, <1>2, <3>2 DEF IInv, QueueInv, ArrivingIsFresh, handlerVars
      <4> QED
        BY <1>1, <2>2, <2>6, <4>1
    <3> QED
      BY <2>1, <3>1, <3>2 DEF ArrivingIsFresh, ClosedIsEmpty
  <2>10. NoOrphanedHandler'
    <3> SUFFICES ASSUME NEW h \in Notifs, handler'[h] = "held", releaseCh'[h] = "empty"
                 PROVE  h \in Held' /\ ~closed'
      BY DEF NoOrphanedHandler
    <3>1. h # pending[k] /\ releaseCh[h] = "empty"
      BY <2>6 DEF Decisions
    <3>2. PICK j \in 1..Len(pending) : h = pending[j] /\ ~closed
      BY <1>1, <1>2, <3>1 DEF IInv, QueueInv, NoOrphanedHandler, Held, handlerVars
    <3> QED
      BY <1>2, <2>1, <2>3, <3>1, <3>2, Zenon DEF Held
  <2>11. OwnerInWait' /\ ParkingMustWait'
    <3>1. \A w \in Waits : count[w] \in Nat
      BY CountIsNat DEF IInv
    <3>2. \A w \in Waits : Len(pending) < count[w] => Len(pending') < count[w]
      BY <1>1, <2>1, <3>1
    <3> QED
      BY <1>2, <3>2 DEF IInv, OwnerInWait, ParkingMustWait, waitVars
  <2> QED
    BY <2>1, <2>4, <2>7, <2>8, <2>9, <2>10, <2>11 DEF IInv, QueueInv, ReleaseNeverBlocks
<1>3. ASSUME NEW d \in Decisions, Unlocked, Send(Held, d), pending' = <<>>,
             UNCHANGED <<handler, cancelled, owner, count, expired, helper>>,
             \/ Broadcast /\ closed'
             \/ UNCHANGED <<wait, closed>>
      PROVE  IInv'
  <2>1. Len(pending') = 0 /\ DOMAIN pending' = {}
    BY <1>3
  <2>2. TypeOK'
    <3>1. pending' \in Seq(Notifs)
      BY <1>3, EmptySeq
    <3> QED
      BY <1>3, <3>1, Zenon DEF IInv, TypeOK, Send, Broadcast, Decisions, WaitStates
  <2>3. QueueInv'
    <3>1. ReleaseNeverBlocks' /\ ClosedIsEmpty'
      BY <1>3, <2>1 DEF ReleaseNeverBlocks, ClosedIsEmpty
    <3>2. ArrivingIsFresh'
      BY <1>3, <2>1 DEF IInv, QueueInv, ArrivingIsFresh, Send, Held
    <3>3. NoOrphanedHandler'
      <4> SUFFICES ASSUME NEW h \in Notifs, handler'[h] = "held", releaseCh'[h] = "empty"
                   PROVE  FALSE
        BY DEF NoOrphanedHandler
      <4>1. h \notin Held /\ releaseCh[h] = "empty"
        BY <1>3 DEF Send, Decisions
      <4> QED
        BY <1>3, <4>1 DEF IInv, QueueInv, NoOrphanedHandler
    <3> QED
      BY <3>1, <3>2, <3>3 DEF QueueInv
  <2>4. OwnerInWait' /\ ParkingMustWait'
    <3>1. CASE Broadcast /\ closed'
      <4>1. \A w \in Waits : wait'[w] \notin {"checking", "parking", "parked"}
        BY <1>3, <3>1, NoOneAssumption
           DEF IInv, TypeOK, OwnerInWait, Broadcast, Unlocked
      <4> QED
        BY <1>3, <4>1, NoOneAssumption DEF OwnerInWait, ParkingMustWait, Unlocked
    <3>2. CASE UNCHANGED <<wait, closed>>
      <4>1. \A w \in Waits : count[w] \in Nat
        BY CountIsNat DEF IInv
      <4>2. \A w \in Waits : Len(pending) < count[w] => Len(pending') < count[w]
        BY <1>1, <2>1, <4>1
      <4> QED
        BY <1>3, <3>2, <4>2 DEF IInv, OwnerInWait, ParkingMustWait
    <3> QED
      BY <1>3, <3>1, <3>2
  <2> QED
    BY <2>2, <2>3, <2>4 DEF IInv
<1>4. ASSUME NEW d \in Decisions, ReleaseOne(d) PROVE IInv'
  <2>1. 1 \in DOMAIN pending /\ Head(pending) = pending[1]
    BY <1>1, <1>4 DEF ReleaseOne, IInv, TypeOK
  <2>2. Tail(pending) = DeleteAt(pending, 1)
    <3>1. pending \in Seq(Notifs) /\ pending # <<>>
      BY <1>4 DEF ReleaseOne, IInv, TypeOK
    <3>2. Tail(pending) = SubSeq(pending, 2, Len(pending)) /\ Tail(pending) \in Seq(Notifs)
      BY <3>1, TailIsSubSeq, HeadTailProperties
    <3>3. SubSeq(pending, 1, 1 - 1) = <<>>
      BY SubSeqEmpty
    <3>4. <<>> \o Tail(pending) = Tail(pending)
      BY <3>2, ConcatEmptySeq
    <3>5. 1 + 1 = 2
      OBVIOUS
    <3> QED
      BY <3>2, <3>3, <3>4, <3>5, Zenon DEF DeleteAt
  <2>3. /\ Send({pending[1]}, d)
        /\ pending' = DeleteAt(pending, 1)
        /\ UNCHANGED <<closed, handlerVars, waitVars>>
    BY <1>4, <2>1, <2>2, Zenon DEF ReleaseOne
  <2> QED
    BY <1>2, <2>1, <2>3
<1>5. ASSUME NEW d \in Decisions, NEW j \in DOMAIN pending, ReleaseByIndex(j - 1, d)
      PROVE  IInv'
  <2>1. (j - 1) + 1 = j
    BY <1>1
  <2>2. /\ Send({pending[j]}, d)
        /\ pending' = DeleteAt(pending, j)
        /\ UNCHANGED <<closed, handlerVars, waitVars>>
    BY <1>5, <2>1, Zenon DEF ReleaseByIndex
  <2> QED
    BY <1>2, <2>2
<1>6. ASSUME NEW d \in Decisions, ReleaseAll(d) PROVE IInv'
  BY <1>3, <1>6 DEF ReleaseAll, handlerVars, waitVars
<1>7. CASE Close
  BY <1>3, <1>7 DEF Close, handlerVars, Decisions
<1> QED
  BY <1>4, <1>5, <1>6, <1>7 DEF ReleaseNext

(* The steps of the Wait calls and of their helpers do not touch the queue. *)
(* A Wait goes on to park only from a test made with q.mu in its hands.     *)
LEMMA WaitIInv == IInv /\ WaitNext => IInv'
<1> SUFFICES ASSUME IInv, NEW w \in Waits,
                    \/ \E c \in Counts : WaitCall(w, c)
                    \/ WaitStep(w) \/ Expire(w) \/ HelperBroadcast(w) \/ HelperDone(w)
             PROVE  IInv'
  BY DEF WaitNext
<1>1. UNCHANGED <<queueVars, handlerVars>>
  BY DEF WaitCall, WaitStep, WaitLock, WaitCheck, WaitPark, Expire, HelperBroadcast, HelperDone
<1>2. QueueInv'
  BY <1>1, UnchangedQueueInv DEF IInv, handlerVars
<1>3. TypeOK /\ OwnerInWait /\ ParkingMustWait
  BY DEF IInv
<1>4. ASSUME NEW c \in Counts, WaitCall(w, c) PROVE IInv'
  <2>1. TypeOK'
    BY <1>1, <1>3, <1>4 DEF WaitCall, TypeOK, WaitStates, queueVars, handlerVars
  <2>2. OwnerInWait'
    BY <1>3, <1>4 DEF WaitCall, TypeOK, OwnerInWait
  <2>3. ParkingMustWait'
    BY <1>1, <1>3, <1>4 DEF WaitCall, TypeOK, ParkingMustWait, queueVars
  <2> QED
    BY <1>2, <2>1, <2>2, <2>3 DEF IInv
<1>5. CASE WaitLock(w)
  <2>1. TypeOK'
    BY <1>1, <1>3, <1>5 DEF WaitLock, Unlocked, TypeOK, WaitStates, queueVars, handlerVars
  <2>2. OwnerInWait'
    BY <1>3, <1>5, NoOneAssumption DEF WaitLock, Unlocked, TypeOK, OwnerInWait
  <2>3. ParkingMustWait'
    BY <1>1, <1>3, <1>5 DEF WaitLock, Unlocked, TypeOK, ParkingMustWait, queueVars
  <2> QED
    BY <1>2, <2>1, <2>2, <2>3 DEF IInv
<1>6. CASE WaitCheck(w)
  <2>1. TypeOK'
    BY <1>1, <1>3, <1>6 DEF WaitCheck, TypeOK, WaitStates, queueVars, handlerVars
  <2>2. OwnerInWait'
    BY <1>3, <1>6, NoOneAssumption DEF WaitCheck, TypeOK, OwnerInWait
  <2>3. ParkingMustWait'
    BY <1>1, <1>3, <1>6 DEF WaitCheck, TypeOK, ParkingMustWait, queueVars
  <2> QED
    BY <1>2, <2>1, <2>2, <2>3 DEF IInv
<1>7. CASE WaitPark(w)
  <2>1. TypeOK'
    BY <1>1, <1>3, <1>7 DEF WaitPark, TypeOK, WaitStates, queueVars, handlerVars
  <2>2. OwnerInWait'
    BY <1>3, <1>7, NoOneAssumption DEF WaitPark, TypeOK, OwnerInWait
  <2>3. ParkingMustWait'
    BY <1>1, <1>3, <1>7 DEF WaitPark, TypeOK, ParkingMustWait, queueVars
  <2> QED
    BY <1>2, <2>1, <2>2, <2>3 DEF IInv
<1>8. CASE Expire(w) \/ HelperDone(w)
  <2>1. TypeOK'
    BY <1>1, <1>3, <1>8 DEF Expire, HelperDone, TypeOK, WaitStates, queueVars, handlerVars
  <2>2. OwnerInWait'
    BY <1>3, <1>8 DEF Expire, HelperDone, TypeOK, OwnerInWait
  <2>3. ParkingMustWait'
    BY <1>1, <1>3, <1>8 DEF Expire, HelperDone, TypeOK, ParkingMustWait, queueVars
  <2> QED
    BY <1>2, <2>1, <2>2, <2>3 DEF IInv
<1>9. CASE HelperBroadcast(w)
  <2>1. TypeOK'
    BY <1>1, <1>3, <1>9 DEF HelperBroadcast, Broadcast, TypeOK, WaitStates, queueVars, handlerVars
  <2>2. OwnerInWait'
    BY <1>3, <1>9 DEF HelperBroadcast, Broadcast, TypeOK, OwnerInWait
  <2>3. ParkingMustWait'
    BY <1>1, <1>3, <1>9 DEF HelperBroadcast, Broadcast, TypeOK, ParkingMustWait, queueVars
  <2> QED
    BY <1>2, <2>1, <2>2, <2>3 DEF IInv
<1> QED
  BY <1>4, <1>5, <1>6, <1>7, <1>8, <1>9 DEF WaitStep

-----------------------------------------------------------------------------
(* The inductive invariant of the hold queue. *)
THEOREM HoldQueueInvariant == Spec => []IInv
<1>1. IInv /\ [Next]_vars => IInv'
  <2>1. IInv /\ UNCHANGED vars => IInv'
    BY DEF IInv, vars, queueVars, handlerVars, waitVars, TypeOK, QueueInv, ReleaseNeverBlocks,
       ArrivingIsFresh, ClosedIsEmpty, NoOrphanedHandler, Held, OwnerInWait, ParkingMustWait
  <2> QED
    BY <2>1, HandlerIInv, ReleaseIInv, WaitIInv DEF Next
<1> QED
  BY InitIInv, <1>1, PTL DEF Spec

(* Type correctness of engine.HoldQueue, its handlers and its waiters. *)
THEOREM TypeCorrect == Spec => []TypeOK
BY HoldQueueInvariant, PTL DEF IInv

(* No method of the queue ever blocks on a full ReleaseCh with q.mu held,  *)
(* however many handlers, waiters and releasers interleave.                *)
THEOREM SendsNeverBlock == Spec => []ReleaseNeverBlocks
<1>1. IInv => ReleaseNeverBlocks
  BY DEF IInv, QueueInv
<1> QED
  BY HoldQueueInvariant, <1>1, PTL

(* A handler blocked on ReleaseCh has its decision or is reachable by      *)
(* Close, whatever the releasers did.                                      *)
THEOREM HandlersReachable == Spec => []NoOrphanedHandler
<1>1. IInv => NoOrphanedHandler
  BY DEF IInv, QueueInv
<1> QED
  BY HoldQueueInvariant, <1>1, PTL

(* No wakeup by Enqueue or Close is lost. *)
THEOREM NoLostWakeup == Spec => []ParkedMustWait
<1>1. IInv => ParkedMustWait
  BY DEF IInv, ParkingMustWait, ParkedMustWait
<1> QED
  BY HoldQueueInvariant, <1>1, PTL

----------------------------------------------------------------------------
(* Every run the suite owes is a result or an abort, and exit code 0 is     *)
(* earned, for suites of every size, any number of plan leaves and any      *)
(* verdicts (Suite).                                                        *)

CONSTANTS Sizes, MaxLeaves, Seeds

VARIABLES size, spc, scfg, seedFile, test, srun, testRuns, leaves, leafResults, suite, rows,
          interrupted, spoisoned, exit, tallied, planned

INSTANCE FiniteSetTheorems

S == INSTANCE Suite WITH pc <- spc, cfg <- scfg, run <- srun, poisoned <- spoisoned

(* One leaf's verdict as runTestFanout returns it.                          *)
LeafResults == [test : Nat, result : S!Verdicts]

(* The selected tests up to the n-th that have no result in rs.             *)
Unrun(n, rs) == {t \in scfg.selected : t <= n /\ \A i \in DOMAIN rs : rs[i].test # t}

(* The counting of the two modules is one.                                  *)
LEMMA SuiteCardinality == ASSUME NEW T PROVE S!Cardinality(T) = Cardinality(T)
BY DEF S!Cardinality, Cardinality

(* What the suite counts: the results of some kinds.                        *)
LEMMA CountedIs ==
  ASSUME NEW rs, NEW K
  PROVE  S!Counted(rs, K) = Cardinality({i \in DOMAIN rs : rs[i].result \in K})
BY SuiteCardinality, Zenon DEF S!Counted

(* Counting is counting: a number, of finitely many.                        *)
LEMMA CountedType ==
  ASSUME NEW rs \in Seq(LeafResults), NEW K
  PROVE  IsFiniteSet({i \in DOMAIN rs : rs[i].result \in K}) /\ S!Counted(rs, K) \in Nat
<1>1. IsFiniteSet(1..Len(rs)) /\ DOMAIN rs = 1..Len(rs)
  BY FS_Interval
<1>2. {i \in DOMAIN rs : rs[i].result \in K} \in SUBSET (1..Len(rs))
  BY <1>1
<1>3. IsFiniteSet({i \in DOMAIN rs : rs[i].result \in K})
  BY <1>1, <1>2, FS_Subset
<1>4. QED
  BY <1>3, CountedIs, FS_CardinalityType

(* Kinds that exclude each other add up.                                    *)
LEMMA CountedSplits ==
  ASSUME NEW rs \in Seq(LeafResults), NEW K, NEW M, K \cap M = {}, NEW L, L = K \cup M
  PROVE  S!Counted(rs, L) = S!Counted(rs, K) + S!Counted(rs, M)
<1> DEFINE A == {i \in DOMAIN rs : rs[i].result \in K}
           B == {i \in DOMAIN rs : rs[i].result \in M}
           C == {i \in DOMAIN rs : rs[i].result \in L}
<1>1. IsFiniteSet(A) /\ IsFiniteSet(B) /\ Cardinality(A) \in Nat /\ Cardinality(B) \in Nat
  BY CountedType, FS_CardinalityType, Zenon
<1>2. C = A \cup B /\ A \cap B = {}
  OBVIOUS
<1>3. Cardinality(C) = Cardinality(A) + Cardinality(B) - Cardinality(A \cap B)
  BY <1>1, <1>2, FS_Union, Zenon
<1>4. Cardinality(A \cap B) = 0
  BY <1>2, FS_EmptySet, Zenon
<1> HIDE DEF A, B, C
<1>5. Cardinality(C) = Cardinality(A) + Cardinality(B)
  BY <1>1, <1>3, <1>4
<1>6. QED
  BY <1>5, CountedIs, Zenon DEF A, B, C

(* Four counters and what one run adds to each.                             *)
LEMMA FourSums ==
  ASSUME NEW a \in Int, NEW b \in Int, NEW c \in Int, NEW d \in Int,
         NEW p \in Int, NEW f \in Int, NEW q \in Int, NEW h \in Int
  PROVE  (a + p) + (b + f) + (c + q) + (d + h) = (a + b + c + d) + (p + q + h + f)
OBVIOUS

(* Every result is of one of the four kinds the summary line counts.        *)
LEMMA CountedAll ==
  ASSUME NEW rs \in Seq(LeafResults)
  PROVE  S!Counted(rs, {"pass"}) + S!Counted(rs, {"inconclusive"}) + S!Counted(rs, {"halted"})
            + S!Counted(rs, {"fail", "error"}) = Len(rs)
<1>1. S!Counted(rs, S!Verdicts) = Len(rs)
  <2>1. {i \in DOMAIN rs : rs[i].result \in S!Verdicts} = 1..Len(rs)
    <3>1. DOMAIN rs = 1..Len(rs) /\ \A i \in 1..Len(rs) : rs[i] \in LeafResults
      OBVIOUS
    <3>2. \A r \in LeafResults : r.result \in S!Verdicts
      BY DEF LeafResults
    <3>3. QED
      BY ONLY <3>1, <3>2
  <2>2. Cardinality(1..Len(rs)) = Len(rs)
    <3>1. Len(rs) \in Nat
      OBVIOUS
    <3>2. Cardinality(1..Len(rs)) = IF 1 > Len(rs) THEN 0 ELSE Len(rs) - 1 + 1
      BY <3>1, FS_Interval
    <3>3. QED
      BY ONLY <3>1, <3>2
  <2>3. QED
    BY <2>1, <2>2, CountedIs, Zenon
<1>2. /\ S!Verdicts = {"pass", "inconclusive", "halted"} \cup {"fail", "error"}
      /\ {"pass", "inconclusive", "halted"} = {"pass", "inconclusive"} \cup {"halted"}
      /\ {"pass", "inconclusive"} = {"pass"} \cup {"inconclusive"}
      /\ {"pass", "inconclusive", "halted"} \cap {"fail", "error"} = {}
      /\ {"pass", "inconclusive"} \cap {"halted"} = {} /\ {"pass"} \cap {"inconclusive"} = {}
  BY DEF S!Verdicts
<1>3. S!Counted(rs, S!Verdicts) = S!Counted(rs, {"pass", "inconclusive", "halted"}) + S!Counted(rs, {"fail", "error"})
  <2> HIDE DEF S!Verdicts
  <2> QED  BY <1>2, CountedSplits
<1>4. S!Counted(rs, {"pass", "inconclusive", "halted"}) = S!Counted(rs, {"pass", "inconclusive"}) + S!Counted(rs, {"halted"})
  BY <1>2, CountedSplits
<1>5. S!Counted(rs, {"pass", "inconclusive"}) = S!Counted(rs, {"pass"}) + S!Counted(rs, {"inconclusive"})
  BY <1>2, CountedSplits
<1>6. /\ S!Counted(rs, {"pass"}) \in Nat /\ S!Counted(rs, {"inconclusive"}) \in Nat
      /\ S!Counted(rs, {"halted"}) \in Nat /\ S!Counted(rs, {"fail", "error"}) \in Nat
  BY CountedType, Zenon
<1>7. QED
  BY ONLY <1>1, <1>3, <1>4, <1>5, <1>6

(* Counting in one list after another adds up.                              *)
LEMMA CountedConcat ==
  ASSUME NEW v \in Seq(LeafResults), NEW w \in Seq(LeafResults), NEW K
  PROVE  S!Counted(v \o w, K) = S!Counted(v, K) + S!Counted(w, K)
<1> DEFINE A == {i \in DOMAIN v : v[i].result \in K}
           B == {i \in DOMAIN w : w[i].result \in K}
           C == {i \in DOMAIN (v \o w) : (v \o w)[i].result \in K}
           D == {i \in (Len(v) + 1)..(Len(v) + Len(w)) : w[i - Len(v)].result \in K}
           f == [i \in B |-> i + Len(v)]
<1>1. /\ Len(v) \in Nat /\ Len(w) \in Nat
      /\ DOMAIN v = 1..Len(v) /\ DOMAIN w = 1..Len(w)
      /\ DOMAIN (v \o w) = 1..(Len(v) + Len(w))
      /\ \A i \in 1..Len(v) : (v \o w)[i] = v[i]
      /\ \A i \in (Len(v) + 1)..(Len(v) + Len(w)) : (v \o w)[i] = w[i - Len(v)]
  OBVIOUS
<1>2. C = A \cup D /\ A \cap D = {}
  BY <1>1
<1>3. IsFiniteSet(A) /\ IsFiniteSet(B) /\ Cardinality(A) \in Nat /\ Cardinality(B) \in Nat
  BY CountedType, FS_CardinalityType, Zenon
<1>4. f \in Bijection(B, D)
  <2>1. f \in [B -> D]
    BY <1>1
  <2>2. \A i, j \in B : f[i] = f[j] => i = j
    BY <1>1
  <2>3. \A d \in D : \E i \in B : f[i] = d
    <3> TAKE d \in D
    <3>1. d - Len(v) \in B /\ f[d - Len(v)] = d
      BY <1>1
    <3>2. QED
      BY <3>1, Zenon
  <2>4. QED
    BY <2>1, <2>2, <2>3 DEF Bijection, Injection, Surjection, IsInjective
<1>5. IsFiniteSet(D) /\ Cardinality(D) = Cardinality(B)
  BY <1>3, <1>4, FS_Bijection DEF ExistsBijection
<1>6. Cardinality(C) = Cardinality(A) + Cardinality(D) - Cardinality(A \cap D)
  BY <1>2, <1>3, <1>5, FS_Union, Zenon
<1>7. Cardinality(A \cap D) = 0
  BY <1>2, FS_EmptySet, Zenon
<1> HIDE DEF A, B, C, D, f
<1>8. Cardinality(C) = Cardinality(A) + Cardinality(B)
  BY <1>3, <1>5, <1>6, <1>7
<1>9. QED
  BY <1>8, CountedIs, Zenon DEF A, B, C

----------------------------------------------------------------------------
(* Finitely many tests are without a result.                                *)
LEMMA UnrunIsFinite ==
  ASSUME NEW m \in Nat, scfg.selected \subseteq 1..m, NEW n, NEW rs
  PROVE  IsFiniteSet(Unrun(n, rs)) /\ Cardinality(Unrun(n, rs)) \in Nat
<1>1. Unrun(n, rs) \in SUBSET (1..m)
  BY DEF Unrun
<1>2. IsFiniteSet(1..m)
  BY FS_Interval
<1>3. IsFiniteSet(Unrun(n, rs))
  BY <1>1, <1>2, FS_Subset
<1>4. QED
  BY <1>3, FS_CardinalityType

(* One test more is at most one test more without a result.                 *)
LEMMA UnrunGrows ==
  ASSUME NEW m \in Nat, scfg.selected \subseteq 1..m, NEW n \in Nat, NEW rs
  PROVE  /\ Cardinality(Unrun(n + 1, rs)) <= Cardinality(Unrun(n, rs)) + 1
         /\ n + 1 \notin scfg.selected => Unrun(n + 1, rs) = Unrun(n, rs)
<1>1. Unrun(n + 1, rs) \in SUBSET (Unrun(n, rs) \cup {n + 1})
  BY DEF Unrun
<1>2. IsFiniteSet(Unrun(n, rs)) /\ Cardinality(Unrun(n, rs)) \in Nat
  BY UnrunIsFinite
<1>3. /\ IsFiniteSet(Unrun(n, rs) \cup {n + 1})
      /\ Cardinality(Unrun(n, rs) \cup {n + 1}) =
           IF n + 1 \in Unrun(n, rs) THEN Cardinality(Unrun(n, rs)) ELSE Cardinality(Unrun(n, rs)) + 1
  BY <1>2, FS_AddElement, Zenon
<1>4. Cardinality(Unrun(n + 1, rs)) <= Cardinality(Unrun(n, rs) \cup {n + 1})
  BY <1>1, <1>3, FS_Subset, Zenon
<1>5. Cardinality(Unrun(n + 1, rs)) \in Nat
  BY UnrunIsFinite
<1>6. n + 1 \notin scfg.selected => Unrun(n + 1, rs) = Unrun(n, rs)
  BY DEF Unrun
<1>7. QED
  BY <1>2, <1>3, <1>4, <1>5, <1>6

(* Fewer tests, fewer of them without a result.                             *)
LEMMA UnrunOrdered ==
  ASSUME NEW m \in Nat, scfg.selected \subseteq 1..m, NEW n \in Nat, NEW rs
  PROVE  Cardinality(Unrun(n, rs)) <= Cardinality(Unrun(n + 1, rs))
<1>1. Unrun(n, rs) \in SUBSET Unrun(n + 1, rs)
  BY DEF Unrun
<1>2. QED
  BY <1>1, UnrunIsFinite, FS_Subset, Zenon

(* Results of test n leave no more tests without one than there were before *)
(* it.                                                                      *)
LEMMA UnrunShrinks ==
  ASSUME NEW m \in Nat, scfg.selected \subseteq 1..m, NEW n \in Nat,
         NEW rs \in Seq(LeafResults), NEW ls \in Seq(LeafResults), ls # <<>>,
         \A i \in DOMAIN ls : ls[i].test = n + 1
  PROVE  Cardinality(Unrun(n + 1, rs \o ls)) <= Cardinality(Unrun(n, rs))
<1>1. /\ 1 \in DOMAIN ls /\ Len(rs) \in Nat /\ Len(ls) \in Nat
      /\ DOMAIN rs = 1..Len(rs) /\ DOMAIN ls = 1..Len(ls)
      /\ DOMAIN (rs \o ls) = 1..(Len(rs) + Len(ls))
      /\ \A i \in 1..Len(rs) : (rs \o ls)[i] = rs[i]
      /\ (rs \o ls)[Len(rs) + 1] = ls[1]
  OBVIOUS
<1>2. (rs \o ls)[Len(rs) + 1].test = n + 1 /\ Len(rs) + 1 \in DOMAIN (rs \o ls)
  BY <1>1
<1>3. Unrun(n + 1, rs \o ls) \in SUBSET Unrun(n, rs)
  <2> SUFFICES ASSUME NEW t \in Unrun(n + 1, rs \o ls) PROVE t \in Unrun(n, rs)
    OBVIOUS
  <2>1. t \in scfg.selected /\ t <= n + 1 /\ \A i \in DOMAIN (rs \o ls) : (rs \o ls)[i].test # t
    BY DEF Unrun
  <2>2. t # n + 1
    BY <1>2, <2>1
  <2>3. t \in Nat /\ t <= n
    BY <2>1, <2>2
  <2>4. \A i \in DOMAIN rs : rs[i].test # t
    BY <1>1, <2>1
  <2>5. QED
    BY <2>1, <2>3, <2>4 DEF Unrun
<1>4. QED
  BY <1>3, UnrunIsFinite, FS_Subset, Zenon

----------------------------------------------------------------------------
(* The counters; a blamed shutdown may take one back below zero.            *)
SuiteResult == [matched : Nat, pass : Int, fail : Int, inconclusive : Int, halted : Int, aborted : Nat]

(* The types of what the argument is about.                                 *)
SuiteTypes ==
    /\ size \in S!SizeType
    /\ scfg \in [selected : SUBSET (1..size.tests), failOnly : BOOLEAN, runs : Nat, exploreAll : BOOLEAN,
                cliSeed : SUBSET Nat, seed : SUBSET Nat]
    /\ seedFile \subseteq Nat /\ suite \in SuiteResult
    /\ tallied \in Seq(LeafResults) /\ leafResults \in Seq(LeafResults)
    /\ planned \in Nat /\ leaves \in Nat /\ test \in Nat /\ srun \in Nat

(* The counters of the summary line agree with what was tallied, except     *)
(* that a failed shutdown may be charged to the last row.                   *)
SuiteSum == suite.pass + suite.fail + suite.inconclusive + suite.halted
Agree ==
    /\ SuiteSum = Len(tallied)
    /\ suite.fail = S!Counted(tallied, {"fail", "error"})
    /\ suite.inconclusive = S!Counted(tallied, {"inconclusive"})
SuiteCounts ==
    \/ Agree
    \/ spc \in {"exit", "done"} /\ spoisoned /\ SuiteSum \in {Len(tallied), Len(tallied) + 1}

(* What is planned and the tests up to the n-th without a result are within *)
(* what was tallied and what was aborted, and the r results on their way.   *)
Within(n, r) == planned + Cardinality(Unrun(n, tallied)) <= Len(tallied) + suite.aborted + r

(* Where the loops stand and what they owe there.                           *)
Ledger ==
    /\ spc \in {"boot", "tests", "exit", "done"} => Within(test, 0)
    /\ spc \in {"exit", "done"} => test = size.tests
    /\ spc \in {"runs", "discover", "leaves", "tally"} => test > 0
    /\ spc \in {"runs", "discover"} => Within(test - 1, 0)
    /\ spc = "runs" => IF srun = 0 THEN testRuns \in Nat \ {0} ELSE Within(test, 0)
    /\ spc = "leaves" => Within(test - 1, leaves)
    /\ spc = "tally" => Within(test - 1, Len(leafResults)) /\ leafResults # <<>>
    /\ spc \in {"leaves", "tally"} => \A i \in DOMAIN leafResults : leafResults[i].test = test

(* Nothing is tallied that was not planned.                                 *)
Planned ==
    /\ Len(tallied) <= planned
    /\ spc = "leaves" => Len(tallied) + leaves <= planned /\ Len(leafResults) < leaves
    /\ spc = "tally" => Len(tallied) + Len(leafResults) <= planned

(* An exit code is given once, and 0 only to counters that are clean.       *)
Clean0 ==
    /\ exit # {} => spc = "done"
    /\ exit = {0} => ~spoisoned /\ suite.fail = 0 /\ suite.inconclusive = 0

(* The inductive invariant.                                                 *)
SuiteInv == SuiteTypes /\ SuiteCounts /\ Ledger /\ Planned /\ Clean0

(* A suite that has not begun owes nothing.                                 *)
LEMMA SuiteInit == ASSUME S!SuiteConstants, S!Init PROVE SuiteInv
<1>1. SuiteTypes
  BY DEF S!SuiteConstants, S!SizeType, S!Init, SuiteTypes, SuiteResult, S!Tests
<1>2. tallied = <<>> /\ Len(tallied) = 0 /\ tallied \in Seq(LeafResults)
  BY DEF S!Init
<1>3. \A K : S!Counted(tallied, K) = 0
  <2> TAKE K
  <2>1. {i \in DOMAIN tallied : tallied[i].result \in K} = {}
    BY <1>2
  <2>2. QED
    BY <2>1, CountedIs, FS_EmptySet, Zenon
<1>4. SuiteCounts
  BY <1>2, <1>3 DEF S!Init, SuiteCounts, Agree, SuiteSum
<1>5. Unrun(0, tallied) = {} /\ Cardinality(Unrun(0, tallied)) = 0
  <2>1. Unrun(0, tallied) = {}
    BY <1>1 DEF SuiteTypes, Unrun, S!SizeType
  <2>2. QED
    BY <2>1, FS_EmptySet
<1>6. Within(test, 0)
  BY <1>2, <1>5 DEF S!Init, Within
<1>7. QED
  BY <1>1, <1>2, <1>4, <1>6 DEF SuiteInv, S!Init, Ledger, Planned, Clean0

(* A count of what was tallied is a number.                                 *)
LEMMA CountedOfTallied ==
  ASSUME SuiteTypes PROVE \A K : S!Counted(tallied, K) \in Nat /\ S!Counted(leafResults, K) \in Nat
BY CountedType, Zenon DEF SuiteTypes

(* The parts of the typed state.                                            *)
LEMMA SuiteParts ==
  ASSUME SuiteTypes
  PROVE  /\ size.tests \in Nat /\ scfg.selected \subseteq 1..size.tests /\ scfg.runs \in Nat
         /\ Len(tallied) \in Nat /\ Len(leafResults) \in Nat
         /\ suite.matched + 1 \in Nat /\ suite.aborted + 1 \in Nat /\ suite.aborted \in Nat
         /\ suite.pass \in Int /\ suite.fail \in Int /\ suite.inconclusive \in Int /\ suite.halted \in Int
<1>1. size.tests \in Nat /\ scfg.selected \subseteq 1..size.tests /\ scfg.runs \in Nat
  BY DEF SuiteTypes, S!SizeType
<1>2. Len(tallied) \in Nat /\ Len(leafResults) \in Nat
  BY DEF SuiteTypes
<1>3. suite \in SuiteResult
  BY DEF SuiteTypes
<1>4. /\ suite.matched + 1 \in Nat /\ suite.aborted + 1 \in Nat /\ suite.aborted \in Nat
      /\ suite.pass \in Int /\ suite.fail \in Int /\ suite.inconclusive \in Int /\ suite.halted \in Int
  BY ONLY <1>3 DEF SuiteResult
<1>5. QED
  BY <1>1, <1>2, <1>4

(* The empty list of results.                                               *)
LEMMA NoResults == <<>> \in Seq(LeafResults) /\ DOMAIN <<>> = {} /\ Len(<<>>) = 0
OBVIOUS

(* A step that leaves the results and the counters alone but for the tests  *)
(* that matched and what was aborted.                                       *)
LEMMA StillAgree ==
  ASSUME SuiteInv, spc \notin {"exit", "done"}, tallied' = tallied,
         suite'.pass = suite.pass, suite'.fail = suite.fail, suite'.inconclusive = suite.inconclusive,
         suite'.halted = suite.halted
  PROVE  SuiteCounts'
BY DEF SuiteInv, SuiteCounts, Agree, SuiteSum

(* ResolveSeed touches the seed and its cache only.                         *)
LEMMA ResolveSeedKeeps == ASSUME SuiteInv, S!SuiteConstants, S!ResolveSeed, UNCHANGED size PROVE SuiteInv'
<1>1. SuiteTypes'
  <2>1. PICK x \in Nat : scfg' = [scfg EXCEPT !.seed = {x}] /\ seedFile' \in {seedFile, {x}}
    <3>1. scfg.cliSeed \subseteq Nat /\ seedFile \subseteq Nat /\ Seeds \subseteq Nat
      BY DEF SuiteInv, SuiteTypes, S!SuiteConstants
    <3>2. QED
      BY <3>1, Zenon DEF S!ResolveSeed
  <2>2. scfg' \in [selected : SUBSET (1..size.tests), failOnly : BOOLEAN, runs : Nat, exploreAll : BOOLEAN,
                  cliSeed : SUBSET Nat, seed : SUBSET Nat]
    BY <2>1 DEF SuiteInv, SuiteTypes
  <2>3. seedFile' \subseteq Nat
    BY <2>1 DEF SuiteInv, SuiteTypes
  <2>4. QED
    BY <2>2, <2>3, Zenon DEF SuiteInv, SuiteTypes, S!ResolveSeed, S!loop, S!report
<1>2. SuiteCounts'
  BY StillAgree DEF S!ResolveSeed, S!report
<1>3. Unrun(test, tallied)' = Unrun(test, tallied)
  BY DEF SuiteInv, SuiteTypes, S!ResolveSeed, S!loop, S!report, Unrun
<1>4. QED
  BY <1>1, <1>2, <1>3 DEF SuiteInv, S!ResolveSeed, S!loop, S!report, Ledger, Within, Planned, Clean0

(* A signal changes nothing that is counted.                                *)
LEMMA InterruptKeeps == ASSUME SuiteInv, S!Interrupt, UNCHANGED size PROVE SuiteInv'
<1>1. UNCHANGED <<spc, scfg, seedFile, test, srun, testRuns, leaves, leafResults, suite, rows, tallied,
                  planned, spoisoned, exit>>
  BY DEF S!Interrupt, S!loop, S!report
<1>2. SuiteTypes' /\ Clean0' /\ Planned'
  BY <1>1 DEF SuiteInv, SuiteTypes, Clean0, Planned
<1>3. SuiteCounts'
  BY <1>1 DEF SuiteInv, SuiteCounts, Agree, SuiteSum
<1>4. Ledger'
  BY <1>1 DEF SuiteInv, Ledger, Within, Unrun
<1>5. QED
  BY <1>2, <1>3, <1>4 DEF SuiteInv

(* A test that is passed over is unselected, or one more abort.             *)
LEMMA NextTestKeeps == ASSUME SuiteInv, S!NextTest, UNCHANGED size PROVE SuiteInv'
<1>1. /\ size.tests \in Nat /\ scfg.selected \subseteq 1..size.tests /\ scfg.runs \in Nat /\ scfg' = scfg /\ seedFile' = seedFile
      /\ test \in Nat /\ test' = test + 1 /\ tallied' = tallied /\ planned' = planned /\ exit' = exit
      /\ spoisoned' = spoisoned /\ spc = "tests" /\ leaves' = leaves /\ leafResults' = leafResults
      /\ suite \in SuiteResult /\ suite.matched + 1 \in Nat /\ suite.aborted + 1 \in Nat /\ planned \in Nat /\ Len(tallied) \in Nat /\ srun \in Nat
  <2>1. SuiteTypes
    BY DEF SuiteInv
  <2>2. QED
    BY <2>1, SuiteParts DEF SuiteTypes, S!NextTest
<1>2. /\ Cardinality(Unrun(test + 1, tallied)) <= Cardinality(Unrun(test, tallied)) + 1
      /\ test + 1 \notin scfg.selected => Unrun(test + 1, tallied) = Unrun(test, tallied)
      /\ Cardinality(Unrun(test, tallied)) \in Nat /\ Cardinality(Unrun(test + 1, tallied)) \in Nat
  BY <1>1, UnrunGrows, UnrunIsFinite
<1>3. Unrun(test, tallied)' = Unrun(test + 1, tallied) /\ Unrun(test - 1, tallied)' = Unrun(test, tallied)
  <2>1. test' - 1 = test
    BY <1>1
  <2>2. QED
    BY <1>1, <2>1 DEF Unrun
<1>4. Within(test, 0) /\ suite.aborted \in Nat
  BY <1>1 DEF SuiteInv, Ledger, SuiteResult
<1>5. CASE test' \notin scfg.selected
  <2>1. UNCHANGED <<spc, suite, srun, testRuns>>
    BY <1>5 DEF S!NextTest
  <2>2. SuiteCounts'
    BY <1>1, <2>1, StillAgree
  <2>3. Within(test, 0)'
    BY <1>1, <1>2, <1>3, <1>4, <1>5, <2>1 DEF Within
  <2>4. SuiteTypes'
    BY <1>1, <2>1, <2>2, <2>3, NoResults DEF SuiteInv, SuiteTypes
  <2>5. Ledger'
    BY <1>1, <2>1, <2>2, <2>3 DEF SuiteInv, Ledger
  <2>6. Planned'
    BY <1>1, <2>1, <2>2, <2>3 DEF SuiteInv, Planned
  <2>7. Clean0'
    BY <1>1, <2>1, <2>2, <2>3 DEF SuiteInv, Clean0
  <2>8. QED
    BY <2>2, <2>4, <2>5, <2>6, <2>7 DEF SuiteInv
<1>6. CASE test' \in scfg.selected /\ S!cancelled
  <2>1. suite' = [suite EXCEPT !.matched = @ + 1, !.aborted = @ + 1] /\ UNCHANGED <<spc, srun, testRuns>>
    BY <1>6 DEF S!NextTest
  <2>2. /\ suite' \in SuiteResult /\ suite'.pass = suite.pass /\ suite'.fail = suite.fail
        /\ suite'.inconclusive = suite.inconclusive
        /\ suite'.halted = suite.halted /\ suite'.aborted = suite.aborted + 1
    <3>1. PICK m \in Nat, n \in Nat : m = suite.matched + 1 /\ n = suite.aborted + 1
      BY <1>1
    <3>2. suite \in SuiteResult /\ suite' = [suite EXCEPT !.matched = m, !.aborted = n]
      BY <1>1, <2>1, <3>1
    <3>3. QED
      BY ONLY <3>1, <3>2, Zenon DEF SuiteResult
  <2>3. SuiteCounts'
    BY <1>1, <2>2, StillAgree
  <2>4. Within(test, 0)'
    <3>1. PICK c \in Nat, d \in Nat : c = Cardinality(Unrun(test, tallied)) /\ d = Cardinality(Unrun(test + 1, tallied))
      BY <1>2, Zenon
    <3>2. planned + c <= Len(tallied) + suite.aborted + 0 /\ d <= c + 1
      BY <1>4, <1>2, <3>1 DEF Within
    <3>3. planned \in Nat /\ Len(tallied) \in Nat /\ suite.aborted \in Nat
      BY <1>1, <1>4
    <3>4. planned + d <= Len(tallied) + (suite.aborted + 1) + 0
      BY ONLY <3>2, <3>3, c \in Nat, d \in Nat
    <3>5. QED
      BY <1>1, <1>3, <2>2, <3>1, <3>4 DEF Within
  <2>5. SuiteTypes'
    BY <1>1, <2>1, <2>2, <2>3, <2>4, NoResults DEF SuiteInv, SuiteTypes
  <2>6. Ledger'
    BY <1>1, <2>1, <2>2, <2>3, <2>4 DEF SuiteInv, Ledger
  <2>7. Planned'
    BY <1>1, <2>1, <2>2, <2>3, <2>4 DEF SuiteInv, Planned
  <2>8. Clean0'
    BY <1>1, <2>1, <2>2, <2>3, <2>4 DEF SuiteInv, Clean0
  <2>9. QED
    BY <2>3, <2>5, <2>6, <2>7, <2>8 DEF SuiteInv
<1>7. CASE test' \in scfg.selected /\ ~S!cancelled
  <2>1. /\ suite' = [suite EXCEPT !.matched = @ + 1] /\ srun' = 0 /\ spc' = "runs"
        /\ testRuns' = IF S!RunsGiven THEN scfg.runs ELSE 1
    BY <1>7 DEF S!NextTest
  <2>2. /\ suite' \in SuiteResult /\ suite'.pass = suite.pass /\ suite'.fail = suite.fail
        /\ suite'.inconclusive = suite.inconclusive
        /\ suite'.halted = suite.halted /\ suite'.aborted = suite.aborted
    <3>1. suite \in SuiteResult /\ suite.matched + 1 \in Nat
      BY <1>1
    <3>2. QED
      BY ONLY <2>1, <3>1 DEF SuiteResult
  <2>3. SuiteCounts'
    BY <1>1, <2>2, StillAgree
  <2>4. Within(test - 1, 0)'
    BY <1>1, <1>3, <1>4, <2>2 DEF Within
  <2>5. testRuns' \in Nat \ {0}
    BY <1>1, <2>1 DEF S!RunsGiven
  <2>6. SuiteTypes'
    BY <1>1, <2>1, <2>2, <2>3, <2>4, <2>5, NoResults DEF SuiteInv, SuiteTypes
  <2>7. Ledger'
    BY <1>1, <2>1, <2>2, <2>3, <2>4, <2>5 DEF SuiteInv, Ledger
  <2>8. Planned'
    BY <1>1, <2>1, <2>2, <2>3, <2>4, <2>5 DEF SuiteInv, Planned
  <2>9. Clean0'
    BY <1>1, <2>1, <2>2, <2>3, <2>4, <2>5 DEF SuiteInv, Clean0
  <2>10. QED
    BY <2>3, <2>6, <2>7, <2>8, <2>9 DEF SuiteInv
<1>8. QED
  BY <1>5, <1>6, <1>7

(* Leaving the runs of a test early is one more abort.                      *)
LEMMA NextRunKeeps == ASSUME SuiteInv, S!NextRun, UNCHANGED size PROVE SuiteInv'
<1>1. /\ size.tests \in Nat /\ scfg.selected \subseteq 1..size.tests /\ scfg' = scfg /\ seedFile' = seedFile
      /\ test \in Nat /\ test > 0 /\ test' = test /\ tallied' = tallied /\ planned' = planned /\ exit' = exit
      /\ spoisoned' = spoisoned /\ spc = "runs" /\ leaves' = 0 /\ leafResults' = <<>> /\ srun' = srun
      /\ testRuns' = testRuns
      /\ suite \in SuiteResult /\ suite.matched + 1 \in Nat /\ suite.aborted + 1 \in Nat /\ planned \in Nat /\ Len(tallied) \in Nat /\ srun \in Nat
      /\ suite.aborted \in Nat /\ Within(test - 1, 0)
      /\ IF srun = 0 THEN testRuns \in Nat \ {0} ELSE Within(test, 0)
  <2>1. SuiteTypes /\ spc = "runs"
    BY DEF SuiteInv, S!NextRun
  <2>2. Within(test - 1, 0) /\ test > 0 /\ IF srun = 0 THEN testRuns \in Nat \ {0} ELSE Within(test, 0)
    BY <2>1 DEF SuiteInv, Ledger
  <2>3. QED
    BY <2>1, <2>2, SuiteParts DEF SuiteTypes, S!NextRun
<1>2. /\ Cardinality(Unrun(test, tallied)) <= Cardinality(Unrun(test - 1, tallied)) + 1
      /\ Cardinality(Unrun(test - 1, tallied)) \in Nat /\ Cardinality(Unrun(test, tallied)) \in Nat
  <2>1. test - 1 \in Nat /\ (test - 1) + 1 = test
    BY <1>1
  <2>2. QED
    BY <1>1, <2>1, UnrunGrows, UnrunIsFinite, Zenon
<1>3. Unrun(test, tallied)' = Unrun(test, tallied) /\ Unrun(test - 1, tallied)' = Unrun(test - 1, tallied)
  BY <1>1 DEF Unrun
<1>4. CASE srun >= testRuns /\ spc' = "tests" /\ suite' = suite
  <2>1. Within(test, 0)
    BY <1>1, <1>4
  <2>2. Within(test, 0)'
    BY <1>1, <1>3, <1>4, <2>1 DEF Within
  <2>3. SuiteCounts'
    BY <1>1, <1>4, StillAgree
  <2>4. SuiteTypes'
    BY <1>1, <1>4, <2>2, <2>3, NoResults DEF SuiteInv, SuiteTypes
  <2>5. Ledger'
    BY <1>1, <1>4, <2>2, <2>3 DEF SuiteInv, Ledger
  <2>6. Planned'
    BY <1>1, <1>4, <2>2, <2>3 DEF SuiteInv, Planned
  <2>7. Clean0'
    BY <1>1, <1>4, <2>2, <2>3 DEF SuiteInv, Clean0
  <2>8. QED
    BY <2>3, <2>4, <2>5, <2>6, <2>7 DEF SuiteInv
<1>5. CASE suite' = [suite EXCEPT !.aborted = @ + 1] /\ spc' = "tests"
  <2>1. /\ suite' \in SuiteResult /\ suite'.pass = suite.pass /\ suite'.fail = suite.fail
        /\ suite'.inconclusive = suite.inconclusive
        /\ suite'.halted = suite.halted /\ suite'.aborted = suite.aborted + 1
    <3>1. PICK n \in Nat : n = suite.aborted + 1
      BY <1>1
    <3>2. suite \in SuiteResult /\ suite' = [suite EXCEPT !.aborted = n]
      BY <1>1, <1>5, <3>1
    <3>3. QED
      BY ONLY <3>1, <3>2 DEF SuiteResult
  <2>2. Within(test, 0)'
    <3>1. PICK c \in Nat, d \in Nat : c = Cardinality(Unrun(test - 1, tallied)) /\ d = Cardinality(Unrun(test, tallied))
      BY <1>2, Zenon
    <3>2. planned + c <= Len(tallied) + suite.aborted + 0 /\ d <= c + 1
      BY <1>1, <1>2, <3>1 DEF Within
    <3>3. planned \in Nat /\ Len(tallied) \in Nat /\ suite.aborted \in Nat
      BY <1>1
    <3>4. planned + d <= Len(tallied) + (suite.aborted + 1) + 0
      BY ONLY <3>2, <3>3, c \in Nat, d \in Nat
    <3>5. QED
      BY <1>1, <1>3, <2>1, <3>1, <3>4 DEF Within
  <2>3. SuiteCounts'
    BY <1>1, <2>1, StillAgree
  <2>4. SuiteTypes'
    BY <1>1, <1>5, <2>1, <2>2, <2>3, NoResults DEF SuiteInv, SuiteTypes
  <2>5. Ledger'
    BY <1>1, <1>5, <2>1, <2>2, <2>3 DEF SuiteInv, Ledger
  <2>6. Planned'
    BY <1>1, <1>5, <2>1, <2>2, <2>3 DEF SuiteInv, Planned
  <2>7. Clean0'
    BY <1>1, <1>5, <2>1, <2>2, <2>3 DEF SuiteInv, Clean0
  <2>8. QED
    BY <2>3, <2>4, <2>5, <2>6, <2>7 DEF SuiteInv
<1>6. CASE spc' = "discover" /\ suite' = suite
  <2>1. Within(test - 1, 0)'
    BY <1>1, <1>3, <1>6 DEF Within
  <2>2. SuiteCounts'
    BY <1>1, <1>6, StillAgree
  <2>3. SuiteTypes'
    BY <1>1, <1>6, <2>1, <2>2, NoResults DEF SuiteInv, SuiteTypes
  <2>4. Ledger'
    BY <1>1, <1>6, <2>1, <2>2 DEF SuiteInv, Ledger
  <2>5. Planned'
    BY <1>1, <1>6, <2>1, <2>2 DEF SuiteInv, Planned
  <2>6. Clean0'
    BY <1>1, <1>6, <2>1, <2>2 DEF SuiteInv, Clean0
  <2>7. QED
    BY <2>2, <2>3, <2>4, <2>5, <2>6 DEF SuiteInv
<1>7. QED
  BY <1>4, <1>5, <1>6 DEF S!NextRun

(* The leaves of a new plan are owed from here on.                          *)
LEMMA DiscoverKeeps == ASSUME SuiteInv, S!SuiteConstants, S!Discover, UNCHANGED size PROVE SuiteInv'
<1>1. SuiteTypes /\ spc = "discover" /\ Within(test - 1, 0) /\ test > 0 /\ Len(tallied) <= planned
  BY DEF SuiteInv, S!Discover, Ledger, Planned
<1>2. /\ size.tests \in Nat /\ scfg.selected \subseteq 1..size.tests /\ Len(tallied) \in Nat
      /\ suite.aborted \in Nat /\ planned \in Nat /\ test \in Nat
  BY <1>1, SuiteParts DEF SuiteTypes
<1>3. Cardinality(Unrun(test - 1, tallied)) \in Nat
  BY <1>2, UnrunIsFinite
<1>4. PICK n \in Nat \ {0}, v \in S!Verdicts :
        /\ leaves' = n /\ planned' = planned + n
        /\ leafResults' = IF n = 1 THEN <<S!Recorded(v)>> ELSE <<>>
        /\ spc' = IF n = 1 THEN "tally" ELSE "leaves"
  BY DEF S!Discover, S!SuiteConstants
<1>5. UNCHANGED <<scfg, seedFile, test, srun, testRuns, suite, rows, tallied, interrupted, exit>>
  BY DEF S!Discover
<1>6. S!Recorded(v) \in LeafResults /\ S!Recorded(v).test = test
  BY <1>2 DEF S!Recorded, LeafResults
<1>7. /\ <<S!Recorded(v)>> \in Seq(LeafResults) /\ Len(<<S!Recorded(v)>>) = 1 /\ <<S!Recorded(v)>> # <<>>
      /\ \A i \in DOMAIN <<S!Recorded(v)>> : <<S!Recorded(v)>>[i].test = test
  BY <1>6
<1>8. SuiteTypes'
  BY <1>1, <1>2, <1>4, <1>5, <1>7, NoResults DEF SuiteTypes
<1>9. SuiteCounts'
  BY <1>1, <1>5, StillAgree
<1>10. Unrun(test - 1, tallied)' = Unrun(test - 1, tallied)
  BY <1>5 DEF Unrun
<1>11. Within(test - 1, leaves)'
  <2>1. PICK c \in Nat : c = Cardinality(Unrun(test - 1, tallied))
    BY <1>3
  <2>2. planned + c <= Len(tallied) + suite.aborted + 0
    BY <1>1, <2>1 DEF Within
  <2>3. planned' + c <= Len(tallied) + suite.aborted + leaves'
    BY <1>2, <1>4, <2>2
  <2>4. QED
    BY <1>5, <1>10, <2>1, <2>3 DEF Within
<1>12. Ledger'
  <2>1. CASE n = 1
    <3>1. /\ spc' = "tally" /\ leaves' = Len(leafResults') /\ leafResults' # <<>>
          /\ \A i \in DOMAIN leafResults' : leafResults'[i].test = test
      BY <1>4, <1>7, <2>1
    <3>2. Within(test - 1, Len(leafResults))'
      BY <1>11, <3>1 DEF Within
    <3>3. QED
      BY <1>1, <1>5, <3>1, <3>2 DEF Ledger
  <2>2. CASE n # 1
    <3>1. spc' = "leaves" /\ DOMAIN leafResults' = {}
      BY <1>4, <2>2, NoResults
    <3>2. QED
      BY <1>1, <1>5, <1>11, <3>1 DEF Ledger
  <2>3. QED
    BY <2>1, <2>2
<1>13. Planned'
  BY <1>1, <1>2, <1>4, <1>5, <1>7, NoResults DEF Planned
<1>14. Clean0'
  BY <1>1, <1>5, Zenon DEF SuiteInv, Clean0
<1>15. QED
  BY <1>8, <1>9, <1>12, <1>13, <1>14 DEF SuiteInv

(* A leaf's result is on its way to the tally.                              *)
LEMMA RunLeafKeeps == ASSUME SuiteInv, S!RunLeaf, UNCHANGED size PROVE SuiteInv'
<1>1. /\ SuiteTypes /\ spc = "leaves" /\ Within(test - 1, leaves) /\ test > 0
      /\ Len(tallied) + leaves <= planned /\ Len(tallied) <= planned
      /\ \A i \in DOMAIN leafResults : leafResults[i].test = test
  BY DEF SuiteInv, S!RunLeaf, Ledger, Planned
<1>2. /\ Len(tallied) \in Nat /\ leafResults \in Seq(LeafResults) /\ Len(leafResults) \in Nat /\ leaves \in Nat
      /\ suite.aborted \in Nat /\ planned \in Nat /\ test \in Nat
  BY <1>1, SuiteParts DEF SuiteTypes
<1>3. PICK v \in S!Verdicts : leafResults' = Append(leafResults, S!Recorded(v))
  BY DEF S!RunLeaf
<1>4. /\ UNCHANGED <<scfg, seedFile, test, srun, testRuns, leaves, suite, rows, tallied, planned, interrupted, exit>>
      /\ Len(leafResults) < leaves /\ spc' = IF Len(leafResults') = leaves THEN "tally" ELSE "leaves"
  BY DEF S!RunLeaf, S!report
<1>5. S!Recorded(v) \in LeafResults /\ S!Recorded(v).test = test
  BY <1>2 DEF S!Recorded, LeafResults
<1>6. /\ leafResults' \in Seq(LeafResults) /\ Len(leafResults') = Len(leafResults) + 1 /\ leafResults' # <<>>
      /\ \A i \in DOMAIN leafResults' : leafResults'[i].test = test
  BY <1>1, <1>2, <1>3, <1>5
<1>7. SuiteTypes'
  BY <1>1, <1>4, <1>6 DEF SuiteTypes
<1>8. SuiteCounts'
  BY <1>1, <1>4, StillAgree
<1>9. Unrun(test - 1, tallied)' = Unrun(test - 1, tallied)
  BY <1>4 DEF Unrun
<1>10. Within(test - 1, leaves)'
  BY <1>1, <1>4, <1>9 DEF Within
<1>11. Ledger'
  <2>1. CASE Len(leafResults') = leaves
    <3>1. spc' = "tally" /\ leaves' = Len(leafResults')
      BY <1>4, <2>1
    <3>2. Within(test - 1, Len(leafResults))'
      BY <1>10, <3>1 DEF Within
    <3>3. QED
      BY <1>1, <1>4, <1>6, <3>1, <3>2 DEF Ledger
  <2>2. CASE Len(leafResults') # leaves
    <3>1. spc' = "leaves"
      BY <1>4, <2>2
    <3>2. QED
      BY <1>1, <1>4, <1>6, <1>10, <3>1 DEF Ledger
  <2>3. QED
    BY <2>1, <2>2
<1>12. Planned'
  <2>1. UNCHANGED <<tallied, planned, leaves>>
    BY <1>4
  <2>2. Len(tallied) <= planned /\ Len(tallied) + leaves <= planned
    BY <1>1
  <2>3. spc' = "leaves" => Len(leafResults') < leaves
    <3>1. Len(leafResults) \in Nat /\ leaves \in Nat
      BY <1>2
    <3>2. QED
      BY ONLY <1>4, <1>6, <3>1
  <2>4. spc' = "tally" => Len(leafResults') = leaves
    BY ONLY <1>4
  <2>5. QED
    BY ONLY <2>1, <2>2, <2>3, <2>4 DEF Planned
<1>13. Clean0'
  BY <1>1, <1>4, Zenon DEF SuiteInv, Clean0
<1>14. QED
  BY <1>7, <1>8, <1>11, <1>12, <1>13 DEF SuiteInv

(* The leaves an interrupt skips are aborted.                               *)
LEMMA SkipLeavesKeeps == ASSUME SuiteInv, S!SkipLeaves, UNCHANGED size PROVE SuiteInv'
<1>1. /\ SuiteTypes /\ spc = "leaves" /\ Within(test - 1, leaves) /\ test > 0
      /\ Len(tallied) + leaves <= planned /\ Len(tallied) <= planned
      /\ \A i \in DOMAIN leafResults : leafResults[i].test = test
  BY DEF SuiteInv, S!SkipLeaves, Ledger, Planned
<1>2. /\ Len(tallied) \in Nat /\ leafResults \in Seq(LeafResults) /\ Len(leafResults) \in Nat /\ leaves \in Nat
      /\ suite.aborted \in Nat /\ planned \in Nat /\ test \in Nat /\ suite \in SuiteResult
      /\ size.tests \in Nat /\ scfg.selected \subseteq 1..size.tests
  BY <1>1, SuiteParts DEF SuiteTypes
<1>3. /\ UNCHANGED <<scfg, seedFile, test, srun, testRuns, leaves, leafResults, rows, tallied, planned, interrupted,
                     spoisoned, exit>>
      /\ leafResults # <<>> /\ Len(leafResults) < leaves /\ spc' = "tally"
      /\ suite' = [suite EXCEPT !.aborted = suite.aborted + (leaves - Len(leafResults))]
  BY DEF S!SkipLeaves, S!loop
<1>4. PICK n \in Nat : n = suite.aborted + (leaves - Len(leafResults))
  BY <1>2, <1>3
<1>5. /\ suite' \in SuiteResult /\ suite'.pass = suite.pass /\ suite'.fail = suite.fail
      /\ suite'.inconclusive = suite.inconclusive /\ suite'.halted = suite.halted /\ suite'.aborted = n
  <2>1. suite' = [suite EXCEPT !.aborted = n]
    BY <1>3, <1>4
  <2>2. QED
    BY ONLY <1>2, <2>1, <1>4, Zenon DEF SuiteResult
<1>6. Cardinality(Unrun(test - 1, tallied)) \in Nat
  BY <1>2, UnrunIsFinite
<1>7. SuiteTypes'
  BY <1>1, <1>3, <1>5 DEF SuiteTypes
<1>8. SuiteCounts'
  BY <1>1, <1>3, <1>5, StillAgree
<1>9. Unrun(test - 1, tallied)' = Unrun(test - 1, tallied)
  BY <1>3 DEF Unrun
<1>10. Within(test - 1, Len(leafResults))'
  <2>1. PICK c \in Nat : c = Cardinality(Unrun(test - 1, tallied))
    BY <1>6
  <2>2. planned + c <= Len(tallied) + suite.aborted + leaves
    BY <1>1, <2>1 DEF Within
  <2>3. planned + c <= Len(tallied) + n + Len(leafResults)
    <3>1. /\ Len(tallied) \in Nat /\ suite.aborted \in Nat /\ leaves \in Nat /\ Len(leafResults) \in Nat
          /\ planned \in Nat /\ n = suite.aborted + (leaves - Len(leafResults))
      BY <1>2, <1>4
    <3>2. PICK t \in Nat, a \in Nat, l \in Nat, r \in Nat, p \in Nat :
            t = Len(tallied) /\ a = suite.aborted /\ l = leaves /\ r = Len(leafResults) /\ p = planned
      BY <3>1, Zenon
    <3>3. p + c <= t + a + l /\ n = a + (l - r)
      BY ONLY <2>2, <3>1, <3>2
    <3>4. p + c <= t + n + r
      BY ONLY <3>3, c \in Nat, n \in Nat, t \in Nat, a \in Nat, l \in Nat, r \in Nat, p \in Nat
    <3>5. QED
      BY ONLY <3>2, <3>4
  <2>4. QED
    BY <1>3, <1>5, <1>9, <2>1, <2>3 DEF Within
<1>11. Ledger'
  BY <1>1, <1>3, <1>10 DEF Ledger
<1>12. Planned'
  BY <1>1, <1>2, <1>3 DEF Planned
<1>13. Clean0'
  BY <1>1, <1>3 DEF SuiteInv, Clean0
<1>14. QED
  BY <1>7, <1>8, <1>11, <1>12, <1>13 DEF SuiteInv

(* The results of a run are counted once each, by kind.                     *)
LEMMA TallyKeeps == ASSUME SuiteInv, S!Tally, UNCHANGED size PROVE SuiteInv'
<1>1. /\ SuiteTypes /\ spc = "tally" /\ Within(test - 1, Len(leafResults)) /\ test > 0 /\ leafResults # <<>>
      /\ Len(tallied) + Len(leafResults) <= planned /\ Agree
      /\ \A i \in DOMAIN leafResults : leafResults[i].test = test
  BY DEF SuiteInv, S!Tally, Ledger, Planned, SuiteCounts
<1>2. /\ tallied \in Seq(LeafResults) /\ leafResults \in Seq(LeafResults)
      /\ Len(tallied) \in Nat /\ Len(leafResults) \in Nat
      /\ suite.aborted \in Nat /\ planned \in Nat /\ test \in Nat /\ suite \in SuiteResult /\ srun \in Nat
      /\ size.tests \in Nat /\ scfg.selected \subseteq 1..size.tests
  BY <1>1, SuiteParts DEF SuiteTypes
<1>3. /\ UNCHANGED <<scfg, seedFile, test, leaves, leafResults, planned, interrupted, spoisoned, exit>>
      /\ tallied' = tallied \o leafResults /\ suite' = S!TalliedIn(suite, leafResults)
      /\ srun' = srun + 1 /\ spc' \in {"tests", "runs"}
  BY DEF S!Tally
<1>4. PICK p \in Nat, f \in Nat, c \in Nat, h \in Nat :
        /\ p = S!Counted(leafResults, {"pass"}) /\ f = S!Counted(leafResults, {"fail", "error"})
        /\ c = S!Counted(leafResults, {"inconclusive"}) /\ h = S!Counted(leafResults, {"halted"})
  BY <1>2, CountedType, Zenon
<1>5. p + c + h + f = Len(leafResults)
  BY <1>2, <1>4, CountedAll
<1>6. /\ suite' \in SuiteResult /\ suite'.aborted = suite.aborted
      /\ suite'.pass = suite.pass + p /\ suite'.fail = suite.fail + f
      /\ suite'.inconclusive = suite.inconclusive + c /\ suite'.halted = suite.halted + h
  <2>1. suite \in SuiteResult
    BY <1>2
  <2>2. PICK pp \in Int, cc \in Int, hh \in Int, ff \in Int :
          /\ pp = suite.pass + p /\ cc = suite.inconclusive + c
          /\ hh = suite.halted + h /\ ff = suite.fail + f
    <3>1. suite.pass \in Int /\ suite.fail \in Int /\ suite.inconclusive \in Int /\ suite.halted \in Int
      BY <1>1, SuiteParts
    <3>2. /\ suite.pass + p \in Int /\ suite.inconclusive + c \in Int
          /\ suite.halted + h \in Int /\ suite.fail + f \in Int
      BY <3>1
    <3>3. QED
      BY ONLY <3>2, Zenon
  <2>3. suite' = [suite EXCEPT !.pass = pp, !.inconclusive = cc, !.halted = hh, !.fail = ff]
    BY <1>3, <1>4, <2>2 DEF S!TalliedIn
  <2>4. /\ suite' \in SuiteResult /\ suite'.aborted = suite.aborted
        /\ suite'.pass = pp /\ suite'.fail = ff /\ suite'.inconclusive = cc /\ suite'.halted = hh
    BY ONLY <2>1, <2>3, pp \in Int, cc \in Int, hh \in Int, ff \in Int, Zenon DEF SuiteResult
  <2>5. QED
    BY <2>2, <2>4
<1>7. tallied' \in Seq(LeafResults) /\ Len(tallied') = Len(tallied) + Len(leafResults)
  <2>1. tallied' = tallied \o leafResults
    BY <1>3
  <2>2. tallied \in Seq(LeafResults) /\ leafResults \in Seq(LeafResults)
    BY <1>2
  <2>3. QED
    BY ONLY <2>1, <2>2
<1>8. SuiteTypes'
  BY <1>1, <1>2, <1>3, <1>6, <1>7 DEF SuiteTypes
<1>9. SuiteCounts'
  <2>1. /\ S!Counted(tallied', {"fail", "error"}) = S!Counted(tallied, {"fail", "error"}) + f
        /\ S!Counted(tallied', {"inconclusive"}) = S!Counted(tallied, {"inconclusive"}) + c
    BY <1>2, <1>3, <1>4, CountedConcat
  <2>2. suite.pass \in Int /\ suite.fail \in Int /\ suite.inconclusive \in Int /\ suite.halted \in Int
    BY <1>1, SuiteParts
  <2>3. SuiteSum' = Len(tallied')
    <3>1. /\ suite.pass + suite.fail + suite.inconclusive + suite.halted = Len(tallied)
          /\ Len(tallied) \in Nat /\ Len(leafResults) \in Nat
      BY <1>1, <1>2 DEF Agree, SuiteSum
    <3>2. suite'.pass + suite'.fail + suite'.inconclusive + suite'.halted = Len(tallied')
      <4>1. /\ suite'.pass = suite.pass + p /\ suite'.fail = suite.fail + f
            /\ suite'.inconclusive = suite.inconclusive + c /\ suite'.halted = suite.halted + h
            /\ Len(tallied') = Len(tallied) + Len(leafResults)
        BY <1>6, <1>7
      <4>2. (suite.pass + p) + (suite.fail + f) + (suite.inconclusive + c) + (suite.halted + h) =
              Len(tallied) + Len(leafResults)
        <5>1. p \in Int /\ f \in Int /\ c \in Int /\ h \in Int
          OBVIOUS
        <5>2. (suite.pass + p) + (suite.fail + f) + (suite.inconclusive + c) + (suite.halted + h) =
                (suite.pass + suite.fail + suite.inconclusive + suite.halted) + (p + c + h + f)
          BY ONLY <2>2, <5>1, FourSums
        <5>3. QED
          BY ONLY <1>5, <3>1, <5>2
      <4>3. QED
        BY ONLY <4>1, <4>2, Zenon
    <3>3. QED
      BY <3>2 DEF SuiteSum
  <2>4. /\ suite'.fail = S!Counted(tallied', {"fail", "error"})
        /\ suite'.inconclusive = S!Counted(tallied', {"inconclusive"})
    BY <1>1, <1>6, <2>1 DEF Agree
  <2>5. QED
    BY <2>3, <2>4 DEF SuiteCounts, Agree, S!Counted
<1>10. Within(test, 0)' /\ Within(test - 1, 0)'
  <2>1. PICK n \in Nat : n + 1 = test /\ test - 1 = n
    BY <1>1, <1>2
  <2>2. /\ Cardinality(Unrun(n + 1, tallied')) <= Cardinality(Unrun(n, tallied))
        /\ Cardinality(Unrun(n, tallied')) <= Cardinality(Unrun(n + 1, tallied'))
    BY <1>1, <1>2, <1>3, <2>1, UnrunShrinks, UnrunOrdered, Zenon
  <2>3. PICK a \in Nat, b \in Nat, e \in Nat :
          /\ a = Cardinality(Unrun(n, tallied)) /\ b = Cardinality(Unrun(n + 1, tallied'))
          /\ e = Cardinality(Unrun(n, tallied'))
    BY <1>2, UnrunIsFinite, Zenon
  <2>4. planned + a <= Len(tallied) + suite.aborted + Len(leafResults)
    BY <1>1, <2>1, <2>3 DEF Within
  <2>5. /\ planned + b <= Len(tallied') + suite.aborted + 0
        /\ planned + e <= Len(tallied') + suite.aborted + 0
    <3>1. b <= a /\ e <= b
      BY <2>2, <2>3
    <3>2. /\ planned \in Nat /\ suite.aborted \in Nat /\ Len(tallied) \in Nat /\ Len(leafResults) \in Nat
          /\ Len(tallied') = Len(tallied) + Len(leafResults)
      BY <1>2, <1>7
    <3>3. QED
      BY ONLY <2>4, <3>1, <3>2, a \in Nat, b \in Nat, e \in Nat
  <2>6. Unrun(test, tallied)' = Unrun(n + 1, tallied') /\ Unrun(test - 1, tallied)' = Unrun(n, tallied')
    BY <1>3, <2>1 DEF Unrun
  <2>7. QED
    <3>1. planned' = planned /\ suite'.aborted = suite.aborted
      BY <1>3, <1>6
    <3>2. Within(test, 0)'
      BY <2>3, <2>5, <2>6, <3>1 DEF Within
    <3>3. Within(test - 1, 0)'
      BY <2>3, <2>5, <2>6, <3>1 DEF Within
    <3>4. QED
      BY <3>2, <3>3
<1>11. Ledger'
  <2>1. srun' # 0 /\ test' > 0
    BY <1>1, <1>2, <1>3
  <2>2. CASE spc' = "tests"
    BY <1>10, <2>2 DEF Ledger
  <2>3. CASE spc' = "runs"
    BY <1>10, <2>1, <2>3 DEF Ledger
  <2>4. QED
    BY <1>3, <2>2, <2>3
<1>12. Planned'
  BY <1>1, <1>2, <1>3, <1>7 DEF Planned
<1>13. Clean0'
  BY <1>1, <1>3, Zenon DEF SuiteInv, Clean0
<1>14. QED
  BY <1>8, <1>9, <1>11, <1>12, <1>13 DEF SuiteInv

(* A failed shutdown moves or adds one failure, and poisons.                *)
LEMMA CleanupKeeps == ASSUME SuiteInv, S!Cleanup, UNCHANGED size PROVE SuiteInv'
<1>1. /\ SuiteTypes /\ spc = "tests" /\ test = size.tests /\ Within(test, 0) /\ Agree /\ exit = {}
  BY DEF SuiteInv, S!Cleanup, Ledger, SuiteCounts, Clean0, S!Tests
<1>2. /\ UNCHANGED <<scfg, seedFile, test, srun, testRuns, leaves, leafResults, tallied, planned, interrupted, exit>>
      /\ spc' = "exit" /\ spoisoned' \in {spoisoned, TRUE}
  BY Zenon DEF S!Cleanup, S!loop
<1>3. /\ suite \in SuiteResult /\ suite.aborted \in Nat /\ suite.fail \in Int /\ suite.pass \in Int
      /\ suite.inconclusive \in Int /\ suite.halted \in Int /\ Len(tallied) \in Nat
  BY <1>1, SuiteParts DEF SuiteTypes
<1>4. suite' = suite \/ (spoisoned' /\ \E x, y \in {0, 1} :
          /\ suite' = [suite EXCEPT !.fail = suite.fail + 1, !.pass = suite.pass - x,
                                    !.inconclusive = suite.inconclusive - y]
          /\ x + y <= 1)
  <2>1. CASE suite' = suite
    BY <2>1
  <2>2. CASE spoisoned' /\ S!Blamed
    <3>1. PICK prev : prev = rows[Len(rows)].result
      OBVIOUS
    <3>2. PICK x \in {0, 1}, y \in {0, 1} : /\ x = IF prev = "pass" THEN 1 ELSE 0
                                            /\ y = IF prev = "inconclusive" THEN 1 ELSE 0
      OBVIOUS
    <3>3. x + y <= 1
      BY <3>2
    <3>4. suite' = suite \/ suite' = [suite EXCEPT !.fail = suite.fail + 1, !.pass = suite.pass - x,
                                                   !.inconclusive = suite.inconclusive - y]
      BY <2>2, <3>1, <3>2 DEF S!Blamed
    <3>5. QED
      BY <2>2, <3>3, <3>4, Zenon
  <2>3. QED
    BY <2>1, <2>2 DEF S!Cleanup
<1>5. /\ suite' \in SuiteResult /\ suite'.aborted = suite.aborted
      /\ suite' = suite \/ (spoisoned' /\ SuiteSum' \in {SuiteSum, SuiteSum + 1})
  <2>1. CASE suite' = suite
    BY <1>3, <2>1
  <2>2. ASSUME spoisoned', NEW x \in {0, 1}, NEW y \in {0, 1}, x + y <= 1,
               suite' = [suite EXCEPT !.fail = suite.fail + 1, !.pass = suite.pass - x,
                                      !.inconclusive = suite.inconclusive - y]
        PROVE  /\ suite' \in SuiteResult /\ suite'.aborted = suite.aborted
               /\ SuiteSum' \in {SuiteSum, SuiteSum + 1}
    <3>1. /\ suite' \in SuiteResult /\ suite'.aborted = suite.aborted /\ suite'.fail = suite.fail + 1
          /\ suite'.pass = suite.pass - x /\ suite'.inconclusive = suite.inconclusive - y
          /\ suite'.halted = suite.halted
      <4>1. suite \in SuiteResult
        BY <1>3
      <4>2. PICK ff \in Int, pp \in Int, cc \in Int :
              ff = suite.fail + 1 /\ pp = suite.pass - x /\ cc = suite.inconclusive - y
        <5>1. suite.fail + 1 \in Int /\ suite.pass - x \in Int /\ suite.inconclusive - y \in Int
          BY <1>3
        <5>2. QED
          BY ONLY <5>1, Zenon
      <4>3. suite' = [suite EXCEPT !.fail = ff, !.pass = pp, !.inconclusive = cc]
        BY <2>2, <4>2
      <4>4. /\ suite' \in SuiteResult /\ suite'.aborted = suite.aborted /\ suite'.fail = ff
            /\ suite'.pass = pp /\ suite'.inconclusive = cc /\ suite'.halted = suite.halted
        BY ONLY <4>1, <4>3, ff \in Int, pp \in Int, cc \in Int, Zenon DEF SuiteResult
      <4>5. QED
        BY <4>2, <4>4
    <3>2. SuiteSum' = SuiteSum + 1 - x - y
      <4>1. suite.fail \in Int /\ suite.pass \in Int /\ suite.inconclusive \in Int /\ suite.halted \in Int
        BY <1>3
      <4>2. suite'.pass + suite'.fail + suite'.inconclusive + suite'.halted =
              suite.pass + suite.fail + suite.inconclusive + suite.halted + 1 - x - y
        BY ONLY <3>1, <4>1, x \in {0, 1}, y \in {0, 1}
      <4>3. QED
        BY <4>2 DEF SuiteSum
    <3>3. SuiteSum \in Int
      BY <1>3 DEF SuiteSum
    <3>4. QED
      BY <2>2, <3>1, <3>2, <3>3
  <2>3. QED
    BY <1>4, <2>1, <2>2
<1>6. SuiteTypes'
  BY <1>1, <1>2, <1>5 DEF SuiteTypes
<1>7. SuiteCounts'
  <2>1. CASE suite' = suite
    BY <1>1, <1>2, <2>1 DEF SuiteCounts, Agree, SuiteSum
  <2>2. CASE spoisoned' /\ SuiteSum' \in {SuiteSum, SuiteSum + 1}
    BY <1>1, <1>2, <2>2 DEF SuiteCounts, Agree
  <2>3. QED
    BY <1>5, <2>1, <2>2
<1>8. Unrun(test, tallied)' = Unrun(test, tallied)
  BY <1>2 DEF Unrun
<1>9. Within(test, 0)'
  BY <1>1, <1>2, <1>5, <1>8 DEF Within
<1>10. QED
  BY <1>1, <1>2, <1>6, <1>7, <1>9 DEF SuiteInv, Ledger, Planned, Clean0

(* The exit code is read off the counters.                                  *)
LEMMA ExitKeeps == ASSUME SuiteInv, S!Exit, UNCHANGED size PROVE SuiteInv'
<1>1. /\ SuiteTypes /\ spc = "exit" /\ test = size.tests /\ Within(test, 0)
      /\ Agree \/ (spoisoned /\ SuiteSum \in {Len(tallied), Len(tallied) + 1})
  BY DEF SuiteInv, S!Exit, Ledger, SuiteCounts
<1>2. /\ UNCHANGED <<scfg, seedFile, test, srun, testRuns, leaves, leafResults, suite, rows, tallied, planned, interrupted>>
      /\ spc' = "done" /\ spoisoned' \in {spoisoned, TRUE} /\ exit' = {IF spoisoned' THEN 1 ELSE S!ExitCode}
  BY Zenon DEF S!Exit, S!loop, S!report
<1>3. SuiteTypes'
  BY <1>1, <1>2 DEF SuiteTypes
<1>4. SuiteCounts'
  BY <1>1, <1>2, Zenon DEF SuiteCounts, Agree, SuiteSum
<1>5. Unrun(test, tallied)' = Unrun(test, tallied)
  BY <1>2 DEF Unrun
<1>6. Within(test, 0)'
  BY <1>1, <1>2, <1>5 DEF Within
<1>7. Clean0'
  <2>1. SUFFICES ASSUME exit' = {0} PROVE ~spoisoned' /\ suite'.fail = 0 /\ suite'.inconclusive = 0
    BY <1>2 DEF Clean0
  <2>2. ~spoisoned' /\ S!ExitCode = 0
    BY <1>2, <2>1
  <2>3. ~(suite.fail > 0) /\ ~(suite.inconclusive > 0)
    BY <2>2 DEF S!ExitCode
  <2>4. ~spoisoned /\ Agree
    BY <1>1, <1>2, <2>2, Zenon
  <2>5. suite.fail \in Nat /\ suite.inconclusive \in Nat
    BY <1>1, <2>4, CountedOfTallied DEF Agree
  <2>6. QED
    BY <1>2, <2>2, <2>3, <2>5
<1>8. QED
  BY <1>1, <1>2, <1>3, <1>4, <1>6, <1>7 DEF SuiteInv, Ledger, Planned

(* Every step keeps the invariant.                                          *)
LEMMA SuiteStepKeeps == ASSUME SuiteInv, S!SuiteConstants, [S!Next]_(S!vars) PROVE SuiteInv'
<1>1. CASE UNCHANGED S!vars
  <2>1. SuiteTypes' /\ Clean0' /\ Planned'
    BY <1>1 DEF S!vars, SuiteInv, SuiteTypes, Clean0, Planned
  <2>2. SuiteCounts'
    BY <1>1 DEF S!vars, SuiteInv, SuiteCounts, Agree, SuiteSum
  <2>3. Ledger'
    BY <1>1 DEF S!vars, SuiteInv, Ledger, Within, Unrun
  <2>4. QED
    BY <2>1, <2>2, <2>3 DEF SuiteInv
<1>2. CASE S!SuiteStep
  BY <1>2, ResolveSeedKeeps, NextTestKeeps, NextRunKeeps, DiscoverKeeps, RunLeafKeeps, SkipLeavesKeeps, TallyKeeps,
     CleanupKeeps, ExitKeeps DEF S!SuiteStep
<1>3. CASE S!Interrupt /\ UNCHANGED size
  BY <1>3, InterruptKeeps
<1>4. QED
  BY <1>1, <1>2, <1>3 DEF S!Next, S!Done

(* A suite that is over accounts for every selected test and planned leaf.  *)
THEOREM SuiteAccounts == S!SuiteConstants => (S!Spec => []S!EverythingIsAccounted)
<1> SUFFICES ASSUME S!SuiteConstants PROVE S!Spec => []S!EverythingIsAccounted
  OBVIOUS
<1>1. SuiteInv => S!EverythingIsAccounted
  <2> SUFFICES ASSUME SuiteInv, spc = "done" PROVE S!EverythingIsAccounted
    BY DEF S!EverythingIsAccounted
  <2>1. SuiteTypes /\ Within(test, 0) /\ test = size.tests
    BY DEF SuiteInv, Ledger
  <2>2. {t \in scfg.selected : \A i \in DOMAIN tallied : tallied[i].test # t} = Unrun(test, tallied)
    BY <2>1, SuiteParts DEF Unrun
  <2>3. /\ planned + Cardinality(Unrun(test, tallied)) <= Len(tallied) + suite.aborted
        /\ Len(tallied) \in Nat /\ suite.aborted \in Nat
    BY <2>1, SuiteParts DEF Within
  <2>4. SuiteSum = Len(tallied) \/ (spoisoned /\ SuiteSum = Len(tallied) + 1)
    BY <2>3 DEF SuiteInv, SuiteCounts, Agree
  <2>5. QED
    BY <2>2, <2>3, <2>4, SuiteCardinality, Zenon DEF S!EverythingIsAccounted, SuiteSum
<1>2. S!Init => SuiteInv
  BY SuiteInit
<1>3. SuiteInv /\ [S!Next]_(S!vars) => SuiteInv'
  BY SuiteStepKeeps
<1>4. QED
  BY <1>1, <1>2, <1>3, PTL DEF S!Spec

(* Exit code 0 hides no failure, no inconclusive leaf and no failed         *)
(* teardown; if nothing was aborted, every selected test has a result.      *)
THEOREM GreenSuites == S!SuiteConstants => (S!Spec => []S!GreenIsEarned)
<1> SUFFICES ASSUME S!SuiteConstants PROVE S!Spec => []S!GreenIsEarned
  OBVIOUS
<1>1. SuiteInv => S!GreenIsEarned
  <2> SUFFICES ASSUME SuiteInv, exit = {0} PROVE S!GreenIsEarned
    BY DEF S!GreenIsEarned
  <2>1. /\ SuiteTypes /\ spc = "done" /\ ~spoisoned /\ suite.fail = 0 /\ suite.inconclusive = 0 /\ Agree
        /\ Within(test, 0) /\ test = size.tests /\ Len(tallied) <= planned
    BY DEF SuiteInv, Clean0, SuiteCounts, Ledger, Planned
  <2>2. S!Counted(tallied, {"fail", "error"}) = 0 /\ S!Counted(tallied, {"inconclusive"}) = 0
    BY <2>1 DEF Agree
  <2>3. S!Counted(tallied, {"fail", "error", "inconclusive"}) = 0
    <3>1. tallied \in Seq(LeafResults)
      BY <2>1 DEF SuiteTypes
    <3>2. /\ {"fail", "error", "inconclusive"} = {"fail", "error"} \cup {"inconclusive"}
          /\ {"fail", "error"} \cap {"inconclusive"} = {}
      OBVIOUS
    <3>3. S!Counted(tallied, {"fail", "error", "inconclusive"}) =
            S!Counted(tallied, {"fail", "error"}) + S!Counted(tallied, {"inconclusive"})
      BY <3>1, <3>2, CountedSplits
    <3>4. QED
      BY <2>2, <3>3
  <2>4. ASSUME suite.aborted = 0, NEW t \in scfg.selected PROVE \E i \in DOMAIN tallied : tallied[i].test = t
    <3>1. /\ size.tests \in Nat /\ scfg.selected \subseteq 1..size.tests
          /\ Len(tallied) \in Nat /\ planned \in Nat
      BY <2>1, SuiteParts DEF SuiteTypes
    <3>2. IsFiniteSet(Unrun(test, tallied)) /\ Cardinality(Unrun(test, tallied)) \in Nat
      BY <3>1, UnrunIsFinite
    <3>3. planned + Cardinality(Unrun(test, tallied)) <= Len(tallied) + 0 + 0
      BY <2>1, <2>4 DEF Within
    <3>4. Cardinality(Unrun(test, tallied)) = 0
      <4>1. PICK c \in Nat : c = Cardinality(Unrun(test, tallied))
        BY <3>2, Zenon
      <4>2. planned + c <= Len(tallied) + 0 + 0 /\ Len(tallied) <= planned
        BY <2>1, <3>3, <4>1
      <4>3. c = 0
        BY ONLY <3>1, <4>2, c \in Nat
      <4>4. QED
        BY <4>1, <4>3
    <3>5. Unrun(test, tallied) = {}
      BY <3>2, <3>4, FS_EmptySet
    <3>6. t <= test
      BY <2>1, <3>1
    <3>7. QED
      BY <3>5, <3>6 DEF Unrun
  <2>5. QED
    BY <2>1, <2>3, <2>4 DEF S!GreenIsEarned
<1>2. S!Init => SuiteInv
  BY SuiteInit
<1>3. SuiteInv /\ [S!Next]_(S!vars) => SuiteInv'
  BY SuiteStepKeeps
<1>4. QED
  BY <1>1, <1>2, <1>3, PTL DEF S!Spec
=============================================================================
