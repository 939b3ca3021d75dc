---------------------------- MODULE EndpointOrder ---------------------------
(***************************************************************************)
(* The packet endpoint fires deferred packets in order, for any packets,   *)
(* rules, control calls and limits.                                        *)
(***************************************************************************)
EXTENDS EndpointProofs

----------------------------------------------------------------------------
(* The order of the deferral queue.  A release carries a key while it is a   *)
(* queue entry whose turn has come.                                          *)

Less(k, l) == k[1] < l[1] \/ (k[1] = l[1] /\ k[2] < l[2])
Unkeyed(w) == \A i \in DOMAIN w : w[i].key = <<>>

(* Only the goroutine and Close hold entries whose turn has come.           *)
Unfired ==
    /\ \A d \in queue : d.item.key = <<>>
    /\ \A h \in Handlers : Unkeyed(th[h].work)
    /\ \A f \in Flows : held[f] # <<>> => held[f][1].item.key = <<>>

(* k is due before the entries of a queue, and before those among releases *)
(* whose turn has come.                                                     *)
LeadsQueue(k, q) == \A d \in q : Less(k, <<d.at, d.seq>>)
Leads(k, w) == \A j \in DOMAIN w : w[j].key # <<>> => Less(k, w[j].key)
Sorted(w) ==
    \A i, j \in DOMAIN w : i < j /\ w[i].key # <<>> /\ w[j].key # <<>> => Less(w[i].key, w[j].key)

(* What has fired comes before what is firing, and that before the rest.    *)
InTurn ==
    /\ \A i \in DOMAIN fired :
         /\ LeadsQueue(fired[i], queue) /\ Leads(fired[i], th["run"].work)
         /\ Leads(fired[i], th["close"].work)
    /\ \A i \in DOMAIN th["run"].work :
         th["run"].work[i].key # <<>> => /\ LeadsQueue(th["run"].work[i].key, queue)
                                         /\ Leads(th["run"].work[i].key, th["close"].work)
    /\ Sorted(th["close"].work)

(* Until the queue is stopped only the past has fired, so an entry with a   *)
(* deadline ahead finds its place behind it.                                *)
Timely ==
    ~qstopped =>
      /\ Unkeyed(th["close"].work)
      /\ \A i \in DOMAIN fired : fired[i][1] <= now
      /\ \A i \in DOMAIN th["run"].work :
           th["run"].work[i].key # <<>> => th["run"].work[i].key[1] <= now

(* Close flushes only after the queue has stopped and the goroutine left.   *)
Phased ==
    /\ qstopped => queue = {} /\ th["close"].pc \in {"wait", "flush", "closed"}
    /\ th["close"].pc \in {"wait", "flush", "closed"} => qstopped
    /\ th["close"].pc = "flush" => th["run"].pc = "exit"

OInv == Unfired /\ InTurn /\ Timely /\ Phased /\ FiredInOrder

LEMMA WorkKeys ==
  ASSUME Types, NEW t \in Threads, NEW i \in DOMAIN th[t].work, th[t].work[i].key # <<>>
  PROVE  th[t].work[i].key \in Nat \X Nat /\ i \in Nat /\ i >= 1 /\ i <= Len(th[t].work)
<1>1. th[t].work \in Seq(Items)
  BY DEF Types, ThreadStates
<1>2. th[t].work[i] \in Items
  BY <1>1
<1>3. th[t].work[i].key \in Keys
  BY <1>2 DEF Items
<1>4. i \in 1..Len(th[t].work) /\ Len(th[t].work) \in Nat
  BY <1>1
<1>5. QED
  BY <1>3, <1>4 DEF Keys

LEMMA UnfiredSame ==
  ASSUME Unfired, queue' = queue, held' = held, \A h \in Handlers : th'[h].work = th[h].work
  PROVE  Unfired'
BY DEF Unfired, Unkeyed

LEMMA FiredSame == ASSUME FiredInOrder, fired' = fired PROVE FiredInOrder'
BY DEF FiredInOrder

(* Steps that leave the queue and the entries whose turn has come alone.    *)
LEMMA OrderFrame ==
  ASSUME EInv, OInv, UNCHANGED <<queue, fired, qstopped>>, now' \in {now, now + 1},
         th'["run"].work = th["run"].work, th'["close"].work = th["close"].work,
         Unfired', Phased'
  PROVE  OInv'
<1>1. InTurn'
  BY DEF OInv, InTurn
<1>2. FiredInOrder'
  BY DEF OInv, FiredInOrder
<1>3. Timely'
  <2>1. \A i \in DOMAIN fired : fired[i][1] \in Nat
    BY DEF EInv, Types
  <2>2. \A i \in DOMAIN th["run"].work : th["run"].work[i].key # <<>> => th["run"].work[i].key[1] \in Nat
    BY WorkKeys DEF EInv, Threads
  <2>3. now \in Nat
    BY DEF EInv, Types
  <2>4. \A n \in Nat : n <= now => n <= now'
    BY <2>3
  <2>5. QED
    BY <2>1, <2>2, <2>4 DEF OInv, Timely, Unkeyed
<1>4. QED
  BY <1>1, <1>2, <1>3 DEF OInv

LEMMA AppendOrders ==
  ASSUME FiredInOrder, fired \in Seq(Nat \X Nat), NEW k \in Nat \X Nat, fired' = Append(fired, k),
         \A i \in DOMAIN fired : Less(fired[i], k)
  PROVE  /\ FiredInOrder'
         /\ \A i \in DOMAIN fired' : (i \in DOMAIN fired /\ fired'[i] = fired[i]) \/ fired'[i] = k
<1>1. /\ DOMAIN fired = 1..Len(fired) /\ DOMAIN fired' = 1..(Len(fired) + 1) /\ Len(fired) \in Nat
      /\ fired'[Len(fired) + 1] = k
      /\ \A i \in DOMAIN fired : fired'[i] = fired[i]
  OBVIOUS
<1>2. \A i \in DOMAIN fired' : i \in DOMAIN fired \/ i = Len(fired) + 1
  BY <1>1
<1>3. ASSUME NEW i \in DOMAIN fired', NEW j \in DOMAIN fired', i < j
      PROVE  Less(fired'[i], fired'[j])
  <2>1. i \in DOMAIN fired
    BY <1>1, <1>3
  <2>2. CASE j \in DOMAIN fired
    <3>1. Less(fired[i], fired[j])
      BY <1>3, <2>1, <2>2, Zenon DEF FiredInOrder, Less
    <3>2. QED
      BY <1>1, <2>1, <2>2, <3>1
  <2>3. CASE j = Len(fired) + 1
    BY <1>1, <2>1, <2>3
  <2>4. QED
    BY <1>2, <2>2, <2>3
<1>4. FiredInOrder'
  BY <1>3, Zenon DEF FiredInOrder, Less
<1>5. QED
  BY <1>1, <1>2, <1>4

(* The entries among v come from w, in their order; Beyond leaves w's first *)
(* out.                                                                     *)
Within(v, w) ==
    \E c \in {0, 1} : \A i \in DOMAIN v : v[i].key # <<>> =>
      i \in Nat /\ i + c \in DOMAIN w /\ w[i + c].key = v[i].key
Beyond(v, w) ==
    \E c \in {0, 1} : \A i \in DOMAIN v : v[i].key # <<>> =>
      i \in Nat /\ i + c \in DOMAIN w /\ i + c > 1 /\ w[i + c].key = v[i].key

LEMMA WithinKeeps ==
  ASSUME NEW v, NEW w, Within(v, w)
  PROVE  /\ \A k : Leads(k, w) => Leads(k, v)
         /\ Unkeyed(w) => Unkeyed(v)
         /\ Sorted(w) => Sorted(v)
         /\ \A i \in DOMAIN v : v[i].key # <<>> => \E j \in DOMAIN w : w[j].key = v[i].key
<1>1. PICK c \in {0, 1} : \A i \in DOMAIN v : v[i].key # <<>> =>
        i \in Nat /\ i + c \in DOMAIN w /\ w[i + c].key = v[i].key
  BY DEF Within
<1>2. \A i \in DOMAIN v : v[i].key # <<>> => \E j \in DOMAIN w : w[j].key = v[i].key
  BY <1>1
<1>3. \A k : Leads(k, w) => Leads(k, v)
  BY <1>2 DEF Leads
<1>4. Unkeyed(w) => Unkeyed(v)
  BY <1>2 DEF Unkeyed
<1>5. ASSUME Sorted(w), NEW i \in DOMAIN v, NEW j \in DOMAIN v, i < j, v[i].key # <<>>, v[j].key # <<>>
      PROVE  Less(v[i].key, v[j].key)
  <2>1. /\ i \in Nat /\ j \in Nat /\ i + c \in DOMAIN w /\ j + c \in DOMAIN w
        /\ w[i + c].key = v[i].key /\ w[j + c].key = v[j].key
    BY <1>1, <1>5
  <2>2. i + c < j + c
    BY <1>5, <2>1
  <2>3. QED
    BY <1>5, <2>1, <2>2 DEF Sorted
<1>6. QED
  BY <1>2, <1>3, <1>4, <1>5 DEF Sorted

LEMMA WithinItself ==
  ASSUME NEW w \in Seq(Items)
  PROVE  Within(w, w)
<1>1. \A i \in DOMAIN w : i \in Nat /\ i + 0 = i
  OBVIOUS
<1>2. \A i \in DOMAIN w : i \in Nat /\ i + 0 \in DOMAIN w /\ w[i + 0].key = w[i].key
  BY <1>1
<1>3. QED
  BY <1>2 DEF Within

LEMMA BeyondIsWithin ==
  ASSUME NEW v, NEW w, Beyond(v, w)
  PROVE  Within(v, w)
BY DEF Beyond, Within

LEMMA TailIsBeyond ==
  ASSUME NEW w \in Seq(Items), w # <<>>
  PROVE  Beyond(Tail(w), w)
<1>1. \A i \in DOMAIN Tail(w) : i \in Nat /\ i + 1 \in DOMAIN w /\ i + 1 > 1 /\ w[i + 1].key = Tail(w)[i].key
  <2> TAKE i \in DOMAIN Tail(w)
  <2>1. i + 1 \in DOMAIN w /\ Tail(w)[i] = w[i + 1] /\ i \in Nat \ {0}
    BY TailElements
  <2>2. QED
    BY <2>1
<1>2. QED
  BY <1>1 DEF Beyond

LEMMA UnkeyedHead ==
  ASSUME NEW w \in Seq(Items), w # <<>>, NEW y \in Items, y.key = <<>>
  PROVE  [w EXCEPT ![1] = y] \in Seq(Items) /\ Beyond([w EXCEPT ![1] = y], w)
<1>1. PICK v : v = [w EXCEPT ![1] = y]
  BY Zenon
<1>2. v \in Seq(Items) /\ DOMAIN v = DOMAIN w
  BY <1>1
<1>3. v[1] = y /\ \A i \in DOMAIN w : i # 1 => v[i] = w[i]
  BY <1>1
<1>4. \A i \in DOMAIN w : i \in Nat /\ i >= 1 /\ i + 0 = i
  OBVIOUS
<1>5. ASSUME NEW i \in DOMAIN v, v[i].key # <<>>
      PROVE  i \in Nat /\ i + 0 \in DOMAIN w /\ i + 0 > 1 /\ w[i + 0].key = v[i].key
  <2>1. i # 1 /\ i \in DOMAIN w /\ v[i] = w[i] /\ i \in Nat /\ i >= 1 /\ i + 0 = i
    BY <1>2, <1>3, <1>4, <1>5
  <2>2. i + 0 > 1
    BY <2>1
  <2>3. QED
    BY <2>1, <2>2
<1>6. Beyond(v, w)
  BY <1>5 DEF Beyond
<1>7. QED
  BY <1>1, <1>2, <1>6

(* A thread's first release is done with, or is a queue entry no more; if   *)
(* it was one, that entry has fired.                                        *)
LEMMA ReleaseOrders ==
  ASSUME EInv, OInv, NEW t \in Threads, Sending(t), NEW w, w = th[t].work, w # <<>>,
         \A u \in Threads : th'[u].pc = th[u].pc, \A u \in Threads : u # t => th'[u] = th[u],
         Beyond(th'[t].work, w),
         fired' = IF w[1].key = <<>> THEN fired ELSE Append(fired, w[1].key),
         UNCHANGED <<queue, held, qstopped, now>>
  PROVE  OInv'
<1>1. /\ w \in Seq(Items) /\ fired \in Seq(Nat \X Nat) /\ 1 \in DOMAIN w
  BY DEF EInv, Types, ThreadStates
<1>2. Phased'
  BY DEF OInv, Phased, Threads
<1>3. "run" \in Threads /\ "close" \in Threads /\ "run" \notin Handlers /\ "close" \notin Handlers
  BY DEF Threads, Handlers
<1>a. PICK c \in {0, 1} : \A i \in DOMAIN th'[t].work : th'[t].work[i].key # <<>> =>
        i \in Nat /\ i + c \in DOMAIN w /\ i + c > 1 /\ w[i + c].key = th'[t].work[i].key
  BY DEF Beyond
<1>b. Within(th'[t].work, w)
  BY BeyondIsWithin
<1>4. CASE t \in Handlers
  <2>1. Unkeyed(w)
    BY <1>4 DEF OInv, Unfired
  <2>2. Unkeyed(th'[t].work)
    BY <1>b, <2>1, WithinKeeps
  <2>3. /\ w[1].key = <<>>
    BY <1>1, <2>1 DEF Unkeyed
  <2>4. \A h \in Handlers : h # t => th'[h] = th[h]
    BY ThreadNames
  <2>5. Unfired'
    BY <2>2, <2>4 DEF OInv, Unfired
  <2>6. th'["run"] = th["run"] /\ th'["close"] = th["close"]
    BY <1>3, <1>4
  <2>7. QED
    BY <1>2, <2>3, <2>5, <2>6, OrderFrame
<1>5. CASE t = "run"
  <2>1. \A i \in DOMAIN th'["run"].work : th'["run"].work[i].key = <<>>
    <3>1. Len(w) <= 1
      BY <1>5 DEF EInv, AtRest
    <3>2. \A i \in DOMAIN w : i <= 1
      BY <1>1, <3>1
    <3>3. QED
      BY <1>a, <1>5, <3>2
  <2>2. th'["close"] = th["close"] /\ \A h \in Handlers : th'[h] = th[h]
    BY <1>3, <1>5, ThreadNames
  <2>3. Unfired'
    BY <2>2, UnfiredSame DEF OInv
  <2>4. CASE w[1].key = <<>>
    <3>1. InTurn'
      <4>1. fired' = fired
        BY <2>4
      <4>2. \A k : Leads(k, th'["run"].work)
        BY <2>1 DEF Leads
      <4>3. QED
        BY <2>1, <2>2, <4>1, <4>2, Zenon DEF OInv, InTurn
    <3>2. Timely'
      BY <2>1, <2>2, <2>4 DEF OInv, Timely, Unkeyed
    <3>3. FiredInOrder'
      BY <2>4, FiredSame DEF OInv
    <3>4. QED
      BY <1>2, <2>3, <3>1, <3>2, <3>3 DEF OInv
  <2>5. CASE w[1].key # <<>>
    <3>1. PICK k : k = w[1].key
      OBVIOUS
    <3>2. /\ k \in Nat \X Nat /\ fired' = Append(fired, k)
          /\ LeadsQueue(k, queue) /\ Leads(k, th["close"].work)
          /\ \A i \in DOMAIN fired : Less(fired[i], k)
      BY <1>1, <1>5, <2>5, <3>1, WorkKeys, Zenon DEF EInv, OInv, InTurn, Leads
    <3>3. /\ FiredInOrder'
          /\ \A i \in DOMAIN fired' : (i \in DOMAIN fired /\ fired'[i] = fired[i]) \/ fired'[i] = k
      BY <1>1, <3>2, AppendOrders, Zenon DEF OInv
    <3>4. \A i \in DOMAIN fired' : LeadsQueue(fired'[i], queue) /\ Leads(fired'[i], th["close"].work)
      BY <3>2, <3>3, Zenon DEF OInv, InTurn
    <3>5. InTurn'
      <4>1. \A x : Leads(x, th'["run"].work)
        BY <2>1 DEF Leads
      <4>2. QED
        BY <2>1, <2>2, <3>4, <4>1, Zenon DEF OInv, InTurn
    <3>6. ~qstopped => k[1] <= now
      BY <1>1, <1>5, <2>5, <3>1 DEF OInv, Timely
    <3>7. Timely'
      BY <2>1, <2>2, <3>3, <3>6, Zenon DEF OInv, Timely, Unkeyed
    <3>8. QED
      BY <1>2, <2>3, <3>3, <3>5, <3>7 DEF OInv
  <2>6. QED
    BY <2>4, <2>5
<1>6. CASE t = "close"
  <2>1. th'["run"] = th["run"] /\ \A h \in Handlers : th'[h] = th[h]
    BY <1>3, <1>6, ThreadNames, Zenon
  <2>2. Unfired'
    BY <2>1, UnfiredSame DEF OInv
  <2>3. \A k : Leads(k, th["close"].work) => Leads(k, th'["close"].work)
    BY <1>b, <1>6, WithinKeeps
  <2>4. \A i \in DOMAIN th["run"].work : th["run"].work[i].key # <<>> =>
             LeadsQueue(th["run"].work[i].key, queue) /\ Leads(th["run"].work[i].key, th'["close"].work)
    BY <2>3, Zenon DEF OInv, InTurn
  <2>5. Sorted(th'["close"].work)
    BY <1>b, <1>6, WithinKeeps, Zenon DEF OInv, InTurn
  <2>6. ~qstopped => Unkeyed(th'["close"].work)
    BY <1>b, <1>6, WithinKeeps, Zenon DEF OInv, Timely
  <2>7. CASE w[1].key = <<>>
    <3>1. fired' = fired
      BY <2>7
    <3>2. InTurn'
      BY <2>1, <2>3, <2>4, <2>5, <3>1, Zenon DEF OInv, InTurn
    <3>3. Timely'
      BY <2>1, <2>6, <3>1, Zenon DEF OInv, Timely, Unkeyed
    <3>4. FiredInOrder'
      BY <3>1, FiredSame DEF OInv
    <3>5. QED
      BY <1>2, <2>2, <3>2, <3>3, <3>4 DEF OInv
  <2>8. CASE w[1].key # <<>>
    <3>1. PICK k : k = w[1].key
      OBVIOUS
    <3>2. qstopped
      BY <1>1, <1>6, <2>8, Zenon DEF OInv, Timely, Unkeyed
    <3>3. th["close"].pc = "flush"
      BY <1>6, <3>2 DEF OInv, Phased, Sending, EInv, AtRest
    <3>4. queue = {} /\ th["run"].work = <<>>
      BY <3>2, <3>3 DEF OInv, Phased, EInv, AtRest
    <3>5. /\ k \in Nat \X Nat /\ fired' = Append(fired, k)
          /\ \A i \in DOMAIN fired : Less(fired[i], k)
      BY <1>1, <1>6, <2>8, <3>1, WorkKeys, Zenon DEF EInv, OInv, InTurn, Leads
    <3>6. /\ FiredInOrder'
          /\ \A i \in DOMAIN fired' : (i \in DOMAIN fired /\ fired'[i] = fired[i]) \/ fired'[i] = k
      BY <1>1, <3>5, AppendOrders, Zenon DEF OInv
    <3>7. Leads(k, th'["close"].work)
      <4> SUFFICES ASSUME NEW i \in DOMAIN th'["close"].work, th'["close"].work[i].key # <<>>
                   PROVE  Less(k, th'["close"].work[i].key)
        BY Zenon DEF Leads
      <4>1. i + c \in DOMAIN w /\ 1 < i + c /\ w[i + c].key = th'["close"].work[i].key
        BY <1>a, <1>6
      <4>2. QED
        BY <1>1, <1>6, <2>8, <3>1, <4>1, Zenon DEF OInv, InTurn, Sorted
    <3>8. \A i \in DOMAIN fired' : Leads(fired'[i], th'["close"].work)
      BY <2>3, <3>6, <3>7, Zenon DEF OInv, InTurn
    <3>9. \A x : LeadsQueue(x, queue') /\ Leads(x, th'["run"].work)
      BY <2>1, <3>4 DEF LeadsQueue, Leads
    <3>10. InTurn'
      BY <2>1, <2>4, <2>5, <3>8, <3>9, Zenon DEF InTurn
    <3>11. Timely'
      BY <3>2 DEF Timely
    <3>12. QED
      BY <1>2, <2>2, <3>6, <3>10, <3>11 DEF OInv
  <2>9. QED
    BY <2>7, <2>8
<1>7. QED
  BY <1>4, <1>5, <1>6 DEF Threads

LEMMA PopOrders ==
  ASSUME EInv, OInv, NEW t \in Threads, Sending(t), th[t].work # <<>>, Pop(t), Note(th[t].work[1]),
         UNCHANGED <<queue, held, qstopped, now>>
  PROVE  OInv'
<1>1. PICK w : w = th[t].work
  OBVIOUS
<1>2. w \in Seq(Items) /\ w # <<>>
  BY <1>1, HeadItem DEF EInv
<1>3. /\ Tail(w) \in Seq(Items) /\ th' = [th EXCEPT ![t].work = Tail(w)]
  BY <1>1, PopChanges DEF EInv
<1>4. /\ th'[t].work = Tail(w) /\ \A u \in Threads : u # t => th'[u] = th[u]
      /\ \A u \in Threads : th'[u].pc = th[u].pc
  BY <1>3, WorkChanges, Zenon DEF EInv
<1>5. fired' = IF w[1].key = <<>> THEN fired ELSE Append(fired, w[1].key)
  BY <1>1 DEF Note
<1>6. Beyond(th'[t].work, w)
  BY <1>2, <1>4, TailIsBeyond
<1>7. QED
  BY <1>1, <1>2, <1>4, <1>5, <1>6, ReleaseOrders, Zenon

LEMMA HeadOrders ==
  ASSUME EInv, OInv, NEW t \in Threads, Sending(t), th[t].work # <<>>,
         NEW y \in Items, y.key = <<>>, th' = [th EXCEPT ![t].work = [th[t].work EXCEPT ![1] = y]],
         Note(th[t].work[1]), UNCHANGED <<queue, held, qstopped, now>>
  PROVE  OInv'
<1>1. PICK w, v : w = th[t].work /\ v = [w EXCEPT ![1] = y]
  BY Zenon
<1>2. w \in Seq(Items) /\ w # <<>>
  BY <1>1, HeadItem DEF EInv
<1>3. v \in Seq(Items) /\ Beyond(v, w)
  BY <1>1, <1>2, UnkeyedHead
<1>4. th' = [th EXCEPT ![t].work = v]
  BY <1>1
<1>5. /\ th'[t].work = v /\ \A u \in Threads : u # t => th'[u] = th[u]
      /\ \A u \in Threads : th'[u].pc = th[u].pc
  BY <1>3, <1>4, WorkChanges, Zenon DEF EInv
<1>6. fired' = IF w[1].key = <<>> THEN fired ELSE Append(fired, w[1].key)
  BY <1>1 DEF Note
<1>7. Beyond(th'[t].work, w)
  BY <1>3, <1>5
<1>8. w = th[t].work
  BY <1>1
<1>9. QED
  BY <1>2, <1>5, <1>6, <1>7, <1>8, ReleaseOrders, Zenon

(* An entry with a deadline ahead joins the queue behind all that fired.    *)
LEMMA ScheduleOrders ==
  ASSUME EInv, OInv, NEW d \in Nat \ {0}, NEW item \in Items, item.key = <<>>,
         ~qstopped, schedule(d, item), UNCHANGED <<fired, now>>,
         \A u \in {"run", "close"} : th'[u].pc = th[u].pc /\ Within(th'[u].work, th[u].work),
         \A h \in Handlers : Unkeyed(th'[h].work),
         \A f \in Flows : held'[f] # <<>> => held'[f][1].item.key = <<>>
  PROVE  OInv'
<1>1. PICK e : e = [at |-> now + d, seq |-> qseq + 1, item |-> item]
  BY Zenon
<1>2. /\ queue' = queue \cup {e} /\ UNCHANGED qstopped
      /\ e.at = now + d /\ e.item.key = <<>>
  BY <1>1 DEF schedule
<1>3. /\ now \in Nat /\ e.at > now
  <2>1. now \in Nat
    BY DEF EInv, Types
  <2>2. QED
    BY ONLY <1>2, <2>1, d \in Nat \ {0}
<1>4. /\ th'["run"].pc = th["run"].pc /\ th'["close"].pc = th["close"].pc
      /\ Within(th'["run"].work, th["run"].work) /\ Within(th'["close"].work, th["close"].work)
  OBVIOUS
<1>a. /\ \A k : Leads(k, th["run"].work) => Leads(k, th'["run"].work)
      /\ \A k : Leads(k, th["close"].work) => Leads(k, th'["close"].work)
      /\ Unkeyed(th["close"].work) => Unkeyed(th'["close"].work)
      /\ Sorted(th["close"].work) => Sorted(th'["close"].work)
      /\ \A i \in DOMAIN th'["run"].work : th'["run"].work[i].key # <<>> =>
           \E j \in DOMAIN th["run"].work : th["run"].work[j].key = th'["run"].work[i].key
  BY <1>4, WithinKeeps, Zenon
<1>5. Unfired'
  BY <1>2 DEF OInv, Unfired
<1>6. Phased'
  BY <1>2, <1>4 DEF OInv, Phased
<1>7. Timely'
  BY <1>2, <1>a, Zenon DEF OInv, Timely
<1>8. ASSUME NEW k, k[1] \in Nat, k[1] <= now, LeadsQueue(k, queue)
      PROVE  LeadsQueue(k, queue')
  <2>1. k[1] < e.at
    BY <1>2, <1>3, <1>8
  <2>2. Less(k, <<e.at, e.seq>>)
    BY <2>1 DEF Less
  <2>3. QED
    BY <1>2, <1>8, <2>2, Zenon DEF LeadsQueue
<1>9. \A i \in DOMAIN fired : fired[i][1] \in Nat /\ fired[i][1] <= now
  <2>1. fired \in Seq(Nat \X Nat)
    BY DEF EInv, Types
  <2>2. \A i \in DOMAIN fired : fired[i][1] \in Nat
    BY ONLY <2>1
  <2>3. \A i \in DOMAIN fired : fired[i][1] <= now
    BY Zenon DEF OInv, Timely
  <2>4. QED
    BY ONLY <2>2, <2>3, Zenon
<1>10. \A i \in DOMAIN th["run"].work : th["run"].work[i].key # <<>> =>
         th["run"].work[i].key[1] \in Nat /\ th["run"].work[i].key[1] <= now
  BY WorkKeys, Zenon DEF EInv, OInv, Timely, Threads
<1>11. InTurn'
  <2>1. \A i \in DOMAIN fired : /\ LeadsQueue(fired[i], queue') /\ Leads(fired[i], th'["run"].work)
                               /\ Leads(fired[i], th'["close"].work)
    BY <1>a, <1>8, <1>9, Zenon DEF OInv, InTurn
  <2>2. ASSUME NEW j \in DOMAIN th["run"].work, th["run"].work[j].key # <<>>
        PROVE  /\ LeadsQueue(th["run"].work[j].key, queue')
               /\ Leads(th["run"].work[j].key, th'["close"].work)
    BY <1>a, <1>8, <1>10, <2>2, Zenon DEF OInv, InTurn
  <2>3. Sorted(th'["close"].work)
    BY <1>a, Zenon DEF OInv, InTurn
  <2>4. \A i \in DOMAIN th'["run"].work : th'["run"].work[i].key # <<>> =>
          /\ LeadsQueue(th'["run"].work[i].key, queue')
          /\ Leads(th'["run"].work[i].key, th'["close"].work)
    BY <1>a, <2>2, Zenon
  <2>5. QED
    BY <2>1, <2>3, <2>4, Zenon DEF InTurn
<1>12. FiredInOrder'
  BY FiredSame DEF OInv
<1>13. QED
  BY <1>5, <1>6, <1>7, <1>11, <1>12 DEF OInv

LEMMA AdmitOrders ==
  ASSUME EInv, OInv, NEW t \in Threads, Sending(t), admit(t) PROVE OInv'
<1>1. PICK item \in Items, free \in Nat : Admitted(t, item, free)
  BY AdmitMeans DEF EInv
<1>2. /\ th[t].work # <<>> /\ th[t].work[1] = item /\ Note(th[t].work[1]) /\ free >= now
  BY <1>1 DEF Admitted
<1>3. UNCHANGED <<queue, held, qstopped, now>>
  BY Zenon DEF admit, deferral
<1>4. CASE Pop(t)
  BY <1>2, <1>3, <1>4, PopOrders
<1>5. CASE th' = [th EXCEPT ![t].work =
               [th[t].work EXCEPT ![1] = [item EXCEPT !.wait = free - now, !.key = <<>>]]]
  <2>1. free - now \in Nat
    BY <1>2 DEF EInv, Types
  <2>2. PICK y : y = [item EXCEPT !.wait = free - now, !.key = <<>>]
    OBVIOUS
  <2>3. y \in Items /\ y.key = <<>>
    BY <2>1, <2>2, ItemKeeps, Zenon
  <2>4. th' = [th EXCEPT ![t].work = [th[t].work EXCEPT ![1] = y]]
    BY <1>5, <2>2
  <2>5. QED
    BY <1>2, <1>3, <2>3, <2>4, HeadOrders, Zenon
<1>6. QED
  BY <1>1, <1>4, <1>5 DEF Admitted

LEMMA ForwardOrders ==
  ASSUME EInv, OInv, NEW t \in Threads, Sending(t), Forward(t) PROVE OInv'
<1>1. th[t].work # <<>> /\ Pop(t) /\ Note(Head(th[t].work)) /\ UNCHANGED <<queue, held, qstopped, now>>
  BY Zenon DEF Forward, deferral
<1>2. Head(th[t].work) = th[t].work[1]
  BY <1>1, HeadItem DEF EInv
<1>3. QED
  BY <1>1, <1>2, PopOrders, Zenon

LEMMA EnqueueOrders ==
  ASSUME EInv, OInv, NEW t \in Threads, Sending(t), Enqueue(t) PROVE OInv'
<1>1. th[t].work # <<>> /\ UNCHANGED <<held, now, fired>>
  BY DEF Enqueue, outcome
<1>2. /\ th[t].work \in Seq(Items)
      /\ th[t].work[1] \in Items /\ Head(th[t].work) = th[t].work[1]
  BY <1>1, HeadItem DEF EInv
<1>3. PICK item \in Items : item = th[t].work[1] /\ item = Head(th[t].work)
  BY <1>2
<1>4. item.wait \in Nat \ {0} /\ item.key = <<>>
  BY <1>3 DEF Enqueue, Items
<1>5. PICK y : y = [item EXCEPT !.wait = 0]
  BY Zenon
<1>6. y \in Items /\ y.key = <<>>
  BY <1>4, <1>5, ItemKeeps, Zenon
<1>7. Note(th[t].work[1])
  BY <1>1, <1>3, <1>4 DEF Note
<1>8. CASE qstopped
  <2>1. th' = [th EXCEPT ![t].work = [th[t].work EXCEPT ![1] = y]]
    BY <1>2, <1>3, <1>5, <1>8 DEF Enqueue
  <2>2. UNCHANGED <<queue, qstopped>>
    BY <1>8 DEF Enqueue, deferral
  <2>3. QED
    BY <1>1, <1>6, <1>7, <2>1, <2>2, HeadOrders, Zenon
<1>9. CASE ~qstopped
  <2>1. schedule(item.wait, y) /\ Pop(t)
    BY <1>3, <1>5, <1>9 DEF Enqueue
  <2>2. /\ Tail(th[t].work) \in Seq(Items)
        /\ th' = [th EXCEPT ![t].work = Tail(th[t].work)]
    BY <1>1, <2>1, PopChanges DEF EInv
  <2>3. /\ th'[t].work = Tail(th[t].work) /\ \A u \in Threads : u # t => th'[u] = th[u]
    BY <2>2, WorkChanges, Zenon DEF EInv
  <2>4. Within(th'[t].work, th[t].work)
    BY <1>1, <1>2, <2>3, TailIsBeyond, BeyondIsWithin, Zenon
  <2>5. \A u \in Threads : th'[u].pc = th[u].pc /\ Within(th'[u].work, th[u].work)
    <3> TAKE u \in Threads
    <3>1. th[u].work \in Seq(Items)
      BY DEF EInv, Types, ThreadStates
    <3>2. th'[u].pc = th[u].pc
      BY <2>2, WorkChanges DEF EInv
    <3>3. QED
      BY <2>3, <2>4, <3>1, <3>2, WithinItself
  <2>6. \A h \in Handlers : Unkeyed(th'[h].work)
    BY <2>5, WithinKeeps, ThreadNames, Zenon DEF OInv, Unfired
  <2>7. \A f \in Flows : held'[f] # <<>> => held'[f][1].item.key = <<>>
    BY <1>1 DEF OInv, Unfired
  <2>8. \A u \in {"run", "close"} : th'[u].pc = th[u].pc /\ Within(th'[u].work, th[u].work)
    BY <2>5 DEF Threads
  <2>9. QED
    BY <1>1, <1>4, <1>6, <1>9, <2>1, <2>6, <2>7, <2>8, ScheduleOrders, Zenon
<1>10. QED
  BY <1>8, <1>9

(* A handler's step leaves the goroutine and Close alone.                   *)
LEMMA HandlerOrders ==
  ASSUME EInv, OInv, NEW h \in Handlers, \A u \in Threads : u # h => th'[u] = th[u],
         Unkeyed(th'[h].work), \A f \in Flows : held'[f] # <<>> => held'[f][1].item.key = <<>>,
         UNCHANGED <<queue, fired, qstopped, now>>
  PROVE  OInv'
<1>1. th'["run"] = th["run"] /\ th'["close"] = th["close"]
  BY DEF Threads, Handlers
<1>2. \A k \in Handlers : Unkeyed(th'[k].work)
  <2>1. \A k \in Handlers : k # h => th'[k] = th[k]
    BY ThreadNames
  <2>2. QED
    BY <2>1 DEF OInv, Unfired
<1>3. Unfired'
  BY <1>2 DEF OInv, Unfired
<1>4. Phased'
  BY <1>1 DEF OInv, Phased
<1>5. QED
  BY <1>1, <1>3, <1>4, OrderFrame

LEMMA ArriveOrders ==
  ASSUME EInv, OInv, NEW h \in Handlers, Arrive(h) PROVE OInv'
<1>1. PICK p, f : p = Head(pend[h]) /\ f = flowID(p)
  OBVIOUS
<1>2. pend[h] # <<>> /\ Free(h) /\ pend' = [pend EXCEPT ![h] = Tail(@)]
      /\ UNCHANGED <<queue, fired, qstopped, now>>
  BY Zenon DEF Arrive, deferral
<1>3. p \in Packets /\ f \in Flows
  <2>1. p \in Packets
    BY <1>1, <1>2, TakesPacket, Zenon
  <2>2. QED
    BY <1>1, <2>1 DEF Flows
<1>4. PICK item : item = paced(p, shaper[h])
  OBVIOUS
<1>5. item.key = <<>>
  BY <1>4 DEF paced
<1>6. th \in [Threads -> ThreadStates] /\ h \in Threads /\ held \in [Flows -> HeldLists]
  BY ThreadNames DEF EInv, Types
<1>7. \E m : Unkeyed(m.work) /\ th' = [th EXCEPT ![h] = m]
  <2>1. CASE th' = [th EXCEPT ![h] = [Idle EXCEPT !.pkt = p, !.pc = "send", !.work = <<item>>]]
    <3>1. PICK w : w = <<item>>
      BY Zenon
    <3>2. [Idle EXCEPT !.pkt = p, !.pc = "send", !.work = w]
             = [pc |-> "send", pkt |-> p, sh |-> 0, rule |-> NoRule, work |-> w]
      BY SendRecord, Zenon
    <3>3. Unkeyed(w)
      BY <1>5, <3>1 DEF Unkeyed
    <3>4. PICK m : m = [pc |-> "send", pkt |-> p, sh |-> 0, rule |-> NoRule, work |-> w]
      BY Zenon
    <3>5. m.work = w
      BY <3>4
    <3>6. th' = [th EXCEPT ![h] = m]
      BY <2>1, <3>1, <3>2, <3>4, Zenon
    <3>7. QED
      BY <3>3, <3>5, <3>6, Zenon
  <2>2. CASE \E r, w : /\ w = IF advanceDue(f) THEN <<held[f][1].item>> ELSE <<>>
                       /\ th' = [th EXCEPT ![h] = [Idle EXCEPT !.pkt = p, !.sh = shaper[h], !.rule = r,
                                                               !.pc = "act", !.work = w]]
    <3>1. PICK r, w : /\ w = IF advanceDue(f) THEN <<held[f][1].item>> ELSE <<>>
                      /\ th' = [th EXCEPT ![h] = [Idle EXCEPT !.pkt = p, !.sh = shaper[h], !.rule = r,
                                                              !.pc = "act", !.work = w]]
      BY <2>2, Zenon
    <3>2. PICK s : s = shaper[h]
      OBVIOUS
    <3>3. [Idle EXCEPT !.pkt = p, !.sh = s, !.rule = r, !.pc = "act", !.work = w]
           = [pc |-> "act", pkt |-> p, sh |-> s, rule |-> r, work |-> w]
      <4>1. [Idle EXCEPT !.pkt = p] = [pc |-> "idle", pkt |-> p, sh |-> 0, rule |-> NoRule, work |-> <<>>]
        BY DEF Idle
      <4>2. [[pc |-> "idle", pkt |-> p, sh |-> 0, rule |-> NoRule, work |-> <<>>] EXCEPT !.sh = s]
               = [pc |-> "idle", pkt |-> p, sh |-> s, rule |-> NoRule, work |-> <<>>]
        OBVIOUS
      <4>3. [[pc |-> "idle", pkt |-> p, sh |-> s, rule |-> NoRule, work |-> <<>>] EXCEPT !.rule = r]
               = [pc |-> "idle", pkt |-> p, sh |-> s, rule |-> r, work |-> <<>>]
        OBVIOUS
      <4>4. [[pc |-> "idle", pkt |-> p, sh |-> s, rule |-> r, work |-> <<>>] EXCEPT !.pc = "act"]
               = [pc |-> "act", pkt |-> p, sh |-> s, rule |-> r, work |-> <<>>]
        OBVIOUS
      <4>5. [[pc |-> "act", pkt |-> p, sh |-> s, rule |-> r, work |-> <<>>] EXCEPT !.work = w]
               = [pc |-> "act", pkt |-> p, sh |-> s, rule |-> r, work |-> w]
        OBVIOUS
      <4>6. QED
        BY <4>1, <4>2, <4>3, <4>4, <4>5, Zenon
    <3>4. Unkeyed(w)
      <4>1. CASE advanceDue(f)
        <5>1. PICK x : x = held[f][1].item
          OBVIOUS
        <5>2. x.key = <<>> /\ w = <<x>>
          BY <1>3, <3>1, <4>1, <5>1 DEF OInv, Unfired, advanceDue
        <5>3. QED
          BY <5>2 DEF Unkeyed
      <4>2. CASE ~advanceDue(f)
        BY <3>1, <4>2 DEF Unkeyed
      <4>3. QED
        BY <4>1, <4>2
    <3>5. PICK m : m = [pc |-> "act", pkt |-> p, sh |-> s, rule |-> r, work |-> w]
      BY Zenon
    <3>6. m.work = w
      BY <3>5
    <3>7. th' = [th EXCEPT ![h] = m]
      BY <3>1, <3>2, <3>3, <3>5, Zenon
    <3>8. QED
      BY <3>4, <3>6, <3>7, Zenon
  <2>3. QED
    BY <1>1, <1>4, <2>1, <2>2, Zenon DEF Arrive
<1>8. /\ \A u \in Threads : u # h => th'[u] = th[u]
      /\ Unkeyed(th'[h].work)
  BY <1>6, <1>7
<1>9. \A g \in Flows : held'[g] # <<>> => held'[g][1].item.key = <<>>
  <2>1. CASE held' = held
    BY <2>1 DEF OInv, Unfired
  <2>2. CASE held' = advance(f)
    <3>1. \A g \in Flows : g # f => held'[g] = held[g]
      BY <1>6, <2>2 DEF advance
    <3>2. held'[f] # <<>> => held'[f][1].item.key = <<>>
      <4>1. CASE held[f] = <<>> \/ advanceDue(f)
        BY <1>3, <1>6, <2>2, <4>1 DEF advance
      <4>2. CASE ~(held[f] = <<>> \/ advanceDue(f))
        <5>1. PICK e : e = held[f][1]
          OBVIOUS
        <5>2. e \in [remaining : Int, item : Items] /\ e.item.key = <<>>
          BY <1>3, <1>6, <4>2, <5>1, FirstIsIn, Zenon DEF HeldLists, OInv, Unfired
        <5>3. PICK e2 : e2 = [e EXCEPT !.remaining = @ - 1]
          BY Zenon
        <5>4. e2.item = e.item
          BY <5>2, <5>3
        <5>5. held'[f] = <<e2>>
          BY <1>3, <1>6, <2>2, <4>2, <5>1, <5>3 DEF advance
        <5>6. QED
          BY <5>2, <5>4, <5>5
      <4>3. QED
        BY <4>1, <4>2
    <3>3. QED
      BY <3>1, <3>2 DEF OInv, Unfired
  <2>3. QED
    BY <1>1, <2>1, <2>2, Zenon DEF Arrive
<1>10. QED
  BY <1>2, <1>8, <1>9, HandlerOrders, Zenon

LEMMA ActOnOrders ==
  ASSUME EInv, OInv, NEW h \in Handlers, ActOn(h) PROVE OInv'
<1>1. PICK p, r, s : p = th[h].pkt /\ r = th[h].rule /\ s = th[h].sh
  OBVIOUS
<1>2. PICK item : item = paced(p, s)
  OBVIOUS
<1>3. /\ h \in Threads /\ th[h] \in ThreadStates /\ th[h].pc = "act" /\ th[h].work \in Seq(Items)
  BY ThreadNames DEF EInv, Types, ActOn, ThreadStates
<1>4. /\ p \in Packets /\ r \in LoadedRules /\ s \in ShaperRefs
  BY <1>1, <1>3, Zenon DEF EInv, Placed, ThreadStates
<1>5. /\ item \in Items /\ item.key = <<>>
  BY <1>2, <1>4, PacedItem
<1>6. UNCHANGED <<fired, now>>
  BY DEF ActOn
<1>7. PICK x : x = IF \/ r.action = "delay" /\ ~qstopped
                      \/ r.action = "reorder" /\ held[flowID(p)] = <<>>
                   THEN <<>> ELSE Copies(item, CopiesAsked(r))
  OBVIOUS
<1>8. th' = [th EXCEPT ![h] = [Idle EXCEPT !.pkt = p, !.pc = "send", !.work = x \o th[h].work]]
  BY <1>1, <1>2, <1>7 DEF ActOn
<1>9. x \in Seq(Items) /\ Unkeyed(x)
  <2>1. CopiesAsked(r) \in Nat
    BY <1>4 DEF LoadedRules, GoodRule
  <2>2. Copies(item, CopiesAsked(r)) \in Seq(Items) /\ Unkeyed(Copies(item, CopiesAsked(r)))
    BY <1>5, <2>1 DEF Copies, Unkeyed
  <2>3. <<>> \in Seq(Items) /\ Unkeyed(<<>>)
    BY DEF Unkeyed
  <2>4. QED
    BY <1>7, <2>2, <2>3
<1>10. PICK w : w = x \o th[h].work
  BY Zenon
<1>11. Unkeyed(w)
  <2>1. Unkeyed(th[h].work)
    BY DEF OInv, Unfired
  <2>2. \A y, z \in Seq(Items) : \A i \in DOMAIN (y \o z) :
          \/ i \in DOMAIN y /\ (y \o z)[i] = y[i]
          \/ i - Len(y) \in DOMAIN z /\ (y \o z)[i] = z[i - Len(y)]
    OBVIOUS
  <2>3. QED
    BY <1>3, <1>9, <1>10, <2>1, <2>2 DEF Unkeyed
<1>12. th' = [th EXCEPT ![h] = [pc |-> "send", pkt |-> p, sh |-> 0, rule |-> NoRule, work |-> w]]
  <2>1. [Idle EXCEPT !.pkt = p, !.pc = "send", !.work = w]
           = [pc |-> "send", pkt |-> p, sh |-> 0, rule |-> NoRule, work |-> w]
    BY SendRecord, Zenon
  <2>2. QED
    BY <1>8, <1>10, <2>1, Zenon
<1>13. /\ \A u \in Threads : u # h => th'[u] = th[u]
       /\ Unkeyed(th'[h].work)
  BY <1>3, <1>11, <1>12 DEF EInv, Types
<1>14. CASE r.action = "delay" /\ ~qstopped
  <2>1. schedule(r.by, item) /\ held' = held /\ r.by \in Nat \ {0}
    BY <1>1, <1>2, <1>4, <1>14 DEF ActOn, LoadedRules, GoodRule
  <2>2. \A u \in {"run", "close"} : th'[u].pc = th[u].pc /\ Within(th'[u].work, th[u].work)
    <3> TAKE u \in {"run", "close"}
    <3>1. u \in Threads /\ u # h
      BY DEF Threads, Handlers
    <3>2. th'[u] = th[u] /\ th[u].work \in Seq(Items)
      BY <1>13, <3>1, Zenon DEF EInv, Types, ThreadStates
    <3>3. QED
      BY <3>2, WithinItself
  <2>3. \A k \in Handlers : Unkeyed(th'[k].work)
    <3>1. \A k \in Handlers : k # h => th'[k] = th[k]
      BY <1>13, ThreadNames, Zenon
    <3>2. QED
      BY <1>13, <3>1 DEF OInv, Unfired
  <2>4. \A f \in Flows : held'[f] # <<>> => held'[f][1].item.key = <<>>
    BY <2>1 DEF OInv, Unfired
  <2>5. QED
    BY <1>5, <1>6, <1>14, <2>1, <2>2, <2>3, <2>4, ScheduleOrders, Zenon
<1>15. CASE ~(r.action = "delay" /\ ~qstopped)
  <2>1. UNCHANGED <<queue, qstopped>>
    BY <1>1, <1>15 DEF ActOn, deferral
  <2>2. \A f \in Flows : held'[f] # <<>> => held'[f][1].item.key = <<>>
    <3>1. CASE held' = held
      BY <3>1 DEF OInv, Unfired
    <3>2. CASE held' = [held EXCEPT ![flowID(p)] = <<[remaining |-> r.by, item |-> item]>>]
      <4>1. PICK e : e = [remaining |-> r.by, item |-> item]
        BY Zenon
      <4>2. e.item.key = <<>>
        BY <1>5, <4>1
      <4>3. \A f \in Flows : held'[f] = held[f] \/ held'[f] = <<e>>
        BY <3>2, <4>1 DEF EInv, Types
      <4>4. QED
        BY <4>2, <4>3 DEF OInv, Unfired
    <3>3. QED
      BY <1>1, <1>2, <3>1, <3>2, Zenon DEF ActOn
  <2>3. QED
    BY <1>6, <1>13, <2>1, <2>2, HandlerOrders
<1>16. QED
  BY <1>14, <1>15

(* Steps in which a thread's program counter moves, or no thread moves.     *)
LEMMA QuietOrders ==
  ASSUME EInv, OInv, UNCHANGED <<queue, held, fired, qstopped>>, now' \in {now, now + 1},
         \A u \in Threads : th'[u].work = th[u].work, Phased'
  PROVE  OInv'
<1>1. th'["run"].work = th["run"].work /\ th'["close"].work = th["close"].work
      /\ \A h \in Handlers : th'[h].work = th[h].work
  BY DEF Threads
<1>2. Unfired'
  BY <1>1, UnfiredSame DEF OInv
<1>3. QED
  BY <1>1, <1>2, OrderFrame

LEMMA PcOrders ==
  ASSUME EInv, OInv, UNCHANGED <<queue, held, fired, qstopped, now>>,
         NEW t \in Threads, NEW c \in Pcs, th' = [th EXCEPT ![t].pc = c],
         \/ t \in Handlers
         \/ t = "run" /\ th["run"].pc # "exit"
         \/ t = "close" /\ th["close"].pc = "idle" /\ c = "drain"
         \/ t = "close" /\ th["close"].pc = "wait" /\ c = "flush" /\ th["run"].pc = "exit"
         \/ t = "close" /\ th["close"].pc = "flush" /\ c = "closed"
  PROVE  OInv'
<1>1. /\ th'[t].pc = c
      /\ \A u \in Threads : u # t => th'[u] = th[u]
      /\ \A u \in Threads : th'[u].work = th[u].work
  BY PcChanges, Zenon DEF EInv
<1>2. Phased'
  <2>1. "run" \in Threads /\ "close" \in Threads /\ "run" \notin Handlers /\ "close" \notin Handlers
    BY DEF Threads, Handlers
  <2>2. CASE t \in Handlers
    <3>1. th'["run"] = th["run"] /\ th'["close"] = th["close"]
      BY <1>1, <2>1, <2>2
    <3>2. QED
      BY <3>1, Zenon DEF OInv, Phased
  <2>3. CASE t = "run" /\ th["run"].pc # "exit"
    <3>1. th'["close"] = th["close"]
      BY <1>1, <2>1, <2>3
    <3>2. QED
      BY <2>3, <3>1 DEF OInv, Phased
  <2>4. CASE t = "close"
    <3>1. th'["run"] = th["run"] /\ th'["close"].pc = c
      BY <1>1, <2>1, <2>4
    <3>2. QED
      BY <2>1, <2>4, <3>1 DEF OInv, Phased
  <2>5. QED
    BY <2>2, <2>3, <2>4
<1>3. QED
  BY <1>1, <1>2, QuietOrders

LEMMA ScanOrders ==
  ASSUME EInv, OInv, Scan PROVE OInv'
<1>1. th["run"].pc = "scan" /\ th["run"].work = <<>> /\ UNCHANGED <<held, fired, now>>
  BY DEF Scan, outcome
<1>2. "exit" \in Pcs /\ "sleep" \in Pcs /\ "run" \in Threads
  BY DEF Pcs, Threads
<1>3. CASE /\ th' = [th EXCEPT !["run"].pc = "exit"] /\ UNCHANGED <<queue, qstopped>>
  BY <1>1, <1>2, <1>3, PcOrders, Zenon
<1>4. CASE /\ th' = [th EXCEPT !["run"].pc = "sleep"] /\ UNCHANGED <<queue, qstopped>>
  BY <1>1, <1>2, <1>4, PcOrders, Zenon
<1>5. ASSUME NEW d \in Soonest, d.at <= now, th' = [th EXCEPT !["run"].work = <<Fired(d)>>],
             queue' = queue \ {d}, ~qstopped, qstopped' = qstopped
      PROVE  OInv'
  <2>1. d \in queue /\ \A e \in queue \ {d} : Before(d, e)
    BY DEF Soonest
  <2>2. PICK k, x : k = <<d.at, d.seq>> /\ x = Fired(d)
    BY Zenon
  <2>3. x \in Items /\ x.key = k
    BY <2>1, <2>2, FiredItem, Zenon DEF EInv, Types, Numbered
  <2>4. <<x>> \in Seq(Items)
    BY <2>3
  <2>5. PICK w \in Seq(Items) : w = <<x>>
    BY <2>4, Zenon
  <2>6. th' = [th EXCEPT !["run"].work = w]
    BY <1>5, <2>2, <2>5
  <2>7. /\ th'["run"].work = w /\ \A u \in Threads : u # "run" => th'[u] = th[u]
        /\ \A u \in Threads : th'[u].pc = th[u].pc
    BY <1>2, <2>6, WorkChanges, Zenon DEF EInv
  <2>8. DOMAIN w = {1} /\ w[1].key = k /\ k # <<>> /\ k[1] = d.at
    BY <2>2, <2>3, <2>5
  <2>9. th'["close"] = th["close"] /\ \A h \in Handlers : th'[h] = th[h]
    BY <2>7, ThreadNames DEF Threads, Handlers
  <2>10. Unfired'
    BY <1>1, <1>5, <2>9, Zenon DEF OInv, Unfired
  <2>11. Phased'
    BY <1>1, <1>2, <1>5, <2>7, <2>9 DEF OInv, Phased
  <2>12. Timely'
    <3>1. \A i \in DOMAIN w : w[i].key[1] <= now
      BY <1>5, <2>8
    <3>2. QED
      BY <1>1, <1>5, <2>7, <2>9, <3>1 DEF OInv, Timely
  <2>13. LeadsQueue(k, queue')
    BY <1>5, <2>1, <2>2 DEF LeadsQueue, Less, Before
  <2>14. \A y : Unkeyed(th'["close"].work) /\ Leads(y, th'["close"].work)
    BY <1>5, <2>9 DEF OInv, Timely, Unkeyed, Leads
  <2>15. \A i \in DOMAIN fired : LeadsQueue(fired[i], queue') /\ Leads(fired[i], w)
    <3> TAKE i \in DOMAIN fired
    <3>1. LeadsQueue(fired[i], queue)
      BY Zenon DEF OInv, InTurn
    <3>2. LeadsQueue(fired[i], queue')
      BY <1>5, <3>1, Zenon DEF LeadsQueue
    <3>3. Less(fired[i], k)
      BY <2>1, <2>2, <3>1 DEF LeadsQueue
    <3>4. QED
      BY <2>8, <3>2, <3>3 DEF Leads
  <2>16. InTurn'
    BY <1>1, <2>7, <2>8, <2>9, <2>13, <2>14, <2>15, Zenon DEF OInv, InTurn
  <2>17. FiredInOrder'
    BY <1>1, FiredSame DEF OInv
  <2>18. QED
    BY <2>10, <2>11, <2>12, <2>16, <2>17 DEF OInv
<1>6. QED
  BY <1>3, <1>4, <1>5 DEF Scan, deferral

LEMMA drainOrders ==
  ASSUME EInv, OInv, drain PROVE OInv'
<1>1. th["close"].pc = "drain" /\ held' = [f \in Flows |-> <<>>] /\ UNCHANGED <<fired, now, queue, qstopped>>
  BY DEF drain, outcome, deferral
<1>2. PICK fs \in Orders(Holding) :
         th' = [th EXCEPT !["close"].pc = "stop",
                          !["close"].work = [i \in DOMAIN fs |-> held[fs[i]][1].item]]
  BY Zenon DEF drain
<1>3. PICK w : w = [i \in DOMAIN fs |-> held[fs[i]][1].item]
  BY Zenon
<1>4. PICK m : m = [th EXCEPT !["close"].pc = "stop"]
  BY Zenon
<1>5. th \in [Threads -> ThreadStates] /\ "close" \in Threads /\ "run" \in Threads
  BY DEF EInv, Types, Threads
<1>6. /\ m \in [Threads -> ThreadStates] /\ m["close"].pc = "stop"
      /\ \A u \in Threads : u # "close" => m[u] = th[u]
  BY <1>4, <1>5, Zenon DEF ThreadStates, Pcs
<1>7. th' = [m EXCEPT !["close"].work = w]
  BY <1>2, <1>3, <1>4
<1>8. /\ th'["close"].pc = "stop" /\ th'["close"].work = w
      /\ \A u \in Threads : u # "close" => th'[u] = th[u]
  BY ONLY <1>5, <1>6, <1>7 DEF ThreadStates
<1>9. th'["run"] = th["run"] /\ \A h \in Handlers : th'[h] = th[h]
  BY <1>8, ThreadNames DEF Threads, Handlers
<1>10. \A i \in DOMAIN fs : fs[i] \in Holding
  BY DEF Orders, Injection, IsInjective
<1>11. Unkeyed(w)
  BY <1>3, <1>10 DEF Unkeyed, Holding, OInv, Unfired
<1>12. ~qstopped
  BY <1>1 DEF OInv, Phased
<1>13. Unfired'
  BY <1>1, <1>9 DEF OInv, Unfired
<1>14. Phased'
  BY <1>1, <1>8, <1>12 DEF Phased
<1>15. Timely'
  BY <1>1, <1>8, <1>9, <1>11, <1>12, Zenon DEF OInv, Timely
<1>16. (\A y : Leads(y, w)) /\ Sorted(w)
  BY <1>11 DEF Unkeyed, Leads, Sorted
<1>17. InTurn'
  BY <1>1, <1>8, <1>9, <1>16, Zenon DEF OInv, InTurn
<1>18. FiredInOrder'
  BY <1>1, FiredSame, Zenon DEF OInv
<1>19. QED
  BY <1>13, <1>14, <1>15, <1>17, <1>18 DEF OInv

LEMMA StopQueueOrders ==
  ASSUME EInv, OInv, StopQueue PROVE OInv'
<1>1. th["close"].pc = "stop" /\ queue' = {} /\ qstopped' = TRUE /\ UNCHANGED <<held, fired, now>>
  BY DEF StopQueue, outcome
<1>2. PICK es \in Orders(queue) :
         /\ \A i, j \in DOMAIN es : i < j => Before(es[i], es[j])
         /\ th' = [th EXCEPT !["close"].pc = "wait",
                             !["close"].work = [i \in DOMAIN es |-> Fired(es[i])]]
  BY Zenon DEF StopQueue
<1>3. PICK w : w = [i \in DOMAIN es |-> Fired(es[i])]
  BY Zenon
<1>4. PICK m : m = [th EXCEPT !["close"].pc = "wait"]
  BY Zenon
<1>5. th \in [Threads -> ThreadStates] /\ "close" \in Threads /\ "run" \in Threads
  BY DEF EInv, Types, Threads
<1>6. /\ m \in [Threads -> ThreadStates] /\ m["close"].pc = "wait"
      /\ \A u \in Threads : u # "close" => m[u] = th[u]
  BY <1>4, <1>5, Zenon DEF ThreadStates, Pcs
<1>7. th' = [m EXCEPT !["close"].work = w]
  BY <1>2, <1>3, <1>4
<1>8. /\ th'["close"].pc = "wait" /\ th'["close"].work = w
      /\ \A u \in Threads : u # "close" => th'[u] = th[u]
  BY ONLY <1>5, <1>6, <1>7 DEF ThreadStates
<1>9. th'["run"] = th["run"] /\ \A h \in Handlers : th'[h] = th[h]
  BY <1>8, ThreadNames DEF Threads, Handlers
<1>10. \A i \in DOMAIN es : es[i] \in queue
  BY DEF Orders, Injection, IsInjective
<1>11. DOMAIN w = DOMAIN es /\ \A i \in DOMAIN es : w[i].key = <<es[i].at, es[i].seq>>
  <2>1. \A i \in DOMAIN es : Fired(es[i]).key = <<es[i].at, es[i].seq>>
    BY <1>10, FiredItem, Zenon DEF EInv, Types, Numbered
  <2>2. QED
    BY <1>3, <2>1
<1>12. \A y : LeadsQueue(y, queue) => Leads(y, w)
  BY <1>10, <1>11, Zenon DEF LeadsQueue, Leads
<1>13. Sorted(w)
  BY <1>2, <1>11 DEF Sorted, Less, Before
<1>14. \A y : LeadsQueue(y, queue')
  BY <1>1 DEF LeadsQueue
<1>15. Unfired'
  BY <1>1, <1>9 DEF OInv, Unfired
<1>16. Phased'
  BY <1>1, <1>8 DEF Phased
<1>17. Timely'
  BY <1>1 DEF Timely
<1>18. InTurn'
  BY <1>1, <1>8, <1>9, <1>12, <1>13, <1>14, Zenon DEF OInv, InTurn
<1>19. FiredInOrder'
  BY <1>1, FiredSame DEF OInv
<1>20. QED
  BY <1>15, <1>16, <1>17, <1>18, <1>19 DEF OInv

LEMMA NextOrders ==
  ASSUME EInv, OInv, [Next]_vars PROVE OInv'
<1> USE DEF Pcs
<1>1. ASSUME NEW h \in Handlers, Arrive(h) \/ ActOn(h) PROVE OInv'
  BY <1>1, ArriveOrders, ActOnOrders
<1>2. ASSUME NEW t \in Threads, Sending(t), admit(t) \/ Enqueue(t) \/ Forward(t) PROVE OInv'
  BY <1>2, AdmitOrders, EnqueueOrders, ForwardOrders
<1>3. "s2c" \in Handlers /\ "s2c" \in Threads /\ "run" \in Threads /\ "close" \in Threads
  BY DEF Handlers, Threads
<1>4. CASE Seal
  <2>1. th' = [th EXCEPT !["s2c"].pc = "write"] /\ UNCHANGED <<queue, held, fired, qstopped, now>>
    BY <1>4 DEF Seal, deferral, outcome
  <2>2. PICK c \in Pcs : c = "write"
    OBVIOUS
  <2> HIDE DEF Pcs
  <2>3. /\ \A u \in Threads : u # "s2c" => th'[u] = th[u]
        /\ \A u \in Threads : th'[u].work = th[u].work
    BY <1>3, <2>1, <2>2, PcChanges DEF EInv
  <2>4. Phased'
    BY <1>3, <2>1, <2>3 DEF OInv, Phased
  <2>5. QED
    BY <2>1, <2>3, <2>4, QuietOrders
<1>5. CASE WriteBatch
  <2>1. th' = [th EXCEPT !["s2c"] = Idle] /\ UNCHANGED <<queue, held, fired, qstopped, now>>
    BY <1>5 DEF WriteBatch, deferral
  <2>2. th'["s2c"].work = <<>> /\ \A u \in Threads : u # "s2c" => th'[u] = th[u]
    <3>1. PICK m : m = Idle
      OBVIOUS
    <3>2. th' = [th EXCEPT !["s2c"] = m] /\ m.work = <<>>
      BY <2>1, <3>1, IdleState
    <3>3. QED
      BY <1>3, <3>2, Zenon DEF EInv, Types
  <2>3. Unkeyed(th'["s2c"].work)
    BY <2>2 DEF Unkeyed
  <2>4. \A f \in Flows : held'[f] # <<>> => held'[f][1].item.key = <<>>
    BY <2>1, Zenon DEF OInv, Unfired
  <2>5. QED
    BY <1>3, <2>1, <2>2, <2>3, <2>4, HandlerOrders
<1>6. CASE Sleep
  <2>1. \E c \in {"scan", "exit"} : th' = [th EXCEPT !["run"].pc = c]
    BY <1>6 DEF Sleep
  <2>2. th["run"].pc = "sleep" /\ UNCHANGED <<queue, held, fired, qstopped, now>>
    BY <1>6 DEF Sleep, outcome
  <2>3. QED
    BY <1>3, <2>1, <2>2, PcOrders, Zenon
<1>7. CASE AwaitRun
  <2>1. /\ th' = [th EXCEPT !["close"].pc = "flush"] /\ UNCHANGED <<queue, held, fired, qstopped, now>>
        /\ th["close"].pc = "wait" /\ th["run"].pc = "exit"
    BY <1>7 DEF AwaitRun, deferral, outcome
  <2>2. QED
    BY <1>3, <2>1, PcOrders, Zenon
<1>8. CASE CloseWire
  <2>1. /\ th' = [th EXCEPT !["close"].pc = "closed"] /\ UNCHANGED <<queue, held, fired, qstopped, now>>
        /\ th["close"].pc = "flush"
    BY <1>8 DEF CloseWire, deferral, outcome
  <2>2. QED
    BY <1>3, <2>1, PcOrders, Zenon
<1>9. CASE CloseBegins
  <2>1. /\ th' = [th EXCEPT !["close"].pc = "drain"] /\ UNCHANGED <<queue, held, fired, qstopped, now>>
        /\ th["close"].pc = "idle"
    BY <1>9 DEF CloseBegins, deferral, outcome
  <2>2. QED
    BY <1>3, <2>1, PcOrders, Zenon
<1>10. ASSUME UNCHANGED <<th, queue, held, fired, qstopped>>, now' \in {now, now + 1}
       PROVE  OInv'
  <2>1. Phased'
    BY <1>10 DEF OInv, Phased
  <2>2. QED
    BY <1>10, <2>1, QuietOrders
<1>11. CASE Tick \/ TimerFires \/ UNCHANGED vars
  BY <1>10, <1>11, Zenon DEF Tick, TimerFires, vars, outcome, deferral, threads
<1>12. CASE \/ \E rs \in RuleSets : SetRules(rs)
            \/ \E d \in Handlers, limited \in BOOLEAN : SetBandwidth(d, limited)
            \/ ClearShapers
  BY <1>10, <1>12, Zenon DEF SetRules, SetBandwidth, ClearShapers, outcome, deferral, threads
<1>13. CASE Scan
  BY <1>13, ScanOrders
<1>14. CASE drain \/ StopQueue
  BY <1>14, drainOrders, StopQueueOrders
<1>15. QED
  BY <1>1, <1>2, <1>4, <1>5, <1>6, <1>7, <1>8, <1>9, <1>11, <1>12, <1>13, <1>14
     DEF Next, ThreadStep, ControlStep

LEMMA InitOrders == Init => OInv
<1> SUFFICES ASSUME Init PROVE OInv
  OBVIOUS
<1>1. /\ th = [t \in Threads |-> IF t = "run" THEN [Idle EXCEPT !.pc = "scan"] ELSE Idle]
      /\ queue = {} /\ qstopped = FALSE /\ held = [f \in Flows |-> <<>>] /\ fired = <<>>
  BY DEF Init
<1>2. \A t \in Threads : th[t].work = <<>> /\ th["close"].pc = "idle"
  BY <1>1 DEF Idle, Threads
<1>3. th["run"].work = <<>> /\ th["close"].work = <<>> /\ th["close"].pc = "idle"
      /\ \A h \in Handlers : th[h].work = <<>>
  BY <1>2 DEF Threads
<1>4. /\ Unkeyed(<<>>) /\ Sorted(<<>>) /\ DOMAIN <<>> = {}
  BY DEF Unkeyed, Sorted
<1>8. \A f \in Flows : held[f] = <<>>
  BY <1>1
<1>9. Unfired
  BY <1>1, <1>3, <1>4, <1>8 DEF Unfired
<1>10. InTurn /\ Timely
  BY <1>1, <1>3, <1>4 DEF InTurn, Timely
<1>5. Phased
  BY <1>1, <1>3 DEF Phased
<1>6. FiredInOrder
  BY <1>1 DEF FiredInOrder
<1>7. QED
  BY <1>5, <1>6, <1>9, <1>10 DEF OInv

(* Deferred packets fire in the order of their deadlines, equal ones in the *)
(* order they were scheduled, whatever the rules, the shapers and the       *)
(* moment Close comes: deferQueue.stop waits for the goroutine before it    *)
(* flushes, and nothing is scheduled at or before the clock.                *)
THEOREM DeferralsFireInOrder == Spec => []FiredInOrder
<1>1. Init => EInv /\ LinkInv /\ OInv
  BY InitHolds, LinkInit, InitOrders
<1>2. EInv /\ LinkInv /\ OInv /\ [Next]_vars => EInv' /\ LinkInv' /\ OInv'
  BY NextKeeps, LinkStep, NextOrders
<1>3. OInv => FiredInOrder
  BY DEF OInv
<1>4. QED
  BY <1>1, <1>2, <1>3, PTL DEF Spec
=============================================================================
