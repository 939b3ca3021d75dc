--------------------------- MODULE EndpointProofs ---------------------------
(***************************************************************************)
(* The packet endpoint implements the abstract link, which conserves       *)
(* packets, for any packets, rules, control calls and limits.              *)
(***************************************************************************)
EXTENDS EndpointSteps

----------------------------------------------------------------------------
(* The handlers: Arrive, ActOn.                                             *)

LEMMA SendRecord ==
  ASSUME NEW p, NEW w
  PROVE  [Idle EXCEPT !.pkt = p, !.pc = "send", !.work = w]
           = [pc |-> "send", pkt |-> p, sh |-> 0, rule |-> NoRule, work |-> w]
<1>1. [Idle EXCEPT !.pkt = p] = [pc |-> "idle", pkt |-> p, sh |-> 0, rule |-> NoRule, work |-> <<>>]
  BY DEF Idle
<1>2. [[pc |-> "idle", pkt |-> p, sh |-> 0, rule |-> NoRule, work |-> <<>>] EXCEPT !.pc = "send"]
         = [pc |-> "send", pkt |-> p, sh |-> 0, rule |-> NoRule, work |-> <<>>]
  OBVIOUS
<1>3. [[pc |-> "send", pkt |-> p, sh |-> 0, rule |-> NoRule, work |-> <<>>] EXCEPT !.work = w]
         = [pc |-> "send", pkt |-> p, sh |-> 0, rule |-> NoRule, work |-> w]
  OBVIOUS
<1>4. QED
  BY <1>1, <1>2, <1>3, Zenon

LEMMA HandlerChanges ==
  ASSUME Types, NEW h \in Handlers, NEW p \in Packets, NEW s \in ShaperRefs,
         NEW r \in LoadedRules, NEW c \in {"send", "act"}, NEW w \in Seq(Items),
         th' = [th EXCEPT ![h] = [pc |-> c, pkt |-> p, sh |-> s, rule |-> r, work |-> w]]
  PROVE  /\ th' \in [Threads -> ThreadStates]
         /\ th'[h].pc = c /\ th'[h].pkt = p /\ th'[h].work = w
         /\ \A u \in Threads : u # h => th'[u] = th[u]
<1>1. [pc |-> c, pkt |-> p, sh |-> s, rule |-> r, work |-> w] \in ThreadStates
  BY Zenon DEF ThreadStates, Pcs
<1>2. QED
  BY <1>1, ThreadNames, Zenon DEF Types

LEMMA PacedItem ==
  ASSUME NEW p \in Packets, NEW s \in ShaperRefs
  PROVE  /\ paced(p, s) \in Items /\ paced(p, s).p = p /\ paced(p, s).key = <<>>
         /\ paced(p, s).wait <= 0
BY DEF paced, Items, Keys

LEMMA AtRestSame ==
  ASSUME AtRest, NEW h \in Handlers, th'[h].pc \in {"send", "act"},
         \A u \in Threads : u # h => th'[u] = th[u]
  PROVE  AtRest'
<1>1. th'["run"] = th["run"] /\ th'["close"] = th["close"]
  BY Zenon DEF Threads, Handlers
<1>2. \A k \in Handlers : k # h => th'[k] = th[k]
  BY ThreadNames
<1>3. QED
  BY <1>1, <1>2, Zenon DEF AtRest

(* A handler's releases change, and the queue and the buffer with them.     *)
LEMMA HandlerInside ==
  ASSUME Types, NEW h \in Handlers, NEW q \in Packets, batch' = batch,
         \A u \in Threads : u # h => th'[u] = th[u],
         InWork(th'[h].work, q) \in Int, InQueue(q)' \in Int, InBuffer(q)' \in Int
  PROVE  /\ InWork(th[h].work, q) \in Nat /\ InQueue(q) \in Nat
         /\ InBuffer(q) \in Nat /\ Inside(q) \in Nat
         /\ Inside(q)' = Inside(q) + (InWork(th'[h].work, q) - InWork(th[h].work, q))
              + (InQueue(q)' - InQueue(q)) + (InBuffer(q)' - InBuffer(q))
<1>1. InBatch(q)' = InBatch(q) /\ InBatch(q) \in Nat
  BY SameBatch, CountsAreNat, Zenon
<1>2. InBatch(q)' \in Int /\ h \in Threads
  BY <1>1, ThreadNames
<1>3. /\ InWork(th[h].work, q) \in Nat /\ InQueue(q) \in Nat
      /\ InBuffer(q) \in Nat /\ InBatch(q) \in Nat /\ Inside(q) \in Nat
      /\ Inside(q)' = Inside(q) + (InWork(th'[h].work, q) - InWork(th[h].work, q))
           + (InQueue(q)' - InQueue(q)) + (InBuffer(q)' - InBuffer(q))
           + (InBatch(q)' - InBatch(q))
  BY <1>2, InsideChanges
<1>4. InBatch(q)' - InBatch(q) = 0
  BY ONLY <1>1
<1>5. QED
  BY <1>3, <1>4

(* What advance takes out of the reorder buffer is released.                *)
LEMMA AdvanceMoves ==
  ASSUME EInv, NEW f \in Flows, held' = advance(f), NEW freed,
         freed = IF advanceDue(f) THEN <<held[f][1].item>> ELSE <<>>
  PROVE  /\ held' \in [Flows -> HeldLists]
         /\ \A g \in Flows :
              held'[g] # <<>> => Len(held'[g]) = 1 /\ flowID(held'[g][1].item.p) = g
         /\ freed \in Seq(Items)
         /\ \A q \in Packets : /\ InBuffer(q)' \in Nat /\ InBuffer(q) \in Nat
                               /\ InWork(freed, q) = InBuffer(q) - InBuffer(q)'
<1>1. held \in [Flows -> HeldLists]
  BY DEF EInv, Types
<1>2. \A g \in Flows : held[g] # <<>> => Len(held[g]) = 1 /\ flowID(held[g][1].item.p) = g
  BY DEF EInv, Placed
<1>3. \A q \in Packets : flowID(q) \in Flows /\ InBuffer(q) \in Nat
  BY CountsAreNat DEF Flows, EInv
<1>4. CASE held[f] = <<>>
  <2>1. held' = held /\ freed = <<>>
    BY <1>1, <1>4 DEF advance, advanceDue
  <2>2. \A q \in Packets : /\ InBuffer(q)' \in Nat /\ InBuffer(q) \in Nat
                           /\ InWork(freed, q) = InBuffer(q) - InBuffer(q)'
    <3> TAKE q \in Packets
    <3>1. InBuffer(q)' = InBuffer(q) /\ InWork(freed, q) = 0 /\ InBuffer(q) \in Nat
      BY <1>3, <2>1, SameBuffer, InWorkEmpty
    <3>2. QED
      BY ONLY <3>1
  <2>3. freed \in Seq(Items)
    BY <2>1
  <2>4. QED
    BY <1>1, <1>2, <2>1, <2>2, <2>3
<1>5. CASE held[f] # <<>>
  <2>1. held[f][1] \in [remaining : Int, item : Items]
    BY <1>1, <1>5, FirstIsIn, Zenon DEF HeldLists
  <2>2. PICK m, x : m \in Int /\ x \in Items /\ held[f][1] = [remaining |-> m, item |-> x]
    BY <2>1
  <2>3. held[f][1].item = x /\ held[f][1].remaining = m /\ flowID(x.p) = f
    BY <1>2, <1>5, <2>2
  <2>4. CASE m <= 1
    <3>1. freed = <<x>> /\ held' = [held EXCEPT ![f] = <<>>]
      BY <1>1, <1>5, <2>3, <2>4, Zenon DEF advance, advanceDue
    <3>2. held' \in [Flows -> HeldLists]
      <4>1. <<>> \in HeldLists
        BY DEF HeldLists
      <4>2. QED
        BY <1>1, <3>1, <4>1
    <3>3. ASSUME NEW q \in Packets
          PROVE  /\ InBuffer(q)' \in Nat /\ InWork(freed, q) = InBuffer(q) - InBuffer(q)'
      <4>1. InWork(freed, q) = IF x.p = q THEN 1 ELSE 0
        BY <3>1, InWorkSingle
      <4>2. InBuffer(q)' = IF flowID(q) = f THEN 0 ELSE InBuffer(q)
        BY <1>1, <1>3, <3>1 DEF InBuffer
      <4>3. flowID(q) = f => InBuffer(q) = IF x.p = q THEN 1 ELSE 0
        BY <1>5, <2>3 DEF InBuffer
      <4>4. flowID(q) # f => x.p # q
        BY <2>3
      <4>5. QED
        BY <1>3, <4>1, <4>2, <4>3, <4>4
    <3>4. \A g \in Flows :
              held'[g] # <<>> => Len(held'[g]) = 1 /\ flowID(held'[g][1].item.p) = g
      BY <1>1, <1>2, <3>1
    <3>5. freed \in Seq(Items)
      BY <2>2, <3>1
    <3>6. QED
      BY <1>3, <3>2, <3>3, <3>4, <3>5
  <2>5. CASE ~(m <= 1)
    <3>1. PICK e : e = [remaining |-> m - 1, item |-> x]
      BY Zenon
    <3>2. [[remaining |-> m, item |-> x] EXCEPT !.remaining = m - 1] = e /\ e.item = x
      BY <3>1
    <3>3. freed = <<>> /\ held' = [held EXCEPT ![f] = <<e>>]
      <4>1. ~advanceDue(f) /\ freed = <<>>
        BY <2>3, <2>5 DEF advanceDue
      <4>2. [held[f][1] EXCEPT !.remaining = held[f][1].remaining - 1] = e
        BY <2>2, <2>3, <3>2, Zenon
      <4>3. held' = [held EXCEPT ![f] = <<[held[f][1] EXCEPT !.remaining = held[f][1].remaining - 1]>>]
        BY <1>5, <4>1, Zenon DEF advance
      <4>4. QED
        BY <4>1, <4>2, <4>3, Zenon
    <3>4. <<e>> \in HeldLists
      <4>1. e \in [remaining : Int, item : Items]
        BY <2>2, <3>1
      <4>2. QED
        BY <4>1 DEF HeldLists
    <3>5. held' \in [Flows -> HeldLists]
      BY <1>1, <3>3, <3>4
    <3>6. \A g \in Flows :
              held'[g] # <<>> => Len(held'[g]) = 1 /\ flowID(held'[g][1].item.p) = g
      BY <1>1, <1>2, <2>3, <3>2, <3>3
    <3>7. ASSUME NEW q \in Packets PROVE InBuffer(q)' = InBuffer(q) /\ InWork(freed, q) = 0
      <4>1. InWork(freed, q) = 0
        BY <3>3, InWorkEmpty
      <4>2. CASE flowID(q) = f
        BY <1>1, <1>5, <2>3, <3>2, <3>3, <4>1, <4>2 DEF InBuffer
      <4>3. CASE flowID(q) # f
        BY <1>1, <1>3, <3>3, <4>1, <4>3 DEF InBuffer
      <4>4. QED
        BY <4>2, <4>3
    <3>8. \A q \in Packets : /\ InBuffer(q)' \in Nat /\ InBuffer(q) \in Nat
                             /\ InWork(freed, q) = InBuffer(q) - InBuffer(q)'
      BY ONLY <1>3, <3>7
    <3>9. freed \in Seq(Items)
      BY <3>3
    <3>10. QED
      BY <3>5, <3>6, <3>8, <3>9
  <2>6. QED
    BY <2>2, <2>4, <2>5
<1>6. QED
  BY <1>4, <1>5

LEMMA TailElements ==
  ASSUME NEW S, NEW s \in Seq(S), s # <<>>, NEW i \in DOMAIN Tail(s)
  PROVE  i + 1 \in DOMAIN s /\ Tail(s)[i] = s[i + 1] /\ i \in Nat \ {0}
OBVIOUS

(* A handler takes its next packet: it is one no rule has decided, and it   *)
(* is not among the packets that remain.                                    *)
LEMMA TakesPacket ==
  ASSUME EInv, NEW h \in Handlers, Free(h), pend[h] # <<>>, pend' = [pend EXCEPT ![h] = Tail(@)]
  PROVE  /\ Head(pend[h]) \in Packets /\ Head(pend[h]) = pend[h][1]
         /\ DirOf(Head(pend[h])) = h /\ asked[Head(pend[h])] = Undecided
         /\ th[h].work = <<>>
         /\ pend' \in [Handlers -> Seq(Packets)]
         /\ \A k \in Handlers : \A i \in DOMAIN pend'[k] :
              /\ DirOf(pend'[k][i]) = k /\ asked[pend'[k][i]] = Undecided
              /\ pend'[k][i] # Head(pend[h])
              /\ \A j \in DOMAIN pend'[k] : pend'[k][i] = pend'[k][j] => i = j
              /\ k # h /\ th[k].pc = "act" => pend'[k][i] # th[k].pkt
<1>1. pend \in [Handlers -> Seq(Packets)]
  BY DEF EInv, Types
<1>2. Head(pend[h]) = pend[h][1] /\ 1 \in DOMAIN pend[h] /\ pend[h][1] \in Packets
  BY <1>1, FirstIsIn
<1>3. /\ DirOf(pend[h][1]) = h /\ asked[pend[h][1]] = Undecided
  BY <1>2 DEF EInv, Placed, Fresh
<1>4. th[h].work = <<>>
  BY DEF Free, EInv, AtRest
<1>5. pend' \in [Handlers -> Seq(Packets)] /\ \A k \in Handlers : k # h => pend'[k] = pend[k]
  BY <1>1
<1>6. /\ \A i \in DOMAIN pend'[h] : i + 1 \in DOMAIN pend[h] /\ pend'[h][i] = pend[h][i + 1] /\ i \in Nat \ {0}
  <2>1. pend'[h] = Tail(pend[h]) /\ pend[h] \in Seq(Packets)
    BY <1>1
  <2>2. QED
    BY <2>1, TailElements, Zenon
<1>7. ASSUME NEW k \in Handlers, NEW i \in DOMAIN pend'[k]
      PROVE  /\ DirOf(pend'[k][i]) = k /\ asked[pend'[k][i]] = Undecided
             /\ pend'[k][i] # pend[h][1]
             /\ \A j \in DOMAIN pend'[k] : pend'[k][i] = pend'[k][j] => i = j
             /\ k # h /\ th[k].pc = "act" => pend'[k][i] # th[k].pkt
  <2>1. CASE k = h
    <3>1. /\ i + 1 \in DOMAIN pend[h] /\ pend'[h][i] = pend[h][i + 1] /\ i \in Nat \ {0}
      BY <1>6, <2>1
    <3>2. DirOf(pend[h][i + 1]) = h /\ asked[pend[h][i + 1]] = Undecided
      BY <3>1 DEF EInv, Placed, Fresh
    <3>3. pend[h][i + 1] # pend[h][1]
      BY <1>2, <3>1 DEF EInv, Fresh
    <3>4. ASSUME NEW j \in DOMAIN pend'[h], pend'[h][i] = pend'[h][j] PROVE i = j
      <4>1. j + 1 \in DOMAIN pend[h] /\ pend'[h][j] = pend[h][j + 1] /\ j \in Nat \ {0}
        BY <1>6
      <4>2. i + 1 = j + 1
        BY <3>1, <3>4, <4>1 DEF EInv, Fresh
      <4>3. QED
        BY ONLY <3>1, <4>1, <4>2
    <3>5. QED
      BY <2>1, <3>1, <3>2, <3>3, <3>4
  <2>2. CASE k # h
    <3>1. pend'[k] = pend[k]
      BY <1>5, <2>2
    <3>2. DirOf(pend[k][i]) = k
      BY <3>1, Zenon DEF EInv, Placed
    <3>3. QED
      BY <1>3, <2>2, <3>1, <3>2 DEF EInv, Fresh
  <2>3. QED
    BY <2>1, <2>2
<1>8. QED
  BY <1>2, <1>3, <1>4, <1>5, <1>7

LEMMA DecideStep ==
  ASSUME LinkInv, NEW p \in Packets, NEW n \in Nat, asked[p] = Undecided,
         asked' = [asked EXCEPT ![p] = n], asked \in [Packets -> Nat \cup {Undecided}],
         \A q \in Packets : Inside(q) \in Nat /\ Inside(q)' = Inside(q) + (IF q = p THEN n ELSE 0),
         UNCHANGED <<out, nextFree, open>>
  PROVE  L!Decide(p)
<1>1. asked'[p] = n
  OBVIOUS
<1>2. owed[p] = 0
  BY DEF LinkInv, L!Conserved
<1>3. Inside(p) = 0
  BY <1>2 DEF owed
<1>4. \A q \in Packets : Inside(q)' = IF q = p THEN n ELSE Inside(q)
  BY <1>3
<1>5. owed' = [owed EXCEPT ![p] = n]
  BY <1>4, Zenon DEF owed
<1>6. UNCHANGED <<out, shaped, closed>>
  BY DEF shaped, closed
<1>7. QED
  BY <1>1, <1>5, <1>6 DEF L!Decide

LEMMA ArriveKeeps ==
  ASSUME EInv, LinkInv, NEW h \in Handlers, Arrive(h)
  PROVE  EInv' /\ [L!Next]_(L!vars)
<1> DEFINE p == Head(pend[h])
           f == flowID(p)
           decides == rules # <<>> /\ ~stopped /\ Parse(p)
           freed == IF advanceDue(f) THEN <<held[f][1].item>> ELSE <<>>
<1>1. Free(h) /\ pend[h] # <<>> /\ pend' = [pend EXCEPT ![h] = Tail(@)]
  BY Zenon DEF Arrive
<1>2. UNCHANGED <<rules, shaper, calls, nextFree, queue, qseq, batch, open, now, out, fired>>
  BY Zenon DEF Arrive, control, deferral
<1>3. /\ p \in Packets /\ DirOf(p) = h /\ asked[p] = Undecided
      /\ th[h].work = <<>>
      /\ pend' \in [Handlers -> Seq(Packets)]
      /\ \A k \in Handlers : \A i \in DOMAIN pend'[k] :
              /\ DirOf(pend'[k][i]) = k /\ asked[pend'[k][i]] = Undecided
              /\ pend'[k][i] # p
              /\ \A j \in DOMAIN pend'[k] : pend'[k][i] = pend'[k][j] => i = j
              /\ k # h /\ th[k].pc = "act" => pend'[k][i] # th[k].pkt
  BY <1>1, TakesPacket, Zenon
<1>4. /\ asked \in [Packets -> Nat \cup {Undecided}] /\ shaper[h] \in ShaperRefs
  BY DEF EInv, Types
<1>5. \A q \in Packets : /\ InQueue(q)' = InQueue(q) /\ InQueue(q) \in Nat /\ InBuffer(q) \in Nat
                         /\ Inside(q) \in Nat /\ InWork(th[h].work, q) = 0
  BY <1>2, <1>3, SameQueue, InWorkEmpty, CountsAreNat DEF EInv
<1>6. Batched' /\ Numbered'
  BY <1>2 DEF EInv, Batched, Numbered
<1>7. f \in Flows
  BY <1>3 DEF Flows
<1> HIDE DEF p, f, decides, freed
<1>8. CASE /\ th' = [th EXCEPT ![h] = [Idle EXCEPT !.pkt = p, !.pc = "send",
                                               !.work = <<paced(p, shaper[h])>>]]
           /\ asked' = [asked EXCEPT ![p] = 1] /\ held' = held
  <2>a. PICK w : w = <<paced(p, shaper[h])>>
    BY Zenon
  <2>b. paced(p, shaper[h]) \in Items
    BY <1>3, <1>4, PacedItem
  <2>1. w = <<paced(p, shaper[h])>> /\ w \in Seq(Items)
    BY <2>a, <2>b
  <2>2. th' = [th EXCEPT ![h] = [pc |-> "send", pkt |-> p, sh |-> 0, rule |-> NoRule, work |-> w]]
    <3>1. [Idle EXCEPT !.pkt = p, !.pc = "send", !.work = w]
             = [pc |-> "send", pkt |-> p, sh |-> 0, rule |-> NoRule, work |-> w]
      BY SendRecord, Zenon
    <3>2. th' = [th EXCEPT ![h] = [Idle EXCEPT !.pkt = p, !.pc = "send", !.work = w]]
      BY <1>8, <2>a
    <3>3. QED
      BY <3>1, <3>2, Zenon
  <2>3. /\ th' \in [Threads -> ThreadStates]
        /\ th'[h].pc = "send" /\ th'[h].pkt = p /\ th'[h].work = w
        /\ \A u \in Threads : u # h => th'[u] = th[u]
    <3>1. w \in Seq(Items) /\ Types /\ 0 \in ShaperRefs /\ NoRule \in LoadedRules
      BY <2>1, IdleState DEF EInv
    <3>2. QED
      BY <1>3, <2>2, <3>1, HandlerChanges, Zenon
  <2>4. asked' \in [Packets -> Nat \cup {Undecided}]
    BY <1>3, <1>4, <1>8
  <2>5. Types'
    BY <1>2, <1>3, <1>8, <2>3, <2>4 DEF EInv, Types
  <2>6. \A k \in Handlers : k # h => th'[k] = th[k]
    BY <2>3, ThreadNames
  <2>7. Placed'
    BY <1>3, <1>8, <2>3, <2>6 DEF EInv, Placed
  <2>8. \A q \in Packets : q # p => asked'[q] = asked[q]
    BY <1>4, <1>8
  <2>9. Fresh'
    <3>1. \A k \in Handlers : th'[k].pc = "act" => k # h /\ th[k].pc = "act" /\ th'[k].pkt = th[k].pkt
                                              /\ asked'[th[k].pkt] = Undecided
      <4> TAKE k \in Handlers
      <4> HAVE th'[k].pc = "act"
      <4>1. k # h /\ th'[k] = th[k]
        BY <2>3, <2>6
      <4>2. th[k].pkt \in Packets /\ DirOf(th[k].pkt) = k /\ asked[th[k].pkt] = Undecided
        BY <4>1 DEF EInv, Placed, Fresh
      <4>3. QED
        BY <1>3, <2>8, <4>1, <4>2
    <3>2. \A k \in Handlers : \A i \in DOMAIN pend'[k] : pend'[k][i] \in Packets /\ asked'[pend'[k][i]] = Undecided
      BY <1>3, <2>8
    <3>3. QED
      BY <1>3, <3>1, <3>2 DEF Fresh
  <2>10. AtRest'
    BY <2>3, AtRestSame DEF EInv
  <2>11. ASSUME NEW q \in Packets
         PROVE  Inside(q) \in Nat /\ Inside(q)' = Inside(q) + (IF q = p THEN 1 ELSE 0)
    <3>1. InWork(th'[h].work, q) = IF q = p THEN 1 ELSE 0
      BY <1>3, <1>4, <2>1, <2>3, InWorkSingle, PacedItem
    <3>2. InBuffer(q)' = InBuffer(q)
      BY <1>8, SameBuffer
    <3>3. InWork(th'[h].work, q) \in Int /\ InQueue(q)' \in Int /\ InBuffer(q)' \in Int
      BY <1>5, <3>1, <3>2
    <3>4. Inside(q)' = Inside(q) + (InWork(th'[h].work, q) - InWork(th[h].work, q))
              + (InQueue(q)' - InQueue(q)) + (InBuffer(q)' - InBuffer(q))
      BY <1>2, <2>3, <3>3, HandlerInside DEF EInv
    <3>5. /\ InQueue(q)' - InQueue(q) = 0 /\ InBuffer(q)' - InBuffer(q) = 0
          /\ InWork(th'[h].work, q) - InWork(th[h].work, q) = IF q = p THEN 1 ELSE 0
      BY ONLY <1>5, <3>1, <3>2
    <3>6. QED
      BY ONLY <1>5, <3>4, <3>5
  <2>12. L!Decide(p)
    BY <1>2, <1>3, <1>4, <1>8, <2>11, DecideStep, Zenon
  <2>13. QED
    BY <1>3, <1>6, <2>5, <2>7, <2>9, <2>10, <2>12 DEF EInv, L!Next
<1>9. CASE /\ \E r \in LoadedRules :
                th' = [th EXCEPT ![h] = [Idle EXCEPT !.pkt = p, !.sh = shaper[h],
                                 !.rule = r, !.pc = "act", !.work = freed]]
           /\ held' = advance(f) /\ asked' = asked
  <2>1. PICK r \in LoadedRules :
          th' = [th EXCEPT ![h] = [pc |-> "act", pkt |-> p, sh |-> shaper[h], rule |-> r, work |-> freed]]
    <3>1. PICK r \in LoadedRules :
            th' = [th EXCEPT ![h] = [Idle EXCEPT !.pkt = p, !.sh = shaper[h],
                                 !.rule = r, !.pc = "act", !.work = freed]]
      BY <1>9, Zenon
    <3>2. [Idle EXCEPT !.pkt = p, !.sh = shaper[h], !.rule = r, !.pc = "act", !.work = freed]
            = [pc |-> "act", pkt |-> p, sh |-> shaper[h], rule |-> r, work |-> freed]
      <4>1. PICK s, n, w : s = shaper[h] /\ n = p /\ w = freed
        OBVIOUS
      <4>2. [Idle EXCEPT !.pkt = n, !.sh = s, !.rule = r, !.pc = "act", !.work = w]
              = [pc |-> "act", pkt |-> n, sh |-> s, rule |-> r, work |-> w]
        <5>1. [Idle EXCEPT !.pkt = n] = [pc |-> "idle", pkt |-> n, sh |-> 0, rule |-> NoRule, work |-> <<>>]
          BY DEF Idle
        <5>2. [[pc |-> "idle", pkt |-> n, sh |-> 0, rule |-> NoRule, work |-> <<>>] EXCEPT !.sh = s]
                 = [pc |-> "idle", pkt |-> n, sh |-> s, rule |-> NoRule, work |-> <<>>]
          OBVIOUS
        <5>3. [[pc |-> "idle", pkt |-> n, sh |-> s, rule |-> NoRule, work |-> <<>>] EXCEPT !.rule = r]
                 = [pc |-> "idle", pkt |-> n, sh |-> s, rule |-> r, work |-> <<>>]
          OBVIOUS
        <5>4. [[pc |-> "idle", pkt |-> n, sh |-> s, rule |-> r, work |-> <<>>] EXCEPT !.pc = "act"]
                 = [pc |-> "act", pkt |-> n, sh |-> s, rule |-> r, work |-> <<>>]
          OBVIOUS
        <5>5. [[pc |-> "act", pkt |-> n, sh |-> s, rule |-> r, work |-> <<>>] EXCEPT !.work = w]
                 = [pc |-> "act", pkt |-> n, sh |-> s, rule |-> r, work |-> w]
          OBVIOUS
        <5>6. QED
          BY <5>1, <5>2, <5>3, <5>4, <5>5, Zenon
      <4>3. QED
        BY <4>1, <4>2
    <3>3. QED
      BY <3>1, <3>2, Zenon
  <2>2. PICK w : w = freed
    OBVIOUS
  <2>3. /\ held' \in [Flows -> HeldLists]
        /\ \A g \in Flows :
              held'[g] # <<>> => Len(held'[g]) = 1 /\ flowID(held'[g][1].item.p) = g
        /\ w \in Seq(Items)
        /\ \A q \in Packets : /\ InBuffer(q)' \in Nat /\ InBuffer(q) \in Nat
                              /\ InWork(w, q) = InBuffer(q) - InBuffer(q)'
    BY <1>7, <1>9, <2>2, AdvanceMoves DEF freed
  <2>4. /\ th' \in [Threads -> ThreadStates]
        /\ th'[h].pc = "act" /\ th'[h].pkt = p /\ th'[h].work = w
        /\ \A u \in Threads : u # h => th'[u] = th[u]
    <3>1. w \in Seq(Items) /\ Types
      BY <2>3 DEF EInv
    <3>2. th' = [th EXCEPT ![h] = [pc |-> "act", pkt |-> p, sh |-> shaper[h], rule |-> r, work |-> w]]
      BY <2>1, <2>2
    <3>3. QED
      BY <1>3, <1>4, <3>1, <3>2, HandlerChanges, Zenon
  <2>5. Types'
    BY <1>2, <1>3, <1>9, <2>3, <2>4 DEF EInv, Types
  <2>6. \A k \in Handlers : k # h => th'[k] = th[k]
    BY <2>4, ThreadNames
  <2>7. Placed'
    <3>1. \A k \in Handlers : th'[k].pc # "idle" => th'[k].pkt \in Packets /\ DirOf(th'[k].pkt) = k
      BY <1>3, <2>4, <2>6 DEF EInv, Placed
    <3>2. QED
      BY <1>3, <2>3, <3>1, Zenon DEF Placed
  <2>8. Fresh'
    BY <1>3, <1>9, <2>4, <2>6 DEF EInv, Fresh
  <2>9. AtRest'
    BY <2>4, AtRestSame DEF EInv
  <2>10. ASSUME NEW q \in Packets PROVE Inside(q)' = Inside(q)
    <3>1. /\ InWork(th'[h].work, q) = InBuffer(q) - InBuffer(q)' /\ InBuffer(q)' \in Nat
      BY <2>3, <2>4
    <3>2. InWork(th'[h].work, q) \in Int /\ InQueue(q)' \in Int /\ InBuffer(q)' \in Int
      BY <1>5, <3>1
    <3>3. Inside(q)' = Inside(q) + (InWork(th'[h].work, q) - InWork(th[h].work, q))
              + (InQueue(q)' - InQueue(q)) + (InBuffer(q)' - InBuffer(q))
      BY <1>2, <2>4, <3>2, HandlerInside, Zenon DEF EInv
    <3>4. /\ InQueue(q)' - InQueue(q) = 0
          /\ (InWork(th'[h].work, q) - InWork(th[h].work, q)) + (InBuffer(q)' - InBuffer(q)) = 0
      BY ONLY <1>5, <3>1
    <3>5. QED
      BY ONLY <1>5, <3>1, <3>2, <3>3, <3>4
  <2>11. UNCHANGED L!vars
    BY <1>2, <1>9, <2>10, OwedSame DEF L!vars, shaped, closed
  <2>12. QED
    BY <1>6, <2>5, <2>7, <2>8, <2>9, <2>11 DEF EInv
<1>10. ASSUME NEW first, NEW draw, first \in decide(p, draw)
       PROVE  (IF first = 0 THEN NoRule ELSE rules[first]) \in LoadedRules
  BY <1>10, IdleState DEF decide, Fires, EInv, Types
<1>11. QED
  BY <1>8, <1>9, <1>10, Zenon DEF Arrive, p, f, decides, freed

(* What the action switch does with the copies the rule asks for: they are  *)
(* sent, queued or held, and none besides.                                  *)
LEMMA ActOnMoves ==
  ASSUME EInv, NEW h \in Handlers, ActOn(h)
  PROVE  \E w \in Seq(Items) :
           /\ th' = [th EXCEPT ![h] = [Idle EXCEPT !.pkt = th[h].pkt, !.pc = "send",
                                                   !.work = w \o th[h].work]]
           /\ queue' \in SUBSET Entries /\ IsFiniteSet(queue') /\ qseq' \in Nat /\ Numbered'
           /\ held' \in [Flows -> HeldLists]
           /\ \A g \in Flows :
                held'[g] # <<>> => Len(held'[g]) = 1 /\ flowID(held'[g][1].item.p) = g
           /\ \A q \in Packets :
                /\ InWork(w, q) \in Nat /\ InQueue(q)' \in Nat /\ InBuffer(q)' \in Nat
                /\ InQueue(q) \in Nat /\ InBuffer(q) \in Nat
                /\ InWork(w, q) + (InQueue(q)' - InQueue(q)) + (InBuffer(q)' - InBuffer(q))
                     = IF q = th[h].pkt THEN CopiesAsked(th[h].rule) ELSE 0
<1>1. PICK p, r, s : p = th[h].pkt /\ r = th[h].rule /\ s = th[h].sh
  OBVIOUS
<1>2. PICK item : item = paced(p, s)
  OBVIOUS
<1>3. /\ h \in Threads /\ th[h] \in ThreadStates /\ th[h].pc = "act"
  BY ThreadNames DEF EInv, Types, ActOn
<1>4. /\ p \in Packets /\ r \in LoadedRules /\ s \in ShaperRefs
  BY <1>1, <1>3 DEF EInv, Placed, ThreadStates
<1>5. /\ item \in Items /\ item.p = p /\ item.wait <= 0
  BY <1>2, <1>4, PacedItem
<1>6. /\ CopiesAsked(r) \in Nat
      /\ r.action = "delay" => r.by \in Nat \ {0} /\ CopiesAsked(r) = 1
      /\ r.action = "reorder" => r.by \in Int /\ CopiesAsked(r) = 1
  BY <1>4 DEF LoadedRules, GoodRule, CopiesAsked
<1>7. flowID(p) \in Flows
  BY <1>4 DEF Flows
<1>8. /\ held \in [Flows -> HeldLists]
      /\ \A g \in Flows : held[g] # <<>> => Len(held[g]) = 1 /\ flowID(held[g][1].item.p) = g
      /\ queue \in SUBSET Entries /\ IsFiniteSet(queue) /\ qseq \in Nat /\ Numbered
  BY Zenon DEF EInv, Types, Placed
<1>9. \A q \in Packets : InQueue(q) \in Nat /\ InBuffer(q) \in Nat
  BY CountsAreNat DEF EInv
<1>10. CASE r.action = "delay" /\ ~qstopped
  <2>1. /\ th' = [th EXCEPT ![h] = [Idle EXCEPT !.pkt = th[h].pkt, !.pc = "send",
                                                !.work = <<>> \o th[h].work]]
        /\ schedule(r.by, item) /\ held' = held
    BY <1>1, <1>2, <1>10 DEF ActOn
  <2>2. /\ queue' \in SUBSET Entries /\ IsFiniteSet(queue') /\ qseq' \in Nat /\ Numbered'
        /\ \A q \in Packets : InQueue(q)' = InQueue(q) + (IF item.p = q THEN 1 ELSE 0)
    BY <1>5, <1>6, <1>10, <2>1, ScheduleAdds DEF EInv
  <2>3. ASSUME NEW q \in Packets
        PROVE  /\ InWork(<<>>, q) \in Nat /\ InQueue(q)' \in Nat /\ InBuffer(q)' \in Nat
               /\ InQueue(q) \in Nat /\ InBuffer(q) \in Nat
               /\ InWork(<<>>, q) + (InQueue(q)' - InQueue(q)) + (InBuffer(q)' - InBuffer(q))
                    = IF q = p THEN CopiesAsked(r) ELSE 0
    <3>1. InWork(<<>>, q) = 0 /\ InBuffer(q)' = InBuffer(q)
      BY <2>1, InWorkEmpty, SameBuffer
    <3>2. InQueue(q)' = InQueue(q) + (IF item.p = q THEN 1 ELSE 0) /\ CopiesAsked(r) = 1
      BY <1>6, <1>10, <2>2
    <3>3. InQueue(q) \in Nat /\ InBuffer(q) \in Nat
      BY <1>9
    <3>4. QED
      BY ONLY <1>5, <3>1, <3>2, <3>3
  <2>4. <<>> \in Seq(Items)
    OBVIOUS
  <2>5. held' \in [Flows -> HeldLists]
        /\ \A g \in Flows : held'[g] # <<>> => Len(held'[g]) = 1 /\ flowID(held'[g][1].item.p) = g
    BY <1>8, <2>1
  <2>6. QED
    BY <1>1, <2>1, <2>2, <2>3, <2>4, <2>5, Zenon
<1>11. CASE r.action = "reorder" /\ held[flowID(p)] = <<>>
  <2>1. /\ th' = [th EXCEPT ![h] = [Idle EXCEPT !.pkt = th[h].pkt, !.pc = "send",
                                                !.work = <<>> \o th[h].work]]
        /\ UNCHANGED <<queue, qseq>>
        /\ held' = [held EXCEPT ![flowID(p)] = <<[remaining |-> r.by, item |-> item]>>]
    BY <1>1, <1>2, <1>11 DEF ActOn, deferral
  <2>2. PICK e : e = [remaining |-> r.by, item |-> item]
    BY Zenon
  <2>3. e \in [remaining : Int, item : Items] /\ e.item = item
    BY <1>5, <1>6, <1>11, <2>2
  <2>4. <<e>> \in HeldLists /\ Len(<<e>>) = 1 /\ <<e>>[1] = e /\ <<e>> # <<>>
    BY <2>3 DEF HeldLists
  <2>5. PICK l : l = <<e>>
    BY Zenon
  <2>6. held' = [held EXCEPT ![flowID(p)] = l] /\ l \in HeldLists /\ Len(l) = 1 /\ l[1].item = item /\ l # <<>>
    BY <2>1, <2>2, <2>3, <2>4, <2>5
  <2>7. /\ held' \in [Flows -> HeldLists]
        /\ held'[flowID(p)] = l /\ \A g \in Flows : g # flowID(p) => held'[g] = held[g]
    BY <1>7, <1>8, <2>6
  <2>8. \A g \in Flows : held'[g] # <<>> => Len(held'[g]) = 1 /\ flowID(held'[g][1].item.p) = g
    <3> TAKE g \in Flows
    <3>1. CASE g = flowID(p)
      BY <1>5, <2>6, <2>7, <3>1
    <3>2. CASE g # flowID(p)
      BY <1>8, <2>7, <3>2
    <3>3. QED
      BY <3>1, <3>2
  <2>9. ASSUME NEW q \in Packets
        PROVE  /\ InWork(<<>>, q) \in Nat /\ InQueue(q)' \in Nat /\ InBuffer(q)' \in Nat
               /\ InQueue(q) \in Nat /\ InBuffer(q) \in Nat
               /\ InWork(<<>>, q) + (InQueue(q)' - InQueue(q)) + (InBuffer(q)' - InBuffer(q))
                    = IF q = p THEN CopiesAsked(r) ELSE 0
    <3>1. InWork(<<>>, q) = 0 /\ InQueue(q)' = InQueue(q) /\ CopiesAsked(r) = 1
      BY <1>6, <1>11, <2>1, InWorkEmpty, SameQueue
    <3>2. InQueue(q) \in Nat /\ InBuffer(q) \in Nat /\ flowID(q) \in Flows
      BY <1>9 DEF Flows
    <3>3. CASE flowID(q) = flowID(p)
      <4>1. InBuffer(q)' = IF q = p THEN 1 ELSE 0
        BY <1>5, <2>6, <2>7, <3>3 DEF InBuffer
      <4>2. InBuffer(q) = 0
        BY <1>11, <3>3 DEF InBuffer
      <4>3. QED
        BY ONLY <3>1, <3>2, <4>1, <4>2
    <3>4. CASE flowID(q) # flowID(p)
      <4>1. InBuffer(q)' = InBuffer(q)
        BY <2>7, <3>2, <3>4 DEF InBuffer
      <4>2. q # p
        BY <3>4
      <4>3. QED
        BY ONLY <3>1, <3>2, <4>1, <4>2
    <3>5. QED
      BY <3>3, <3>4
  <2>10. <<>> \in Seq(Items)
    OBVIOUS
  <2>11. queue' \in SUBSET Entries /\ IsFiniteSet(queue') /\ qseq' \in Nat /\ Numbered'
    BY <1>8, <2>1 DEF Numbered
  <2>12. QED
    BY <1>1, <2>1, <2>7, <2>8, <2>9, <2>10, <2>11, Zenon
<1>12. CASE ~(r.action = "delay" /\ ~qstopped) /\ ~(r.action = "reorder" /\ held[flowID(p)] = <<>>)
  <2>1. PICK w : w = Copies(item, CopiesAsked(r))
    OBVIOUS
  <2>2. /\ th' = [th EXCEPT ![h] = [Idle EXCEPT !.pkt = th[h].pkt, !.pc = "send",
                                                !.work = w \o th[h].work]]
        /\ UNCHANGED <<queue, qseq, held>>
    BY <1>1, <1>2, <1>12, <2>1, Zenon DEF ActOn, deferral
  <2>3. w \in Seq(Items)
    BY <1>5, <1>6, <2>1 DEF Copies
  <2>4. ASSUME NEW q \in Packets
        PROVE  /\ InWork(w, q) \in Nat /\ InQueue(q)' \in Nat /\ InBuffer(q)' \in Nat
               /\ InQueue(q) \in Nat /\ InBuffer(q) \in Nat
               /\ InWork(w, q) + (InQueue(q)' - InQueue(q)) + (InBuffer(q)' - InBuffer(q))
                    = IF q = p THEN CopiesAsked(r) ELSE 0
    <3>1. InWork(w, q) = IF item.p = q THEN CopiesAsked(r) ELSE 0
      BY <1>6, <2>1, InWorkCopies
    <3>2. InQueue(q)' = InQueue(q) /\ InBuffer(q)' = InBuffer(q)
      BY <2>2, SameQueue, SameBuffer
    <3>3. InQueue(q) \in Nat /\ InBuffer(q) \in Nat
      BY <1>9
    <3>4. QED
      BY ONLY <1>5, <1>6, <3>1, <3>2, <3>3
  <2>5. queue' \in SUBSET Entries /\ IsFiniteSet(queue') /\ qseq' \in Nat /\ Numbered'
    BY <1>8, <2>2 DEF Numbered
  <2>6. held' \in [Flows -> HeldLists]
        /\ \A g \in Flows : held'[g] # <<>> => Len(held'[g]) = 1 /\ flowID(held'[g][1].item.p) = g
    BY <1>8, <2>2
  <2>7. QED
    BY <1>1, <2>2, <2>3, <2>4, <2>5, <2>6, Zenon
<1>13. QED
  BY <1>10, <1>11, <1>12, Zenon

LEMMA ActOnKeeps ==
  ASSUME EInv, LinkInv, NEW h \in Handlers, ActOn(h)
  PROVE  EInv' /\ th[h].pkt \in Packets /\ L!Decide(th[h].pkt)
<1>1. PICK w \in Seq(Items) :
           /\ th' = [th EXCEPT ![h] = [Idle EXCEPT !.pkt = th[h].pkt, !.pc = "send",
                                                   !.work = w \o th[h].work]]
           /\ queue' \in SUBSET Entries /\ IsFiniteSet(queue') /\ qseq' \in Nat /\ Numbered'
           /\ held' \in [Flows -> HeldLists]
           /\ \A g \in Flows :
                held'[g] # <<>> => Len(held'[g]) = 1 /\ flowID(held'[g][1].item.p) = g
           /\ \A q \in Packets :
                /\ InWork(w, q) \in Nat /\ InQueue(q)' \in Nat /\ InBuffer(q)' \in Nat
                /\ InQueue(q) \in Nat /\ InBuffer(q) \in Nat
                /\ InWork(w, q) + (InQueue(q)' - InQueue(q)) + (InBuffer(q)' - InBuffer(q))
                     = IF q = th[h].pkt THEN CopiesAsked(th[h].rule) ELSE 0
  BY ActOnMoves, Zenon
<1>2. PICK p, n : p = th[h].pkt /\ n = CopiesAsked(th[h].rule)
  OBVIOUS
<1>3. /\ h \in Threads /\ th[h] \in ThreadStates /\ th[h].pc = "act" /\ th[h].work \in Seq(Items)
  BY ThreadNames DEF EInv, Types, ActOn, ThreadStates
<1>4. /\ p \in Packets /\ DirOf(p) = h /\ asked[p] = Undecided /\ n \in Nat
  BY <1>2, <1>3, Zenon DEF EInv, Placed, Fresh, ThreadStates, LoadedRules, GoodRule
<1>5. /\ UNCHANGED <<pend, rules, shaper, calls, nextFree, batch, open, now, out, fired>>
      /\ asked' = [asked EXCEPT ![p] = n]
  BY <1>2 DEF ActOn, control
<1>6. PICK v : v = w \o th[h].work /\ v \in Seq(Items)
  <2>1. \A x, y \in Seq(Items) : x \o y \in Seq(Items)
    OBVIOUS
  <2>2. w \o th[h].work \in Seq(Items)
    BY <1>3, <2>1
  <2>3. QED
    BY <2>2, Zenon
<1>7. th' = [th EXCEPT ![h] = [pc |-> "send", pkt |-> p, sh |-> 0, rule |-> NoRule, work |-> v]]
  <2>1. th' = [th EXCEPT ![h] = [Idle EXCEPT !.pkt = p, !.pc = "send", !.work = v]]
    BY <1>1, <1>2, <1>6
  <2>2. [Idle EXCEPT !.pkt = p, !.pc = "send", !.work = v]
           = [pc |-> "send", pkt |-> p, sh |-> 0, rule |-> NoRule, work |-> v]
    BY SendRecord, Zenon
  <2>3. QED
    BY <2>1, <2>2, Zenon
<1>8. /\ th' \in [Threads -> ThreadStates]
      /\ th'[h].pc = "send" /\ th'[h].pkt = p /\ th'[h].work = v
      /\ \A u \in Threads : u # h => th'[u] = th[u]
  <2>1. v \in Seq(Items) /\ Types /\ 0 \in ShaperRefs /\ NoRule \in LoadedRules
    BY <1>6, IdleState DEF EInv
  <2>2. QED
    BY <1>4, <1>7, <2>1, HandlerChanges, Zenon
<1>9. asked \in [Packets -> Nat \cup {Undecided}] /\ asked' \in [Packets -> Nat \cup {Undecided}]
      /\ \A q \in Packets : q # p => asked'[q] = asked[q]
  BY <1>4, <1>5 DEF EInv, Types
<1>10. Types'
  BY <1>1, <1>5, <1>8, <1>9, Zenon DEF EInv, Types
<1>11. \A k \in Handlers : k # h => th'[k] = th[k]
  BY <1>8, ThreadNames
<1>12. Placed'
  <2>1. \A k \in Handlers : th'[k].pc # "idle" => th'[k].pkt \in Packets /\ DirOf(th'[k].pkt) = k
    BY <1>4, <1>8, <1>11, Zenon DEF EInv, Placed
  <2>2. \A k \in Handlers : \A i \in DOMAIN pend'[k] : DirOf(pend'[k][i]) = k
    BY <1>5, Zenon DEF EInv, Placed
  <2>3. QED
    BY <1>1, <2>1, <2>2 DEF Placed
<1>13. Fresh'
  <2>1. \A k \in Handlers : th'[k].pc = "act" => /\ k # h /\ th[k].pc = "act" /\ th'[k].pkt = th[k].pkt
                                                 /\ asked'[th[k].pkt] = Undecided
    <3> TAKE k \in Handlers
    <3> HAVE th'[k].pc = "act"
    <3>1. k # h /\ th'[k] = th[k]
      BY <1>8, <1>11
    <3>2. th[k].pkt \in Packets /\ DirOf(th[k].pkt) = k /\ asked[th[k].pkt] = Undecided
      BY <3>1, Zenon DEF EInv, Placed, Fresh
    <3>3. QED
      BY <1>4, <1>9, <3>1, <3>2, Zenon
  <2>2. ASSUME NEW k \in Handlers, NEW i \in DOMAIN pend[k]
        PROVE  asked'[pend[k][i]] = Undecided
    <3>1. pend[k][i] \in Packets /\ DirOf(pend[k][i]) = k /\ asked[pend[k][i]] = Undecided
      BY DEF EInv, Types, Placed, Fresh
    <3>2. pend[k][i] # p
      BY <1>2, <1>3, <1>4, <3>1 DEF EInv, Fresh
    <3>3. QED
      BY <1>9, <3>1, <3>2
  <2>3. QED
    BY <1>5, <2>1, <2>2 DEF EInv, Fresh
<1>14. AtRest'
  BY <1>8, AtRestSame, Zenon DEF EInv
<1>15. Batched'
  BY <1>5 DEF EInv, Batched
<1>16. ASSUME NEW q \in Packets
       PROVE  Inside(q) \in Nat /\ Inside(q)' = Inside(q) + (IF q = p THEN n ELSE 0)
  <2>1. /\ InWork(w, q) \in Nat /\ InQueue(q)' \in Nat /\ InBuffer(q)' \in Nat
        /\ InQueue(q) \in Nat /\ InBuffer(q) \in Nat
        /\ InWork(w, q) + (InQueue(q)' - InQueue(q)) + (InBuffer(q)' - InBuffer(q))
             = IF q = p THEN n ELSE 0
    BY <1>1, <1>2
  <2>2. InWork(v, q) = InWork(w, q) + InWork(th[h].work, q)
    BY <1>1, <1>3, <1>6, InWorkConcat
  <2>3. InWork(th[h].work, q) \in Nat /\ Inside(q) \in Nat
    BY <1>3, CountsAreNat DEF EInv
  <2>4. InWork(th'[h].work, q) = InWork(w, q) + InWork(th[h].work, q)
    BY <1>8, <2>2
  <2>5. InWork(th'[h].work, q) \in Int /\ InQueue(q)' \in Int /\ InBuffer(q)' \in Int
    BY <2>1, <2>3, <2>4
  <2>6. Inside(q)' = Inside(q) + (InWork(th'[h].work, q) - InWork(th[h].work, q))
              + (InQueue(q)' - InQueue(q)) + (InBuffer(q)' - InBuffer(q))
    BY <1>5, <1>8, <2>5, HandlerInside, Zenon DEF EInv
  <2>7. InWork(th'[h].work, q) - InWork(th[h].work, q) = InWork(w, q)
    BY ONLY <2>1, <2>3, <2>4
  <2>8. Inside(q)' = Inside(q) + InWork(w, q) + (InQueue(q)' - InQueue(q)) + (InBuffer(q)' - InBuffer(q))
    BY <2>6, <2>7, Zenon
  <2>9. QED
    <3>1. PICK a \in Nat, b \in Nat, c \in Nat, d \in Nat, e \in Nat, i \in Nat :
            /\ a = InWork(w, q) /\ b = InQueue(q)' /\ c = InQueue(q)
            /\ d = InBuffer(q)' /\ e = InBuffer(q) /\ i = Inside(q)
      BY ONLY <2>1, <2>3, Zenon
    <3>2. a + (b - c) + (d - e) = IF q = p THEN n ELSE 0
      BY ONLY <2>1, <3>1
    <3>3. Inside(q)' = i + a + (b - c) + (d - e)
      BY ONLY <2>8, <3>1, Zenon
    <3>4. i + a + (b - c) + (d - e) = i + (a + (b - c) + (d - e))
      BY ONLY a \in Nat, b \in Nat, c \in Nat, d \in Nat, e \in Nat, i \in Nat
    <3>5. QED
      BY ONLY <2>3, <3>1, <3>2, <3>3, <3>4, Zenon
<1>17. L!Decide(p)
  BY <1>4, <1>5, <1>9, <1>16, DecideStep, Zenon
<1>18. QED
  BY <1>1, <1>2, <1>4, <1>10, <1>12, <1>13, <1>14, <1>15, <1>17 DEF EInv

LEMMA InitHolds == Init => EInv /\ L!Init
<1> SUFFICES ASSUME Init PROVE EInv /\ L!Init
  OBVIOUS
<1>1. PICK u \in Setups :
        /\ Loads(u.rules) /\ rules = NewRuleSet(u.rules)
        /\ shaper = [d \in Handlers |-> CASE d \notin u.limited -> 0 [] d = "c2s" -> 1 [] OTHER -> 2]
        /\ calls = u.calls
  BY DEF Init
<1>2. /\ pend = [h \in Handlers |-> IF h = "c2s" THEN Ingress ELSE Egress]
      /\ th = [t \in Threads |-> IF t = "run" THEN [Idle EXCEPT !.pc = "scan"] ELSE Idle]
      /\ nextFree = [s \in Shapers |-> 0]
      /\ queue = {} /\ qseq = 0 /\ held = [f \in Flows |-> <<>>]
      /\ open = TRUE /\ now = 0
      /\ asked = [p \in Packets |-> Undecided] /\ out = [p \in Packets |-> 0] /\ fired = <<>>
  BY DEF Init
<1>3. batch = [b \in Batches |-> [list |-> <<>>, sealed |-> FALSE]]
  BY DEF Init
<1>4. PICK st : st = [Idle EXCEPT !.pc = "scan"]
  BY Zenon
<1>5. st \in ThreadStates /\ st.pc = "scan" /\ st.work = <<>>
  BY <1>4, IdleState, Zenon DEF ThreadStates, Pcs, Idle
<1>6. PICK idle : idle = Idle
  OBVIOUS
<1>7. idle \in ThreadStates /\ idle.pc = "idle" /\ idle.work = <<>>
  BY <1>6, IdleState
<1>8. th = [t \in Threads |-> IF t = "run" THEN st ELSE idle]
  BY <1>2, <1>4, <1>6
<1>9. th \in [Threads -> ThreadStates]
  BY <1>5, <1>7, <1>8
<1>10. /\ \A h \in Handlers : th[h].pc = "idle" /\ th[h].work = <<>>
       /\ th["run"].pc = "scan" /\ th["run"].work = <<>>
       /\ th["close"].pc = "idle" /\ th["close"].work = <<>>
  BY <1>5, <1>7, <1>8 DEF Threads, Handlers
<1>11. /\ Ingress \in Seq(Packets) /\ \A i \in DOMAIN Ingress : DirOf(Ingress[i]) = "c2s"
       /\ \A i, j \in DOMAIN Ingress : Ingress[i] = Ingress[j] => i = j
  BY EndpointAssumption DEF IsInjective
<1>12. /\ Egress \in Seq(Packets) /\ \A i \in DOMAIN Egress : DirOf(Egress[i]) = "s2c"
       /\ \A i, j \in DOMAIN Egress : Egress[i] = Egress[j] => i = j
  BY EndpointAssumption DEF IsInjective
<1>13. /\ pend \in [Handlers -> Seq(Packets)] /\ pend["c2s"] = Ingress /\ pend["s2c"] = Egress
  BY <1>2, <1>11, <1>12 DEF Handlers
<1>14. \A i \in DOMAIN rules : rules[i] \in LoadedRules
  <2>1. u.rules \in CallSets
    BY DEF CallSets
  <2>2. QED
    BY <1>1, <2>1, LoadedRulesLoad
<1>15. shaper \in [Handlers -> ShaperRefs] /\ calls \in 0..MaxCalls /\ nextFree \in [Shapers -> Nat]
  <2>1. 0 \in ShaperRefs /\ 1 \in ShaperRefs /\ 2 \in ShaperRefs
    BY EndpointAssumption DEF ShaperRefs
  <2>2. \A d \in Handlers : (CASE d \notin u.limited -> 0 [] d = "c2s" -> 1 [] OTHER -> 2) \in {0, 1, 2}
    OBVIOUS
  <2>3. shaper \in [Handlers -> {0, 1, 2}]
    BY <1>1, <2>2
  <2>4. shaper \in [Handlers -> ShaperRefs]
    BY <2>1, <2>3
  <2>5. calls \in 0..MaxCalls
    BY <1>1, EndpointAssumption
  <2>6. QED
    BY <1>2, <2>4, <2>5
<1>16. held \in [Flows -> HeldLists] /\ \A f \in Flows : held[f] = <<>>
  BY <1>2 DEF HeldLists
<1>17. batch \in [Batches -> [list : Seq(Packets), sealed : BOOLEAN]] /\ \A b \in Batches : batch[b].list = <<>>
  <2>1. PICK e : e = [list |-> <<>>, sealed |-> FALSE]
    BY Zenon
  <2>2. e \in [list : Seq(Packets), sealed : BOOLEAN]
    <3>1. <<>> \in Seq(Packets)
      OBVIOUS
    <3>2. QED
      BY <2>1, <3>1, Zenon
  <2>3. e.list = <<>>
    BY <2>1
  <2>4. QED
    BY <1>3, <2>1, <2>2, <2>3, Zenon
<1>18. /\ asked \in [Packets -> Nat \cup {Undecided}] /\ out \in [Packets -> Nat]
       /\ fired \in Seq(Nat \X Nat) /\ qseq \in Nat /\ now \in Nat /\ queue \in SUBSET Entries
       /\ IsFiniteSet(queue)
  BY <1>2, FS_EmptySet
<1>19. open \in BOOLEAN
  BY <1>2
<1>20. Types
  BY <1>9, <1>13, <1>14, <1>15, <1>16, <1>17, <1>18, <1>19, Zenon DEF Types
<1>21. Placed /\ Batched
  BY <1>10, <1>11, <1>12, <1>13, <1>16, <1>17 DEF Placed, Batched, Handlers
<1>22. Fresh
  <2>1. \A h \in Handlers : th[h].pc # "act"
    BY <1>10
  <2>2. \A p \in Packets : asked[p] = Undecided
    BY <1>2
  <2>3. ASSUME NEW h \in Handlers, NEW i \in DOMAIN pend[h]
        PROVE  pend[h][i] \in Packets /\ \A j \in DOMAIN pend[h] : pend[h][i] = pend[h][j] => i = j
    <3>1. pend[h][i] \in Packets
      BY <1>13
    <3>2. pend[h] = Ingress \/ pend[h] = Egress
      BY <1>13 DEF Handlers
    <3>3. QED
      BY <1>11, <1>12, <3>1, <3>2
  <2>4. QED
    BY <2>1, <2>2, <2>3 DEF Fresh
<1>23. Numbered /\ AtRest
  BY <1>2, <1>10 DEF Numbered, AtRest
<1>24. ASSUME NEW q \in Packets PROVE Inside(q) = 0
  <2>1. InWork(<<>>, q) = 0 /\ InList(<<>>, q) = 0
    BY InWorkEmpty, InListEmpty
  <2>2. InQueue(q) = 0
    <3>1. {d \in queue : d.item.p = q} = {}
      BY <1>2
    <3>2. QED
      BY <3>1, FS_EmptySet DEF InQueue
  <2>3. InBuffer(q) = 0
    BY <1>16 DEF InBuffer, Flows
  <2>4. InBatch(q) = 0
    BY <1>17, <2>1 DEF InBatch, Batches
  <2>5. QED
    BY <1>10, <2>1, <2>2, <2>3, <2>4 DEF Inside, Handlers
<1>25. owed = [p \in Packets |-> 0]
  BY <1>24 DEF owed
<1>26. shaped = FALSE /\ closed = FALSE
  BY <1>2 DEF shaped, closed
<1>27. QED
  BY <1>2, <1>20, <1>21, <1>22, <1>23, <1>25, <1>26 DEF EInv, L!Init

LEMMA NextKeeps ==
  ASSUME EInv, LinkInv, [Next]_vars
  PROVE  EInv' /\ [L!Next]_(L!vars)
<1>1. ASSUME NEW h \in Handlers, Arrive(h) \/ ActOn(h) PROVE EInv' /\ [L!Next]_(L!vars)
  <2>1. CASE Arrive(h)
    BY <2>1, ArriveKeeps
  <2>2. CASE ActOn(h)
    BY <2>2, ActOnKeeps DEF L!Next
  <2>3. QED
    BY <1>1, <2>1, <2>2
<1>2. ASSUME NEW t \in Threads, admit(t) \/ Enqueue(t) \/ Forward(t) PROVE EInv' /\ [L!Next]_(L!vars)
  <2>1. CASE admit(t)
    BY <2>1, AdmitKeeps, AdmitLinks
  <2>2. CASE Enqueue(t)
    BY <2>2, EnqueueKeeps
  <2>3. CASE Forward(t)
    BY <2>3, ForwardKeeps DEF L!Next
  <2>4. QED
    BY <1>2, <2>1, <2>2, <2>3
<1>3. CASE Seal
  BY <1>3, SealKeeps
<1>4. CASE WriteBatch
  BY <1>4, WriteBatchKeeps DEF L!Next
<1>5. CASE Scan
  BY <1>5, ScanKeeps
<1>6. CASE Sleep \/ AwaitRun \/ CloseBegins
  BY <1>6, GoroutinesKeep
<1>7. CASE drain
  BY <1>7, drainKeeps
<1>8. CASE StopQueue
  BY <1>8, StopQueueKeeps
<1>9. CASE CloseWire
  BY <1>9, CloseWireKeeps DEF L!Next
<1>10. CASE \/ \E rs \in RuleSets : SetRules(rs)
            \/ \E d \in Handlers, limited \in BOOLEAN : SetBandwidth(d, limited)
            \/ ClearShapers \/ Tick \/ TimerFires
  BY <1>10, ControlKeeps
<1>11. CASE UNCHANGED vars
  <2>1. UNCHANGED <<pend, th, rules, shaper, nextFree, queue, qseq, held, batch, open, now, calls,
                    asked, out, fired>>
    BY <1>11 DEF vars, outcome
  <2>2. Types' /\ Placed' /\ Batched'
    BY <2>1, Zenon DEF EInv, Types, Placed, Batched
  <2>3. Fresh' /\ Numbered' /\ AtRest'
    BY <2>1, Zenon DEF EInv, Fresh, Numbered, AtRest
  <2>4. \A q \in Packets : Inside(q)' = Inside(q)
    BY <2>1, Zenon DEF Inside, InQueue, InBuffer, InBatch
  <2>5. UNCHANGED L!vars
    BY <2>1, <2>4, OwedSame DEF L!vars, shaped, closed
  <2>6. QED
    BY <2>2, <2>3, <2>5 DEF EInv
<1>12. QED
  BY <1>1, <1>2, <1>3, <1>4, <1>5, <1>6, <1>7, <1>8, <1>9, <1>10, <1>11 DEF Next, ThreadStep, ControlStep

(* The endpoint of internal/netfault implements the abstract link for any   *)
(* packets, rules, control calls and bounds: every step of a handler, of    *)
(* the deferral queue's goroutine, of a batch write or of Close decides a   *)
(* packet, lets copies it owes leave, drops one at a bandwidth limit,       *)
(* closes the wire, or changes nothing the link shows.                      *)
THEOREM EndpointImplementsLink == Spec => LinkSpec
<1>1. Init => EInv /\ LinkInv /\ L!Init
  BY InitHolds, LinkInit
<1>2. EInv /\ LinkInv /\ [Next]_vars => EInv' /\ LinkInv' /\ [L!Next]_(L!vars)
  BY NextKeeps, LinkStep
<1>3. QED
  BY <1>1, <1>2, PTL DEF Spec, LinkSpec, L!Spec

(* So the endpoint conserves packets: no copy is lost or invented between   *)
(* the rules, the queue, the reorder buffer, the batches and Close.         *)
COROLLARY EndpointConserves == Spec => []L!Conserved
BY EndpointImplementsLink, LinkConserves, PTL DEF LinkSpec
=============================================================================
