---------------------------- MODULE EndpointSteps ---------------------------
(***************************************************************************)
(* What the packet endpoint keeps, and what each step but the handlers'    *)
(* own does to the copies inside it; the abstract link conserves them      *)
(* (Endpoint, Link).                                                       *)
(***************************************************************************)
EXTENDS Endpoint, FiniteSetTheorems, TLAPS

----------------------------------------------------------------------------
(* Counting the copies of a packet in a sequence of releases.               *)

LEMMA InWorkFinite ==
  ASSUME NEW S, NEW w \in Seq(S), NEW p
  PROVE  /\ IsFiniteSet({i \in DOMAIN w : w[i].p = p})
         /\ InWork(w, p) \in Nat
<1>1. IsFiniteSet(1..Len(w)) /\ DOMAIN w = 1..Len(w)
  BY FS_Interval
<1>2. {i \in DOMAIN w : w[i].p = p} \in SUBSET (1..Len(w))
  BY <1>1
<1>3. IsFiniteSet({i \in DOMAIN w : w[i].p = p})
  BY <1>1, <1>2, FS_Subset
<1>4. QED
  BY <1>3, FS_CardinalityType DEF InWork

LEMMA InWorkEmpty == \A p : InWork(<<>>, p) = 0
<1> TAKE p
<1>1. {i \in DOMAIN <<>> : (<<>>)[i].p = p} = {}
  OBVIOUS
<1>2. QED
  BY <1>1, FS_EmptySet DEF InWork

(* What a release waits for or came from does not count.                    *)
LEMMA InWorkSame ==
  ASSUME NEW S, NEW v \in Seq(S), NEW w \in Seq(S), Len(v) = Len(w),
         \A i \in 1..Len(v) : v[i].p = w[i].p, NEW p
  PROVE  InWork(v, p) = InWork(w, p)
<1>1. {i \in DOMAIN v : v[i].p = p} = {i \in DOMAIN w : w[i].p = p}
  OBVIOUS
<1>2. QED
  BY <1>1, Zenon DEF InWork

LEMMA InWorkConcat ==
  ASSUME NEW S, NEW v \in Seq(S), NEW w \in Seq(S), NEW p
  PROVE  InWork(v \o w, p) = InWork(v, p) + InWork(w, p)
<1> DEFINE A == {i \in DOMAIN v : v[i].p = p}
           B == {i \in DOMAIN w : w[i].p = p}
           C == {i \in DOMAIN (v \o w) : (v \o w)[i].p = p}
           D == {i \in (Len(v) + 1)..(Len(v) + Len(w)) : w[i - Len(v)].p = p}
           f == [i \in B |-> i + Len(v)]
<1>1. /\ Len(v) \in Nat /\ Len(w) \in Nat
      /\ DOMAIN v = 1..Len(v) /\ DOMAIN w = 1..Len(w)
      /\ DOMAIN (v \o w) = 1..(Len(v) + Len(w))
      /\ \A i \in 1..Len(v) : (v \o w)[i] = v[i]
      /\ \A i \in (Len(v) + 1)..(Len(v) + Len(w)) : (v \o w)[i] = w[i - Len(v)]
  OBVIOUS
<1>2. C = A \cup D /\ A \cap D = {}
  BY <1>1
<1>3. IsFiniteSet(A) /\ IsFiniteSet(B) /\ Cardinality(A) \in Nat /\ Cardinality(B) \in Nat
  BY InWorkFinite, FS_CardinalityType, Zenon
<1>4. f \in Bijection(B, D)
  <2>1. f \in [B -> D]
    BY <1>1
  <2>2. \A i, j \in B : f[i] = f[j] => i = j
    BY <1>1
  <2>3. \A d \in D : \E i \in B : f[i] = d
    <3> TAKE d \in D
    <3>1. d - Len(v) \in B /\ f[d - Len(v)] = d
      BY <1>1
    <3>2. QED
      BY <3>1, Zenon
  <2>4. QED
    BY <2>1, <2>2, <2>3 DEF Bijection, Injection, Surjection, IsInjective
<1>5. IsFiniteSet(D) /\ Cardinality(D) = Cardinality(B)
  BY <1>3, <1>4, FS_Bijection DEF ExistsBijection
<1>6. Cardinality(C) = Cardinality(A) + Cardinality(D) - Cardinality(A \cap D)
  BY <1>2, <1>3, <1>5, FS_Union, Zenon
<1>7. Cardinality(A \cap D) = 0
  BY <1>2, FS_EmptySet, Zenon
<1> HIDE DEF A, B, C, D, f
<1>8. Cardinality(C) = Cardinality(A) + Cardinality(B)
  BY <1>3, <1>5, <1>6, <1>7
<1>9. QED
  BY <1>8, Zenon DEF InWork, A, B, C

LEMMA InWorkCopies ==
  ASSUME NEW x, NEW n \in Nat, NEW p
  PROVE  InWork(Copies(x, n), p) = IF x.p = p THEN n ELSE 0
<1>1. DOMAIN Copies(x, n) = 1..n /\ \A i \in 1..n : Copies(x, n)[i] = x
  BY DEF Copies
<1>2. CASE x.p = p
  <2>1. {i \in DOMAIN Copies(x, n) : Copies(x, n)[i].p = p} = 1..n
    BY <1>1, <1>2
  <2>2. Cardinality(1..n) = n
    BY FS_Interval
  <2>3. QED
    BY <1>2, <2>1, <2>2, Zenon DEF InWork
<1>3. CASE x.p # p
  <2>1. {i \in DOMAIN Copies(x, n) : Copies(x, n)[i].p = p} = {}
    BY <1>1, <1>3
  <2>2. QED
    BY <1>3, <2>1, FS_EmptySet DEF InWork
<1>4. QED
  BY <1>2, <1>3

LEMMA InWorkSingle ==
  ASSUME NEW x, NEW p
  PROVE  InWork(<<x>>, p) = IF x.p = p THEN 1 ELSE 0
<1>1. <<x>> = Copies(x, 1)
  BY DEF Copies
<1>2. QED
  BY <1>1, InWorkCopies

LEMMA InWorkTail ==
  ASSUME NEW S, NEW w \in Seq(S), w # <<>>, NEW p
  PROVE  InWork(w, p) = InWork(Tail(w), p) + (IF w[1].p = p THEN 1 ELSE 0)
<1>1. /\ w = <<w[1]>> \o Tail(w) /\ <<w[1]>> \in Seq(S) /\ Tail(w) \in Seq(S)
  OBVIOUS
<1>2. InWork(w, p) = InWork(<<w[1]>>, p) + InWork(Tail(w), p)
  <2>1. InWork(<<w[1]>> \o Tail(w), p) = InWork(<<w[1]>>, p) + InWork(Tail(w), p)
    BY ONLY <1>1, InWorkConcat, Zenon
  <2>2. QED
    BY <1>1, <2>1, Zenon
<1>3. InWork(Tail(w), p) \in Nat
  BY <1>1, InWorkFinite, Zenon
<1>4. InWork(<<w[1]>>, p) = IF w[1].p = p THEN 1 ELSE 0
  BY InWorkSingle
<1>5. QED
  BY <1>2, <1>3, <1>4

(* The elements of S that g sends to p, and a work list w that carries,     *)
(* place by place, the packets g gives the elements listed by es.           *)
Sent(S, g, p) == {x \in S : g[x] = p}

Carries(w, es, g) == DOMAIN w = DOMAIN es /\ \A i \in DOMAIN es : w[i].p = g[es[i]]

(* A list of all the elements of a set has each of them once.               *)
LEMMA InWorkOfSet ==
  ASSUME NEW S, IsFiniteSet(S), NEW es \in Orders(S), NEW w, NEW g, NEW p,
         Carries(w, es, g)
  PROVE  InWork(w, p) = Cardinality(Sent(S, g, p))
<1> USE DEF Carries, Sent
<1> DEFINE n == Cardinality(S)
           A == {i \in DOMAIN w : w[i].p = p}
           B == {x \in S : g[x] = p}
           f == [i \in A |-> es[i]]
<1>1. n \in Nat
  BY FS_CardinalityType
<1>2. /\ es \in [1..n -> S] /\ DOMAIN es = 1..n
      /\ \A i, j \in 1..n : i # j => es[i] # es[j]
  BY DEF Orders, Injection, IsInjective
<1>3. \A x \in S : \E i \in 1..n : es[i] = x
  <2>1. es \in Injection(1..n, S)
    BY <1>2 DEF Injection, IsInjective
  <2>2. Cardinality(1..n) = Cardinality(S)
    BY <1>1, FS_Interval
  <2>3. es \in Surjection(1..n, S)
    BY <2>1, <2>2, FS_Injection
  <2>4. QED
    BY <2>3 DEF Surjection
<1>4. f \in Bijection(A, B)
  <2>1. f \in [A -> B]
    BY <1>2
  <2>2. \A i, j \in A : f[i] = f[j] => i = j
    BY <1>2
  <2>3. \A x \in B : \E i \in A : f[i] = x
    BY <1>2, <1>3
  <2>4. QED
    BY <2>1, <2>2, <2>3, Zenon DEF Bijection, Injection, Surjection, IsInjective
<1>5. IsFiniteSet(A)
  <2>1. A \in SUBSET (1..n)
    BY <1>2
  <2>2. IsFiniteSet(1..n)
    BY <1>1, FS_Interval
  <2> HIDE DEF A
  <2>3. QED
    BY <2>1, <2>2, FS_Subset, Zenon
<1>6. Cardinality(B) = Cardinality(A)
  BY <1>4, <1>5, FS_Bijection DEF ExistsBijection
<1>7. QED
  BY <1>6 DEF InWork

(* The same for the lists of packets of a batch.                            *)
LEMMA InListAppend ==
  ASSUME NEW S, NEW l \in Seq(S), NEW q \in S, NEW p
  PROVE  /\ InList(l, p) \in Nat
         /\ InList(Append(l, q), p) = InList(l, p) + (IF q = p THEN 1 ELSE 0)
<1> DEFINE A == {i \in DOMAIN l : l[i] = p}
           B == {i \in DOMAIN Append(l, q) : Append(l, q)[i] = p}
<1>1. /\ Len(l) \in Nat /\ DOMAIN l = 1..Len(l) /\ DOMAIN Append(l, q) = 1..(Len(l) + 1)
      /\ \A i \in 1..Len(l) : Append(l, q)[i] = l[i]
      /\ Append(l, q)[Len(l) + 1] = q
  OBVIOUS
<1>2. IsFiniteSet(A) /\ Cardinality(A) \in Nat
  <2>1. IsFiniteSet(1..Len(l)) /\ A \in SUBSET (1..Len(l))
    BY <1>1, FS_Interval
  <2>2. QED
    BY <2>1, FS_Subset, FS_CardinalityType
<1>3. InList(l, p) = Cardinality(A) /\ InList(Append(l, q), p) = Cardinality(B)
  BY DEF InList
<1>4. CASE q = p
  <2>1. B = A \cup {Len(l) + 1} /\ Len(l) + 1 \notin A
    BY <1>1, <1>4
  <2>2. Cardinality(B) = Cardinality(A) + 1
    <3> HIDE DEF A, B
    <3>1. Cardinality(A \cup {Len(l) + 1}) = Cardinality(A) + 1
      BY <1>2, <2>1, FS_AddElement, Zenon
    <3>2. QED
      BY <2>1, <3>1
  <2>3. QED
    BY <1>2, <1>3, <1>4, <2>2, Zenon
<1>5. CASE q # p
  <2>1. B = A
    BY <1>1, <1>5
  <2> HIDE DEF A, B
  <2>2. QED
    BY <1>2, <1>3, <1>5, <2>1
<1>6. QED
  BY <1>4, <1>5

LEMMA FirstIsIn ==
  ASSUME NEW S, NEW s \in Seq(S), s # <<>>
  PROVE  s[1] \in S /\ Len(s) \in Nat \ {0} /\ Head(s) = s[1]
OBVIOUS

LEMMA InListEmpty == \A p : InList(<<>>, p) = 0
<1> TAKE p
<1>1. {i \in DOMAIN <<>> : (<<>>)[i] = p} = {}
  OBVIOUS
<1>2. QED
  BY <1>1, FS_EmptySet DEF InList

LEMMA InListSingle ==
  ASSUME NEW q, NEW p
  PROVE  InList(<<q>>, p) = IF q = p THEN 1 ELSE 0
<1>1. DOMAIN <<q>> = {1} /\ (<<q>>)[1] = q
  OBVIOUS
<1>2. CASE q = p
  <2>1. {i \in DOMAIN <<q>> : (<<q>>)[i] = p} = {1}
    BY <1>1, <1>2
  <2>2. QED
    BY <1>2, <2>1, FS_Singleton, Zenon DEF InList
<1>3. CASE q # p
  <2>1. {i \in DOMAIN <<q>> : (<<q>>)[i] = p} = {}
    BY <1>1, <1>3
  <2>2. QED
    BY <1>3, <2>1, FS_EmptySet DEF InList
<1>4. QED
  BY <1>2, <1>3

----------------------------------------------------------------------------
(* The state of the endpoint.                                               *)

Keys == {<<>>} \cup (Nat \X Nat)
ShaperRefs == 0..(2 + MaxCalls)

(* A release that has still to be shaped carries the shaper it loaded, and  *)
(* one that the shaper has made wait is no queue entry any more.            *)
Items ==
    {x \in [p : Packets, sh : ShaperRefs, wait : Int, key : Keys] :
       /\ x.wait >= -1
       /\ x.wait = -1 => x.sh # 0
       /\ x.wait > 0 => x.key = <<>>}
Entries == [at : Nat, seq : Nat, item : Items]
HeldLists == Seq([remaining : Int, item : Items])

GoodRule(r) ==
    /\ CopiesAsked(r) \in Nat
    /\ r.action = "delay" => r.by \in Nat \ {0}
    /\ r.action = "reorder" => r.by \in Int
CallSets == RuleSets \cup {u.rules : u \in Setups}
CompiledRules == UNION {{Compile(cs[i]) : i \in DOMAIN cs} : cs \in CallSets}
LoadedRules == {r \in CompiledRules \cup {NoRule} : GoodRule(r)}
Pcs == {"idle", "act", "send", "write", "scan", "sleep", "exit", "drain", "stop", "wait",
        "flush", "closed"}
ThreadStates ==
    [pc : Pcs, pkt : Packets \cup {NoPacket}, sh : ShaperRefs, rule : LoadedRules,
     work : Seq(Items)]

Types ==
    /\ pend \in [Handlers -> Seq(Packets)]
    /\ th \in [Threads -> ThreadStates]
    /\ \A i \in DOMAIN rules : rules[i] \in LoadedRules
    /\ shaper \in [Handlers -> ShaperRefs] /\ nextFree \in [Shapers -> Nat]
    /\ queue \in SUBSET Entries /\ IsFiniteSet(queue) /\ qseq \in Nat
    /\ held \in [Flows -> HeldLists]
    /\ batch \in [Batches -> [list : Seq(Packets), sealed : BOOLEAN]]
    /\ open \in BOOLEAN /\ now \in Nat /\ calls \in 0..MaxCalls
    /\ asked \in [Packets -> Nat \cup {Undecided}] /\ out \in [Packets -> Nat]
    /\ fired \in Seq(Nat \X Nat)

(* Every packet is where its direction, flow and batch put it.              *)
Placed ==
    /\ \A h \in Handlers : \A i \in DOMAIN pend[h] : DirOf(pend[h][i]) = h
    /\ \A h \in Handlers :
         th[h].pc # "idle" => th[h].pkt \in Packets /\ DirOf(th[h].pkt) = h
    /\ \A f \in Flows :
         held[f] # <<>> => Len(held[f]) = 1 /\ flowID(held[f][1].item.p) = f
Batched ==
    \A b \in Batches : \A i \in DOMAIN batch[b].list :
      BatchOf(batch[b].list[i]) = b /\ DirOf(batch[b].list[i]) = "s2c"

(* A packet is decided once: what a handler has still to take, or has taken *)
(* but not acted on, is undecided, and no packet is there twice.            *)
Fresh ==
    \A h \in Handlers :
      /\ \A i \in DOMAIN pend[h] :
           /\ asked[pend[h][i]] = Undecided
           /\ \A j \in DOMAIN pend[h] : pend[h][i] = pend[h][j] => i = j
           /\ th[h].pc = "act" => pend[h][i] # th[h].pkt
      /\ th[h].pc = "act" => asked[th[h].pkt] = Undecided

(* A queue entry has a number of its own, and nothing more to wait for.     *)
Numbered ==
    /\ \A d \in queue : d.seq <= qseq /\ d.item.wait <= 0
    /\ \A d, e \in queue : d.seq = e.seq => d = e

(* A thread with nothing under way has nothing to release.                  *)
AtRest ==
    /\ \A h \in Handlers : th[h].pc \in {"idle", "write"} => th[h].work = <<>>
    /\ th["run"].pc \in {"sleep", "exit"} => th["run"].work = <<>>
    /\ Len(th["run"].work) <= 1
    /\ th["close"].pc \in {"idle", "drain", "closed"} => th["close"].work = <<>>

EInv == Types /\ Placed /\ Batched /\ Fresh /\ Numbered /\ AtRest

----------------------------------------------------------------------------
(* The copies inside, place by place.                                       *)

LEMMA CountsAreNat ==
  ASSUME Types, NEW p \in Packets
  PROVE  /\ \A t \in Threads : InWork(th[t].work, p) \in Nat
         /\ InQueue(p) \in Nat /\ InBuffer(p) \in Nat /\ InBatch(p) \in Nat
         /\ Inside(p) \in Nat
<1>1. \A t \in Threads : InWork(th[t].work, p) \in Nat
  <2> TAKE t \in Threads
  <2>1. th[t].work \in Seq(Items)
    BY DEF Types, ThreadStates
  <2>2. QED
    BY <2>1, InWorkFinite, Zenon
<1>2. InQueue(p) \in Nat
  <2>1. IsFiniteSet(queue) /\ {d \in queue : d.item.p = p} \in SUBSET queue
    BY DEF Types
  <2>2. QED
    BY <2>1, FS_Subset, FS_CardinalityType DEF InQueue
<1>3. InBuffer(p) \in Nat
  BY DEF InBuffer
<1>4. InBatch(p) \in Nat
  <2>1. BatchOf(p) \in Batches
    BY DEF Batches
  <2>2. batch[BatchOf(p)].list \in Seq(Packets)
    BY <2>1 DEF Types
  <2>3. InList(batch[BatchOf(p)].list, p) \in Nat
    BY <2>2, InListAppend
  <2>4. QED
    BY <2>3 DEF InBatch
<1>5. "c2s" \in Threads /\ "s2c" \in Threads /\ "run" \in Threads /\ "close" \in Threads
  BY DEF Threads, Handlers
<1>6. QED
  BY <1>1, <1>2, <1>3, <1>4, <1>5 DEF Inside

LEMMA InsideIsNat == Types => \A p \in Packets : Inside(p) \in Nat
BY CountsAreNat

LEMMA InsideStaysNat == Types' => (\A p \in Packets : Inside(p) \in Nat)'
BY InsideIsNat, PTL

(* A thread's releases change, and nothing else of the threads.             *)
LEMMA WorkChanges ==
  ASSUME Types, NEW t \in Threads, NEW w \in Seq(Items), th' = [th EXCEPT ![t].work = w]
  PROVE  /\ th' \in [Threads -> ThreadStates]
         /\ th'[t].work = w
         /\ \A u \in Threads : u # t => th'[u] = th[u]
         /\ \A u \in Threads : /\ th'[u].pc = th[u].pc /\ th'[u].pkt = th[u].pkt
                               /\ th'[u].rule = th[u].rule /\ th'[u].sh = th[u].sh
<1>1. th \in [Threads -> ThreadStates]
  BY DEF Types
<1>2. QED
  BY <1>1, Zenon DEF ThreadStates

LEMMA PopChanges ==
  ASSUME Types, NEW t \in Threads, th[t].work # <<>>, Pop(t)
  PROVE  /\ Tail(th[t].work) \in Seq(Items)
         /\ th' = [th EXCEPT ![t].work = Tail(th[t].work)]
<1>1. th \in [Threads -> ThreadStates]
  BY DEF Types
<1>2. th[t].work \in Seq(Items)
  BY <1>1 DEF ThreadStates
<1>3. Tail(th[t].work) \in Seq(Items)
  BY <1>2
<1>4. th' = [th EXCEPT ![t].work = Tail(th[t].work)]
  BY <1>1 DEF Pop
<1>5. QED
  BY <1>3, <1>4

(* The first release of a thread is done with.                              *)
LEMMA PopSends ==
  ASSUME Types, NEW t \in Threads, th[t].work # <<>>, Pop(t), NEW p \in Packets
  PROVE  \A u \in Threads : InWork(th'[u].work, p)
            = InWork(th[u].work, p) - (IF u = t /\ th[t].work[1].p = p THEN 1 ELSE 0)
<1> TAKE u \in Threads
<1>1. th[t].work \in Seq(Items) /\ Tail(th[t].work) \in Seq(Items)
  BY PopChanges DEF Types, ThreadStates
<1>2. th'[t].work = Tail(th[t].work) /\ (u # t => th'[u] = th[u])
  BY PopChanges, WorkChanges, Zenon
<1>3. InWork(th[t].work, p) = InWork(Tail(th[t].work), p) + (IF th[t].work[1].p = p THEN 1 ELSE 0)
  BY <1>1, InWorkTail
<1>4. InWork(Tail(th[t].work), p) \in Nat
  BY <1>1, InWorkFinite, Zenon
<1>5. InWork(th[u].work, p) \in Nat
  BY CountsAreNat
<1>6. QED
  BY <1>2, <1>3, <1>4, <1>5

----------------------------------------------------------------------------
(* The abstract link conserves copies.                                      *)

LinkTypeOK ==
    /\ asked \in [Packets -> Nat \cup {Undecided}]
    /\ owed \in [Packets -> Nat] /\ out \in [Packets -> Nat]
    /\ shaped \in BOOLEAN /\ closed \in BOOLEAN

(* The inductive invariant of the abstract link.                            *)
LinkInv == LinkTypeOK /\ L!Conserved

(* A decision owes exactly the copies it asks for.                          *)
LEMMA LinkDecide ==
  ASSUME LinkInv, NEW p \in Packets, L!Decide(p)
  PROVE  LinkInv'
<1>1. LinkTypeOK'
  BY DEF LinkInv, LinkTypeOK, L!Decide
<1>2. ASSUME NEW q \in Packets
      PROVE  IF asked'[q] = Undecided THEN owed'[q] = 0 /\ out'[q] = 0
             ELSE /\ out'[q] + owed'[q] <= asked'[q]
                  /\ ~shaped' /\ ~closed' => out'[q] + owed'[q] = asked'[q]
  <2>1. CASE q = p
    BY <2>1 DEF LinkInv, LinkTypeOK, L!Conserved, L!Decide, Undecided
  <2>2. CASE q # p
    BY <2>2 DEF LinkInv, LinkTypeOK, L!Conserved, L!Decide
  <2>3. QED
    BY <2>1, <2>2
<1>3. QED
  BY <1>1, <1>2 DEF LinkInv, L!Conserved

(* What leaves was owed, and on an open wire what is no longer owed left.   *)
LEMMA LinkLeave == LinkInv /\ L!Leave => LinkInv'
<1> SUFFICES ASSUME LinkInv, L!Leave PROVE LinkInv'
  OBVIOUS
<1>1. LinkTypeOK'
  BY DEF LinkInv, LinkTypeOK, L!Leave
<1>2. ASSUME NEW q \in Packets
      PROVE  IF asked'[q] = Undecided THEN owed'[q] = 0 /\ out'[q] = 0
             ELSE /\ out'[q] + owed'[q] <= asked'[q]
                  /\ ~shaped' /\ ~closed' => out'[q] + owed'[q] = asked'[q]
  <2>1. /\ owed[q] \in Nat /\ out[q] \in Nat /\ owed'[q] \in Nat /\ out'[q] \in Nat
        /\ 0 <= out'[q] - out[q] /\ out'[q] - out[q] <= owed[q] - owed'[q]
        /\ closed \/ out'[q] - out[q] = owed[q] - owed'[q]
        /\ asked' = asked /\ shaped' = shaped /\ closed' = closed
        /\ asked[q] = Undecided \/ asked[q] \in Nat
    BY <1>1 DEF LinkInv, LinkTypeOK, L!Leave
  <2>2. CASE asked[q] = Undecided
    <3>1. owed[q] = 0 /\ out[q] = 0
      BY <2>2 DEF LinkInv, L!Conserved
    <3>2. owed'[q] = 0 /\ out'[q] = 0
      BY <2>1, <3>1
    <3>3. QED
      BY <2>1, <2>2, <3>2
  <2>3. CASE asked[q] # Undecided
    <3>1. /\ out[q] + owed[q] <= asked[q]
          /\ ~shaped /\ ~closed => out[q] + owed[q] = asked[q]
      BY <2>3 DEF LinkInv, L!Conserved
    <3>2. out'[q] + owed'[q] <= asked[q]
      BY <2>1, <2>3, <3>1
    <3>3. ~shaped /\ ~closed => out'[q] + owed'[q] = asked[q]
      BY <2>1, <2>3, <3>1
    <3>4. QED
      BY <2>1, <2>3, <3>2, <3>3
  <2>4. QED
    BY <2>2, <2>3
<1>3. QED
  BY <1>1, <1>2 DEF LinkInv, L!Conserved

(* A copy is dropped only at a limit.                                       *)
LEMMA LinkTailDrop ==
  ASSUME LinkInv, NEW p \in Packets, L!TailDrop(p)
  PROVE  LinkInv'
<1>1. LinkTypeOK'
  BY DEF LinkInv, LinkTypeOK, L!TailDrop
<1>2. L!Conserved'
  BY DEF LinkInv, LinkTypeOK, L!Conserved, L!TailDrop
<1>3. QED
  BY <1>1, <1>2 DEF LinkInv

LEMMA LinkStep == LinkInv /\ [L!Next]_(L!vars) => LinkInv'
<1> SUFFICES ASSUME LinkInv, [L!Next]_(L!vars) PROVE LinkInv'
  OBVIOUS
<1>1. CASE L!Shape \/ L!CloseWire
  BY <1>1, Zenon DEF L!Shape, L!CloseWire, LinkInv, LinkTypeOK, L!Conserved
<1>2. CASE UNCHANGED L!vars
  BY <1>2 DEF L!vars, LinkInv, LinkTypeOK, L!Conserved
<1>3. QED
  BY <1>1, <1>2, LinkDecide, LinkLeave, LinkTailDrop DEF L!Next

LEMMA LinkInit == L!Init => LinkInv
<1> SUFFICES ASSUME L!Init PROVE LinkInv
  OBVIOUS
<1>1. LinkTypeOK
  BY Zenon DEF L!Init, LinkTypeOK
<1>2. L!Conserved
  BY DEF L!Init, L!Conserved
<1>3. QED
  BY <1>1, <1>2 DEF LinkInv

(* No copy is invented, and none is lost but at a bandwidth limit or on a   *)
(* closed wire: what LinkSpec gives for the endpoint's handlers, deferral   *)
(* queue, reorder buffer and batches (endpoint.go, defer.go, shape.go).     *)
THEOREM LinkConserves == L!Spec => []L!Conserved
<1>1. LinkInv => L!Conserved
  BY DEF LinkInv
<1>2. QED
  BY <1>1, LinkInit, LinkStep, PTL DEF L!Spec

----------------------------------------------------------------------------
(* Releases: admit, Enqueue, Forward.                                       *)

LEMMA ReleaseKeeps ==
  ASSUME EInv, NEW t \in Threads, NEW w \in Seq(Items), th[t].work # <<>>,
         Len(w) <= Len(th[t].work), th' = [th EXCEPT ![t].work = w],
         UNCHANGED <<pend, held, asked>>
  PROVE  th' \in [Threads -> ThreadStates] /\ Placed' /\ Fresh' /\ AtRest'
<1> USE DEF EInv
<1>1. /\ th' \in [Threads -> ThreadStates]
      /\ th'[t].work = w
      /\ \A u \in Threads : u # t => th'[u] = th[u]
      /\ \A u \in Threads : th'[u].pc = th[u].pc /\ th'[u].pkt = th[u].pkt
  BY WorkChanges, Zenon
<1>2. Handlers \subseteq Threads /\ "run" \in Threads /\ "close" \in Threads
  BY DEF Threads
<1>3. Placed'
  BY <1>1, <1>2 DEF Placed
<1>4. Fresh'
  BY <1>1, <1>2 DEF Fresh
<1>5. AtRest'
  BY <1>1, <1>2 DEF AtRest
<1>6. QED
  BY <1>1, <1>3, <1>4, <1>5

LEMMA HeadItem ==
  ASSUME Types, NEW t \in Threads, th[t].work # <<>>
  PROVE  /\ th[t] \in ThreadStates
         /\ th[t].work \in Seq(Items) /\ Len(th[t].work) \in Nat \ {0}
         /\ th[t].work[1] \in Items /\ Head(th[t].work) = th[t].work[1]
<1>1. th[t] \in ThreadStates
  BY DEF Types
<1>2. th[t].work \in Seq(Items)
  BY <1>1 DEF ThreadStates
<1>3. QED
  BY <1>1, <1>2

LEMMA ItemKeeps ==
  ASSUME NEW item \in Items, NEW n \in Nat
  PROVE  /\ [item EXCEPT !.wait = n, !.key = <<>>] \in Items
         /\ [item EXCEPT !.wait = n, !.key = <<>>].p = item.p
         /\ [item EXCEPT !.wait = n, !.key = <<>>].key = <<>>
         /\ [item EXCEPT !.wait = 0] \in Items /\ [item EXCEPT !.wait = 0].p = item.p
         /\ [item EXCEPT !.wait = 0].key = item.key /\ [item EXCEPT !.wait = 0].wait = 0
<1>1. PICK p \in Packets, s \in ShaperRefs, v \in Int, e \in Keys :
        item = [p |-> p, sh |-> s, wait |-> v, key |-> e]
  BY DEF Items
<1>2. <<>> \in Keys
  BY DEF Keys
<1>3. [item EXCEPT !.wait = n, !.key = <<>>] = [p |-> p, sh |-> s, wait |-> n, key |-> <<>>]
  <2>1. [item EXCEPT !.wait = n] = [p |-> p, sh |-> s, wait |-> n, key |-> e]
    BY <1>1
  <2>2. [[p |-> p, sh |-> s, wait |-> n, key |-> e] EXCEPT !.key = <<>>]
          = [p |-> p, sh |-> s, wait |-> n, key |-> <<>>]
    OBVIOUS
  <2>3. QED
    BY <2>1, <2>2, Zenon
<1>4. [p |-> p, sh |-> s, wait |-> n, key |-> <<>>] \in Items
  BY <1>2 DEF Items
<1>5. [item EXCEPT !.wait = 0] = [p |-> p, sh |-> s, wait |-> 0, key |-> e]
  BY <1>1
<1>6. [p |-> p, sh |-> s, wait |-> 0, key |-> e] \in Items
  BY DEF Items
<1>7. item.p = p /\ item.key = e
  BY <1>1
<1>8. QED
  BY <1>3, <1>4, <1>5, <1>6, <1>7

LEMMA ItemKeyed ==
  ASSUME NEW item \in Items, NEW k \in Nat, NEW l \in Nat, item.wait <= 0
  PROVE  /\ [item EXCEPT !.key = <<k, l>>] \in Items
         /\ [item EXCEPT !.key = <<k, l>>].p = item.p
         /\ [item EXCEPT !.key = <<k, l>>].key = <<k, l>>
<1>1. PICK p \in Packets, s \in ShaperRefs, v \in Int, e \in Keys :
        item = [p |-> p, sh |-> s, wait |-> v, key |-> e]
  BY DEF Items
<1>2. v >= -1 /\ (v = -1 => s # 0) /\ item.wait = v /\ item.p = p
  BY <1>1 DEF Items
<1>3. <<k, l>> \in Keys
  BY DEF Keys
<1>4. [item EXCEPT !.key = <<k, l>>] = [p |-> p, sh |-> s, wait |-> v, key |-> <<k, l>>]
  BY <1>1
<1>5. [p |-> p, sh |-> s, wait |-> v, key |-> <<k, l>>] \in Items
  BY <1>2, <1>3 DEF Items
<1>6. QED
  BY <1>2, <1>4, <1>5

(* What admit does, by the link time that is left.                          *)
Admitted(t, item, free) ==
    /\ th[t].work # <<>> /\ th[t].work[1] = item /\ item.sh \in Shapers
    /\ item.wait = -1 /\ free >= now /\ Note(item)
    /\ free = IF nextFree[item.sh] < now THEN now ELSE nextFree[item.sh]
    /\ \/ /\ free - now > MaxBacklog
          /\ nextFree' = [nextFree EXCEPT ![item.sh] = free]
          /\ Pop(t)
       \/ /\ nextFree' = [nextFree EXCEPT ![item.sh] = free + 1]
          /\ [item EXCEPT !.wait = free - now, !.key = <<>>] \in Items
          /\ th' = [th EXCEPT ![t].work =
               [th[t].work EXCEPT ![1] = [item EXCEPT !.wait = free - now, !.key = <<>>]]]

LEMMA AdmitMeans ==
  ASSUME Types, NEW t \in Threads, admit(t)
  PROVE  \E item \in Items, free \in Nat : Admitted(t, item, free)
<1>1. th[t].work # <<>>
  BY Zenon DEF admit
<1>2. /\ th[t] \in ThreadStates
      /\ th[t].work \in Seq(Items) /\ Len(th[t].work) \in Nat \ {0}
      /\ th[t].work[1] \in Items /\ Head(th[t].work) = th[t].work[1]
  BY <1>1, HeadItem
<1>3. PICK item \in Items : item = th[t].work[1] /\ item = Head(th[t].work)
  BY <1>2
<1>4. item.wait = -1 /\ Note(item)
  BY <1>3, Zenon DEF admit
<1>5. item.sh \in Shapers
  BY <1>4, EndpointAssumption DEF Items, Shapers, ShaperRefs
<1>6. nextFree[item.sh] \in Nat /\ now \in Nat /\ MaxBacklog \in Nat
  BY <1>5, EndpointAssumption DEF Types
<1>7. PICK free \in Nat : free >= now /\ free = IF nextFree[item.sh] < now THEN now ELSE nextFree[item.sh]
  BY <1>6
<1>8. [item EXCEPT !.wait = free - now, !.key = <<>>] \in Items
  <2>1. free - now \in Nat
    BY <1>6, <1>7
  <2>2. QED
    BY <2>1, ItemKeeps, Zenon
<1>9. CASE free - now > MaxBacklog
  <2>1. nextFree' = [nextFree EXCEPT ![item.sh] = free] /\ Pop(t)
    BY <1>3, <1>7, <1>9, Zenon DEF admit
  <2>2. QED
    BY <1>1, <1>3, <1>4, <1>5, <1>7, <1>9, <2>1, Zenon DEF Admitted
<1>10. CASE ~(free - now > MaxBacklog)
  <2>1. /\ nextFree' = [nextFree EXCEPT ![item.sh] = free + 1]
        /\ th' = [th EXCEPT ![t].work[1] = [item EXCEPT !.wait = free - now, !.key = <<>>]]
    BY <1>3, <1>7, <1>10, Zenon DEF admit
  <2>2. th' = [th EXCEPT ![t].work =
                 [th[t].work EXCEPT ![1] = [item EXCEPT !.wait = free - now, !.key = <<>>]]]
    BY <1>2, <1>3, <2>1 DEF Types, ThreadStates
  <2>3. QED
    BY <1>1, <1>3, <1>4, <1>5, <1>7, <1>8, <1>10, <2>1, <2>2, Zenon DEF Admitted
<1>11. QED
  BY <1>9, <1>10

LEMMA AdmitKeeps ==
  ASSUME EInv, NEW t \in Threads, admit(t) PROVE EInv'
<1>1. PICK item \in Items, free \in Nat : Admitted(t, item, free)
  BY AdmitMeans DEF EInv
<1> USE DEF Admitted
<1>2. /\ th[t].work \in Seq(Items) /\ Len(th[t].work) \in Nat \ {0}
  BY <1>1, HeadItem DEF EInv
<1>3. \E w \in Seq(Items) : Len(w) <= Len(th[t].work) /\ th' = [th EXCEPT ![t].work = w]
  <2>1. CASE Pop(t)
    <3>1. Tail(th[t].work) \in Seq(Items) /\ th' = [th EXCEPT ![t].work = Tail(th[t].work)]
      BY <1>1, <2>1, PopChanges DEF EInv
    <3>2. Len(Tail(th[t].work)) <= Len(th[t].work)
      BY <1>1, <1>2
    <3>3. QED
      BY <3>1, <3>2, Zenon
  <2>2. CASE ~Pop(t)
    <3>1. PICK i \in Items : th' = [th EXCEPT ![t].work = [th[t].work EXCEPT ![1] = i]]
      BY <1>1, <2>2
    <3>2. [th[t].work EXCEPT ![1] = i] \in Seq(Items) /\ Len([th[t].work EXCEPT ![1] = i]) = Len(th[t].work)
      BY <1>2
    <3>3. Len([th[t].work EXCEPT ![1] = i]) <= Len(th[t].work)
      BY <1>2, <3>2
    <3>4. QED
      BY <3>1, <3>2, <3>3, Zenon
  <2>3. QED
    BY <2>1, <2>2
<1>4. nextFree' \in [Shapers -> Nat]
  <2>1. nextFree \in [Shapers -> Nat]
    BY DEF EInv, Types
  <2>2. PICK n \in Nat : nextFree' = [nextFree EXCEPT ![item.sh] = n]
    <3>1. free + 1 \in Nat
      OBVIOUS
    <3>2. QED
      BY <1>1, <3>1, Zenon
  <2>3. QED
    BY <1>1, <2>1, <2>2
<1>5. fired' \in Seq(Nat \X Nat)
  BY <1>1 DEF Note, EInv, Types, Items, Keys
<1>6. UNCHANGED <<pend, rules, shaper, calls, queue, qseq, held, batch, open, now, asked, out>>
  BY Zenon DEF admit, control, deferral
<1>7. th' \in [Threads -> ThreadStates] /\ Placed' /\ Fresh' /\ AtRest'
  BY <1>1, <1>3, <1>6, ReleaseKeeps, Zenon
<1>8. Types'
  BY <1>4, <1>5, <1>6, <1>7 DEF EInv, Types
<1>9. Batched' /\ Numbered'
  BY <1>6, Zenon DEF EInv, Batched, Numbered
<1>10. QED
  BY <1>7, <1>8, <1>9 DEF EInv

LEMMA ThreadNames ==
  /\ Handlers \subseteq Threads /\ "c2s" \in Handlers /\ "s2c" \in Handlers
  /\ "c2s" \in Threads /\ "s2c" \in Threads /\ "run" \in Threads /\ "close" \in Threads
  /\ \A t \in Threads : t \in {"c2s", "s2c", "run", "close"}
BY DEF Threads, Handlers

(* Only one thread's releases change.                                       *)
LEMMA InsideChanges ==
  ASSUME Types, NEW q \in Packets, NEW t \in Threads,
         \A u \in Threads : u # t => th'[u].work = th[u].work,
         InWork(th'[t].work, q) \in Int, InQueue(q)' \in Int, InBuffer(q)' \in Int,
         InBatch(q)' \in Int
  PROVE  /\ InWork(th[t].work, q) \in Nat /\ InQueue(q) \in Nat
         /\ InBuffer(q) \in Nat /\ InBatch(q) \in Nat /\ Inside(q) \in Nat
         /\ Inside(q)' = Inside(q) + (InWork(th'[t].work, q) - InWork(th[t].work, q))
              + (InQueue(q)' - InQueue(q)) + (InBuffer(q)' - InBuffer(q))
              + (InBatch(q)' - InBatch(q))
<1>1. /\ \A u \in Threads : InWork(th[u].work, q) \in Nat
      /\ InQueue(q) \in Nat /\ InBuffer(q) \in Nat /\ InBatch(q) \in Nat /\ Inside(q) \in Nat
  BY CountsAreNat
<1>2. CASE t = "c2s"
  BY <1>1, <1>2, ThreadNames DEF Inside
<1>3. CASE t = "s2c"
  BY <1>1, <1>3, ThreadNames DEF Inside
<1>4. CASE t = "run"
  BY <1>1, <1>4, ThreadNames DEF Inside
<1>5. CASE t = "close"
  BY <1>1, <1>5, ThreadNames DEF Inside
<1>6. QED
  BY <1>2, <1>3, <1>4, <1>5, ThreadNames, Zenon

LEMMA SameQueue == ASSUME NEW q, queue' = queue PROVE InQueue(q)' = InQueue(q)
BY DEF InQueue
LEMMA SameBuffer == ASSUME NEW q, held' = held PROVE InBuffer(q)' = InBuffer(q)
BY DEF InBuffer
LEMMA SameBatch == ASSUME NEW q, batch' = batch PROVE InBatch(q)' = InBatch(q)
BY DEF InBatch
LEMMA OwedSame == ASSUME \A q \in Packets : Inside(q)' = Inside(q) PROVE owed' = owed
BY DEF owed
LEMMA OwedDrops ==
  ASSUME NEW p \in Packets,
         \A q \in Packets : Inside(q)' = IF q = p THEN Inside(q) - 1 ELSE Inside(q)
  PROVE  owed' = [owed EXCEPT ![p] = @ - 1]
BY Zenon DEF owed

(* The first release goes, or only its wait and key change.                 *)
LEMMA PopInside ==
  ASSUME Types, NEW t \in Threads, th[t].work # <<>>, Pop(t), NEW q \in Packets,
         InQueue(q)' \in Int, InBatch(q)' \in Int, held' = held
  PROVE  /\ InQueue(q) \in Nat /\ InBatch(q) \in Nat /\ Inside(q) \in Nat
         /\ Inside(q)' = Inside(q) - (IF th[t].work[1].p = q THEN 1 ELSE 0)
                         + (InQueue(q)' - InQueue(q)) + (InBatch(q)' - InBatch(q))
<1>1. /\ InWork(th'[t].work, q) = InWork(th[t].work, q) - (IF th[t].work[1].p = q THEN 1 ELSE 0)
      /\ InWork(th[t].work, q) \in Nat
  BY PopSends, CountsAreNat
<1>2. \A u \in Threads : u # t => th'[u].work = th[u].work
  BY PopChanges, WorkChanges, Zenon
<1>3. InBuffer(q)' = InBuffer(q) /\ InBuffer(q) \in Nat
  BY SameBuffer, CountsAreNat
<1>4. InWork(th'[t].work, q) \in Int /\ InBuffer(q)' \in Int
  BY <1>1, <1>3
<1>5. /\ InQueue(q) \in Nat /\ InBatch(q) \in Nat /\ Inside(q) \in Nat
      /\ Inside(q)' = Inside(q) + (InWork(th'[t].work, q) - InWork(th[t].work, q))
              + (InQueue(q)' - InQueue(q)) + (InBuffer(q)' - InBuffer(q))
              + (InBatch(q)' - InBatch(q))
  BY <1>2, <1>4, InsideChanges
<1>6. QED
  BY <1>1, <1>3, <1>5

LEMMA HeadInside ==
  ASSUME Types, NEW t \in Threads, th[t].work # <<>>, NEW x \in Items, x.p = th[t].work[1].p,
         th' = [th EXCEPT ![t].work = [th[t].work EXCEPT ![1] = x]], NEW q \in Packets,
         UNCHANGED <<queue, held, batch>>
  PROVE  Inside(q)' = Inside(q)
<1>1. th[t].work \in Seq(Items) /\ Len(th[t].work) \in Nat \ {0}
  BY HeadItem
<1>2. PICK w : w = [th[t].work EXCEPT ![1] = x]
  BY Zenon
<1>3. w \in Seq(Items) /\ Len(w) = Len(th[t].work)
  BY <1>1, <1>2
<1>4. \A i \in 1..Len(w) : w[i].p = th[t].work[i].p
  BY <1>1, <1>2, <1>3
<1>5. th' = [th EXCEPT ![t].work = w]
  BY <1>2
<1>6. th'[t].work = w /\ \A u \in Threads : u # t => th'[u].work = th[u].work
  BY <1>3, <1>5, WorkChanges, Zenon
<1>7. InWork(w, q) = InWork(th[t].work, q)
  BY <1>1, <1>3, <1>4, InWorkSame
<1>8. InQueue(q)' = InQueue(q) /\ InBuffer(q)' = InBuffer(q) /\ InBatch(q)' = InBatch(q)
  BY SameQueue, SameBuffer, SameBatch
<1>9. /\ InWork(th[t].work, q) \in Nat /\ InQueue(q) \in Nat /\ InBuffer(q) \in Nat
      /\ InBatch(q) \in Nat /\ Inside(q) \in Nat
  BY CountsAreNat
<1>10. /\ InWork(th'[t].work, q) \in Int /\ InQueue(q)' \in Int /\ InBuffer(q)' \in Int
       /\ InBatch(q)' \in Int
  BY <1>6, <1>7, <1>8, <1>9
<1>11. Inside(q)' = Inside(q) + (InWork(th'[t].work, q) - InWork(th[t].work, q))
              + (InQueue(q)' - InQueue(q)) + (InBuffer(q)' - InBuffer(q))
              + (InBatch(q)' - InBatch(q))
  BY <1>6, <1>10, InsideChanges
<1>12. QED
  BY <1>6, <1>7, <1>8, <1>9, <1>11

LEMMA AdmitLinks ==
  ASSUME EInv, NEW t \in Threads, admit(t) PROVE [L!Next]_(L!vars)
<1>1. PICK item \in Items, free \in Nat : Admitted(t, item, free)
  BY AdmitMeans DEF EInv
<1> USE DEF Admitted
<1>2. UNCHANGED <<queue, held, batch, asked, out, closed>>
  BY Zenon DEF admit, deferral, closed
<1>3. /\ nextFree \in [Shapers -> Nat] /\ now \in Nat /\ MaxBacklog \in Nat /\ item.p \in Packets
  BY EndpointAssumption, Zenon DEF EInv, Types, Items
<1>4. CASE free - now > MaxBacklog /\ nextFree' = [nextFree EXCEPT ![item.sh] = free] /\ Pop(t)
  <2>1. free > 0 /\ nextFree[item.sh] = free
    BY <1>1, <1>3, <1>4
  <2>2. shaped /\ shaped'
    BY <1>1, <1>3, <1>4, <2>1 DEF shaped
  <2>3. \A q \in Packets : Inside(q)' = IF q = item.p THEN Inside(q) - 1 ELSE Inside(q)
    <3> TAKE q \in Packets
    <3>1. InQueue(q)' = InQueue(q) /\ InBatch(q)' = InBatch(q) /\ InQueue(q) \in Nat /\ InBatch(q) \in Nat
      BY <1>2, SameQueue, SameBatch, CountsAreNat DEF EInv
    <3>2. /\ Inside(q) \in Nat
          /\ Inside(q)' = Inside(q) - (IF th[t].work[1].p = q THEN 1 ELSE 0)
                         + (InQueue(q)' - InQueue(q)) + (InBatch(q)' - InBatch(q))
      BY <1>1, <1>2, <1>4, <3>1, PopInside DEF EInv
    <3>3. QED
      BY <1>1, <3>1, <3>2
  <2>4. owed' = [owed EXCEPT ![item.p] = @ - 1]
    BY <1>3, <2>3, OwedDrops
  <2>5. owed[item.p] > 0
    <3>1. InWork(th[t].work, item.p) >= 1
      <4>1. InWork(th[t].work, item.p) = InWork(Tail(th[t].work), item.p) + 1
        BY <1>1, HeadItem, InWorkTail DEF EInv
      <4>2. InWork(Tail(th[t].work), item.p) \in Nat
        BY <1>1, PopChanges, <1>4, InWorkFinite, Zenon DEF EInv
      <4>3. QED
        BY <4>1, <4>2
    <3>2. Inside(item.p) > 0
      BY <1>3, <3>1, CountsAreNat, ThreadNames DEF Inside, EInv
    <3>3. QED
      BY <1>3, <3>2 DEF owed
  <2>6. L!TailDrop(item.p)
    BY <1>2, <2>2, <2>4, <2>5 DEF L!TailDrop
  <2>7. QED
    BY <1>3, <2>6 DEF L!Next
<1>5. CASE /\ nextFree' = [nextFree EXCEPT ![item.sh] = free + 1]
           /\ [item EXCEPT !.wait = free - now, !.key = <<>>] \in Items
           /\ th' = [th EXCEPT ![t].work =
                      [th[t].work EXCEPT ![1] = [item EXCEPT !.wait = free - now, !.key = <<>>]]]
  <2>1. shaped'
    BY <1>1, <1>3, <1>5 DEF shaped
  <2>2. [item EXCEPT !.wait = free - now, !.key = <<>>].p = item.p
    <3>1. free - now \in Nat
      BY <1>1, <1>3
    <3>2. QED
      BY <3>1, ItemKeeps, Zenon
  <2>3. \A q \in Packets : Inside(q)' = Inside(q)
    BY <1>1, <1>2, <1>5, <2>2, HeadInside, Zenon DEF EInv
  <2>4. L!Shape
    BY <1>2, <2>1, <2>3, OwedSame DEF L!Shape, shaped
  <2>5. QED
    BY <2>4 DEF L!Next
<1>6. QED
  BY <1>1, <1>4, <1>5

(* A queue entry is new: it has the next number.                            *)
LEMMA ScheduleAdds ==
  ASSUME Types, Numbered, NEW d \in Nat, NEW item \in Items, item.wait <= 0,
         schedule(d, item)
  PROVE  /\ queue' \in SUBSET Entries /\ IsFiniteSet(queue') /\ qseq' \in Nat /\ Numbered'
         /\ \A q \in Packets : InQueue(q)' = InQueue(q) + (IF item.p = q THEN 1 ELSE 0)
<1>1. PICK e \in Entries : e = [at |-> now + d, seq |-> qseq + 1, item |-> item]
  <2>1. now + d \in Nat /\ qseq + 1 \in Nat
    BY DEF Types
  <2>2. QED
    BY <2>1, Zenon DEF Entries
<1>2. queue' = queue \cup {e} /\ qseq' = qseq + 1 /\ e.seq = qseq + 1 /\ e.item = item
  BY <1>1 DEF schedule
<1>3. queue \in SUBSET Entries /\ IsFiniteSet(queue) /\ qseq \in Nat
  BY DEF Types
<1>4. \A c \in queue : c.seq \in Nat /\ c.seq <= qseq /\ c # e
  BY <1>2, <1>3 DEF Entries, Numbered
<1>5. IsFiniteSet(queue')
  BY <1>2, <1>3, FS_AddElement
<1>6. Numbered'
  BY <1>2, <1>3, <1>4 DEF Numbered
<1>7. ASSUME NEW q \in Packets
      PROVE  InQueue(q)' = InQueue(q) + (IF item.p = q THEN 1 ELSE 0)
  <2> DEFINE A == {c \in queue : c.item.p = q}
             B == {c \in queue' : c.item.p = q}
  <2>1. IsFiniteSet(A) /\ e \notin A
    <3>1. A \in SUBSET queue /\ e \notin A
      BY <1>4
    <3> HIDE DEF A
    <3>2. QED
      BY <1>3, <3>1, FS_Subset
  <2>2. InQueue(q) = Cardinality(A) /\ InQueue(q)' = Cardinality(B)
    BY DEF InQueue
  <2>3. InQueue(q) \in Nat
    BY CountsAreNat
  <2>4. CASE item.p = q
    <3>1. B = A \cup {e}
      BY <1>2, <2>4
    <3> HIDE DEF A, B
    <3>2. Cardinality(A \cup {e}) = Cardinality(A) + 1
      BY <2>1, FS_AddElement, Zenon
    <3>3. QED
      BY <2>2, <2>4, <3>1, <3>2
  <2>5. CASE item.p # q
    <3>1. B = A
      BY <1>2, <2>5
    <3> HIDE DEF A, B
    <3>2. QED
      BY <2>2, <2>3, <2>5, <3>1
  <2>6. QED
    BY <2>4, <2>5
<1>8. QED
  BY <1>2, <1>3, <1>5, <1>6, <1>7

LEMMA EnqueueKeeps ==
  ASSUME EInv, NEW t \in Threads, Enqueue(t) PROVE EInv' /\ UNCHANGED L!vars
<1>1. th[t].work # <<>>
  BY DEF Enqueue
<1>2. /\ th[t].work \in Seq(Items) /\ Len(th[t].work) \in Nat \ {0} /\ th[t] \in ThreadStates
      /\ th[t].work[1] \in Items /\ Head(th[t].work) = th[t].work[1]
  BY <1>1, HeadItem DEF EInv
<1>3. PICK item \in Items : item = th[t].work[1] /\ item = Head(th[t].work)
  BY <1>2
<1>4. item.wait \in Nat /\ item.wait > 0
  BY <1>3 DEF Enqueue, Items
<1>5. /\ [item EXCEPT !.wait = 0] \in Items /\ [item EXCEPT !.wait = 0].p = item.p
      /\ [item EXCEPT !.wait = 0].wait <= 0
  <2>1. /\ [item EXCEPT !.wait = 0] \in Items /\ [item EXCEPT !.wait = 0].p = item.p
        /\ [item EXCEPT !.wait = 0].wait = 0
    BY <1>4, ItemKeeps, Zenon
  <2>2. QED
    BY <2>1
<1>6. UNCHANGED <<pend, rules, shaper, calls, nextFree, held, batch, open, now, asked, out, fired>>
  BY DEF Enqueue, control, outcome
<1>7. /\ \E w \in Seq(Items) : Len(w) <= Len(th[t].work) /\ th' = [th EXCEPT ![t].work = w]
      /\ queue' \in SUBSET Entries /\ IsFiniteSet(queue') /\ qseq' \in Nat /\ Numbered'
      /\ \A q \in Packets : Inside(q)' = Inside(q)
  <2>1. CASE qstopped
    <3>1. th' = [th EXCEPT ![t].work = [th[t].work EXCEPT ![1] = [item EXCEPT !.wait = 0]]]
      BY <1>2, <1>3, <2>1 DEF Enqueue
    <3>2. queue' = queue /\ qseq' = qseq
      BY <2>1 DEF Enqueue, deferral
    <3>3. [th[t].work EXCEPT ![1] = [item EXCEPT !.wait = 0]] \in Seq(Items)
      BY <1>2, <1>5
    <3>4. Len([th[t].work EXCEPT ![1] = [item EXCEPT !.wait = 0]]) <= Len(th[t].work)
      BY <1>2, <1>5
    <3>5. \A q \in Packets : Inside(q)' = Inside(q)
      BY <1>1, <1>3, <1>5, <1>6, <3>1, <3>2, HeadInside, Zenon DEF EInv
    <3>6. QED
      BY <3>1, <3>2, <3>3, <3>4, <3>5, Zenon DEF EInv, Types, Numbered
  <2>2. CASE ~qstopped
    <3>1. schedule(item.wait, [item EXCEPT !.wait = 0]) /\ Pop(t)
      BY <1>3, <2>2 DEF Enqueue
    <3>2. /\ queue' \in SUBSET Entries /\ IsFiniteSet(queue') /\ qseq' \in Nat /\ Numbered'
          /\ \A q \in Packets : InQueue(q)' = InQueue(q) + (IF item.p = q THEN 1 ELSE 0)
      BY <1>4, <1>5, <3>1, ScheduleAdds, Zenon DEF EInv
    <3>3. /\ Tail(th[t].work) \in Seq(Items)
          /\ th' = [th EXCEPT ![t].work = Tail(th[t].work)]
      BY <1>1, <3>1, PopChanges DEF EInv
    <3>4. Len(Tail(th[t].work)) <= Len(th[t].work)
      BY <1>2
    <3>5. ASSUME NEW q \in Packets PROVE Inside(q)' = Inside(q)
      <4>1. InBatch(q)' = InBatch(q) /\ InQueue(q) \in Nat /\ InBatch(q) \in Nat
        BY <1>6, SameBatch, CountsAreNat DEF EInv
      <4>2. InQueue(q)' \in Int /\ InBatch(q)' \in Int
        BY <3>2, <4>1
      <4>3. /\ Inside(q) \in Nat
            /\ Inside(q)' = Inside(q) - (IF th[t].work[1].p = q THEN 1 ELSE 0)
                         + (InQueue(q)' - InQueue(q)) + (InBatch(q)' - InBatch(q))
        BY <1>1, <1>6, <3>1, <4>2, PopInside DEF EInv
      <4>4. QED
        BY <1>3, <3>2, <4>1, <4>2, <4>3
    <3>6. QED
      BY <3>2, <3>3, <3>4, <3>5, Zenon
  <2>3. QED
    BY <2>1, <2>2
<1>8. th' \in [Threads -> ThreadStates] /\ Placed' /\ Fresh' /\ AtRest'
  BY <1>1, <1>6, <1>7, ReleaseKeeps, Zenon
<1>9. Types'
  BY <1>6, <1>7, <1>8 DEF EInv, Types
<1>10. Batched'
  BY <1>6 DEF EInv, Batched
<1>11. UNCHANGED L!vars
  BY <1>6, <1>7, OwedSame DEF L!vars, shaped, closed
<1>12. QED
  BY <1>7, <1>8, <1>9, <1>10, <1>11 DEF EInv

(* What a release adds to the wire or to its batch it takes from the        *)
(* thread.                                                                  *)
LEMMA ForwardMoves ==
  ASSUME EInv, NEW t \in Threads, Forward(t)
  PROVE  \E p \in Packets :
           /\ p = th[t].work[1].p
           /\ batch' \in [Batches -> [list : Seq(Packets), sealed : BOOLEAN]]
           /\ Batched'
           /\ out' \in [Packets -> Nat]
           /\ \A q \in Packets :
                LET one == IF p = q THEN 1 ELSE 0
                IN  \/ open /\ InBatch(q)' = InBatch(q) /\ out'[q] = out[q] + one
                    \/ ~open /\ InBatch(q)' = InBatch(q) /\ out'[q] \in {out[q], out[q] + one}
                    \/ InBatch(q)' = InBatch(q) + one /\ out'[q] = out[q]
<1>1. th[t].work # <<>>
  BY Zenon DEF Forward
<1>2. th[t].work[1] \in Items /\ Head(th[t].work) = th[t].work[1]
  BY <1>1, HeadItem DEF EInv
<1>3. PICK p \in Packets : p = th[t].work[1].p /\ p = Head(th[t].work).p
  BY <1>2 DEF Items
<1>4. PICK b \in Batches : b = BatchOf(p)
  BY DEF Batches
<1>5. /\ batch \in [Batches -> [list : Seq(Packets), sealed : BOOLEAN]]
      /\ out \in [Packets -> Nat] /\ open \in BOOLEAN
  BY DEF EInv, Types
<1>6. \A q \in Packets : InBatch(q) \in Nat
  BY CountsAreNat DEF EInv
<1>7. CASE DirOf(p) = "c2s" /\ out' = [out EXCEPT ![p] = @ + 1] /\ batch' = batch
  <2>1. Batched'
    BY <1>7 DEF EInv, Batched
  <2>2. out' \in [Packets -> Nat]
    BY <1>5, <1>7
  <2>3. \A q \in Packets : InBatch(q)' = InBatch(q) /\ out'[q] = out[q] + (IF p = q THEN 1 ELSE 0)
    BY <1>5, <1>7, SameBatch
  <2>4. QED
    BY <1>3, <1>5, <1>7, <2>1, <2>2, <2>3, Zenon
<1>8. CASE DirOf(p) = "s2c" /\ batch' = [batch EXCEPT ![b].list = Append(@, p)] /\ out' = out
  <2>1. /\ batch' \in [Batches -> [list : Seq(Packets), sealed : BOOLEAN]]
        /\ batch'[b].list = Append(batch[b].list, p)
        /\ \A c \in Batches : c # b => batch'[c] = batch[c]
    <3>1. PICK l, z : l \in Seq(Packets) /\ z \in BOOLEAN /\ batch[b] = [list |-> l, sealed |-> z]
      BY <1>5
    <3>2. /\ [[list |-> l, sealed |-> z] EXCEPT !.list = Append(l, p)] = [list |-> Append(l, p), sealed |-> z]
          /\ [list |-> l, sealed |-> z].list = l
      OBVIOUS
    <3>3. batch' = [batch EXCEPT ![b] = [list |-> Append(l, p), sealed |-> z]] /\ batch[b].list = l
      BY <1>8, <3>1, <3>2, Zenon
    <3>4. [list |-> Append(l, p), sealed |-> z] \in [list : Seq(Packets), sealed : BOOLEAN]
      <4>1. Append(l, p) \in Seq(Packets)
        BY <3>1
      <4>2. QED
        BY <3>1, <4>1, Zenon
    <3>5. QED
      BY <1>5, <3>3, <3>4
  <2>2. batch[b].list \in Seq(Packets)
    BY <1>5
  <2>3. Batched'
    BY <1>4, <1>8, <2>1, <2>2 DEF EInv, Batched
  <2>4. ASSUME NEW q \in Packets
        PROVE  InBatch(q)' = InBatch(q) + (IF p = q THEN 1 ELSE 0)
    <3>1. CASE BatchOf(q) = b /\ DirOf(q) # "c2s"
      <4>1. InList(Append(batch[b].list, p), q) = InList(batch[b].list, q) + (IF p = q THEN 1 ELSE 0)
        BY <2>2, InListAppend
      <4>2. QED
        BY <2>1, <3>1, <4>1, Zenon DEF InBatch
    <3>2. CASE BatchOf(q) # b \/ DirOf(q) = "c2s"
      <4>1. p # q
        BY <1>4, <1>8, <3>2
      <4>2. BatchOf(q) \in Batches
        BY DEF Batches
      <4>3. InBatch(q)' = InBatch(q)
        BY <2>1, <3>2, <4>2 DEF InBatch
      <4>4. QED
        BY <1>6, <4>1, <4>3
    <3>3. QED
      BY <3>1, <3>2
  <2>5. QED
    BY <1>3, <1>5, <1>8, <2>1, <2>3, <2>4
<1>9. CASE DirOf(p) = "s2c" /\ Written(<<p>>) /\ batch' = batch
  <2>1. Batched'
    BY <1>9 DEF EInv, Batched
  <2>2. \A q \in Packets : InList(<<p>>, q) = IF p = q THEN 1 ELSE 0
    BY InListSingle
  <2>3. \A q \in Packets : InBatch(q)' = InBatch(q)
    BY <1>9, SameBatch
  <2>4. \A q \in Packets : out'[q] = IF open THEN out[q] + (IF p = q THEN 1 ELSE 0) ELSE out[q]
    BY <1>9, <2>2 DEF Written
  <2>5. out' \in [Packets -> Nat]
    <3>1. \A q \in Packets : out'[q] \in Nat
      BY <1>5, <2>4
    <3>2. out' = [q \in Packets |-> out'[q]]
      BY <1>9 DEF Written
    <3>3. QED
      BY <3>1, <3>2
  <2>6. QED
    BY <1>3, <1>5, <1>9, <2>1, <2>3, <2>4, <2>5, Zenon
<1>10. QED
  BY <1>3, <1>4, <1>7, <1>8, <1>9, Zenon DEF Forward

LEMMA ForwardKeeps ==
  ASSUME EInv, NEW t \in Threads, Forward(t) PROVE EInv' /\ L!Leave
<1>1. th[t].work # <<>> /\ Pop(t) /\ Note(Head(th[t].work))
  BY Zenon DEF Forward
<1>2. UNCHANGED <<pend, rules, shaper, calls, nextFree, queue, qseq, held, open, now, asked>>
  BY Zenon DEF Forward, control, deferral
<1>3. PICK p \in Packets :
           /\ p = th[t].work[1].p
           /\ batch' \in [Batches -> [list : Seq(Packets), sealed : BOOLEAN]]
           /\ Batched'
           /\ out' \in [Packets -> Nat]
           /\ \A q \in Packets :
                LET one == IF p = q THEN 1 ELSE 0
                IN  \/ open /\ InBatch(q)' = InBatch(q) /\ out'[q] = out[q] + one
                    \/ ~open /\ InBatch(q)' = InBatch(q) /\ out'[q] \in {out[q], out[q] + one}
                    \/ InBatch(q)' = InBatch(q) + one /\ out'[q] = out[q]
  BY ForwardMoves, Zenon
<1>4. /\ th[t].work \in Seq(Items) /\ Len(th[t].work) \in Nat \ {0}
      /\ th[t].work[1] \in Items /\ Head(th[t].work) = th[t].work[1]
  BY <1>1, HeadItem DEF EInv
<1>5. th' \in [Threads -> ThreadStates] /\ Placed' /\ Fresh' /\ AtRest'
  <2>1. Tail(th[t].work) \in Seq(Items) /\ th' = [th EXCEPT ![t].work = Tail(th[t].work)]
    BY <1>1, PopChanges DEF EInv
  <2>2. Len(Tail(th[t].work)) <= Len(th[t].work)
    BY <1>4
  <2>3. QED
    BY <1>1, <1>2, <2>1, <2>2, ReleaseKeeps, Zenon
<1>6. fired' \in Seq(Nat \X Nat)
  <2>1. fired \in Seq(Nat \X Nat)
    BY Zenon DEF EInv, Types
  <2>2. th[t].work[1].key \in Keys
    BY <1>4 DEF Items
  <2>3. fired' = IF th[t].work[1].key = <<>> THEN fired ELSE Append(fired, th[t].work[1].key)
    BY <1>1, <1>4, Zenon DEF Note
  <2>4. QED
    BY ONLY <2>1, <2>2, <2>3 DEF Keys
<1>7. Types'
  BY <1>2, <1>3, <1>5, <1>6, Zenon DEF EInv, Types
<1>8. Numbered'
  BY <1>2 DEF EInv, Numbered
<1>12. (\A q \in Packets : Inside(q) \in Nat)'
  BY <1>7, InsideStaysNat
<1>9. ASSUME NEW q \in Packets
      PROVE  /\ Inside(q)' \in Nat /\ Inside(q) \in Nat /\ out'[q] \in Nat /\ out[q] \in Nat
             /\ 0 <= out'[q] - out[q] /\ out'[q] - out[q] <= Inside(q) - Inside(q)'
             /\ open => out'[q] - out[q] = Inside(q) - Inside(q)'
  <2>1. InQueue(q)' = InQueue(q) /\ InQueue(q) \in Nat /\ InBatch(q) \in Nat /\ Inside(q) \in Nat
    BY <1>2, SameQueue, CountsAreNat DEF EInv
  <2>2. InQueue(q)' \in Int /\ InBatch(q)' \in Int
    BY <1>3, <2>1
  <2>3. Inside(q)' = Inside(q) - (IF p = q THEN 1 ELSE 0)
                         + (InQueue(q)' - InQueue(q)) + (InBatch(q)' - InBatch(q))
    BY <1>1, <1>2, <1>3, <2>2, PopInside, Zenon DEF EInv
  <2>4. Inside(q)' = Inside(q) - (IF p = q THEN 1 ELSE 0) + (InBatch(q)' - InBatch(q))
    BY <2>1, <2>2, <2>3
  <2>5. out[q] \in Nat /\ out'[q] \in Nat
    BY <1>3, Zenon DEF EInv, Types
  <2>6. Inside(q)' \in Nat
    BY <1>12
  <2>7. PICK one \in {0, 1} : one = IF p = q THEN 1 ELSE 0
    OBVIOUS
  <2>8. \/ open /\ InBatch(q)' = InBatch(q) /\ out'[q] = out[q] + one
        \/ ~open /\ InBatch(q)' = InBatch(q) /\ out'[q] \in {out[q], out[q] + one}
        \/ InBatch(q)' = InBatch(q) + one /\ out'[q] = out[q]
    BY <1>3, <2>7, Zenon
  <2>9. Inside(q)' = Inside(q) - one + (InBatch(q)' - InBatch(q))
    BY <2>4, <2>7
  <2>10. CASE InBatch(q)' = InBatch(q) /\ out'[q] = out[q] + one
    <3>1. Inside(q)' = Inside(q) - one
      BY <2>1, <2>2, <2>9, <2>10
    <3>2. Inside(q) - Inside(q)' = one /\ out'[q] - out[q] = one
      BY <2>1, <2>5, <2>10, <3>1
    <3>3. QED
      BY <2>1, <2>5, <2>6, <3>2
  <2>11. CASE ~open /\ InBatch(q)' = InBatch(q) /\ out'[q] \in {out[q], out[q] + one}
    BY <2>1, <2>2, <2>5, <2>6, <2>9, <2>11
  <2>12. CASE InBatch(q)' = InBatch(q) + one /\ out'[q] = out[q]
    <3>1. Inside(q)' = Inside(q)
      BY <2>1, <2>2, <2>9, <2>12
    <3>2. QED
      BY <2>1, <2>5, <2>6, <2>12, <3>1
  <2>13. QED
    BY <2>8, <2>10, <2>11, <2>12, Zenon
<1>10. owed' \in [Packets -> Nat]
  BY <1>9 DEF owed
<1>11. L!Leave
  BY <1>2, <1>3, <1>9, <1>10, Zenon DEF L!Leave, owed, shaped, closed
<1>13. QED
  BY <1>3, <1>5, <1>7, <1>8, <1>11 DEF EInv

----------------------------------------------------------------------------
(* Steps that move no packet: control calls, the clock, and the goroutines' *)
(* control.                                                                 *)

LEMMA PcChanges ==
  ASSUME Types, NEW t \in Threads, NEW c \in Pcs, th' = [th EXCEPT ![t].pc = c]
  PROVE  /\ th' \in [Threads -> ThreadStates]
         /\ th'[t].pc = c
         /\ \A u \in Threads : u # t => th'[u] = th[u]
         /\ \A u \in Threads : /\ th'[u].work = th[u].work /\ th'[u].pkt = th[u].pkt
                               /\ th'[u].rule = th[u].rule /\ th'[u].sh = th[u].sh
<1>1. th \in [Threads -> ThreadStates]
  BY DEF Types
<1>2. QED
  BY <1>1, Zenon DEF ThreadStates

LEMMA InsideQuiet ==
  ASSUME \A u \in Threads : th'[u].work = th[u].work, UNCHANGED <<queue, held, batch>>
  PROVE  owed' = owed
<1>1. \A q \in Packets : Inside(q)' = Inside(q)
  BY SameQueue, SameBuffer, SameBatch, ThreadNames DEF Inside
<1>2. QED
  BY <1>1, OwedSame

LEMMA FreshSame ==
  ASSUME Fresh, pend' = pend, asked' = asked,
         \A h \in Handlers : th'[h].pc = th[h].pc /\ th'[h].pkt = th[h].pkt
  PROVE  Fresh'
BY DEF Fresh

LEMMA PlacedSame ==
  ASSUME Placed, pend' = pend, held' = held \/ held' = [f \in Flows |-> <<>>],
         \A h \in Handlers : th'[h].pc = th[h].pc /\ th'[h].pkt = th[h].pkt
  PROVE  Placed'
BY DEF Placed

(* A goroutine other than a handler moves on, with nothing to release where *)
(* it rests.                                                                *)
LEMMA MovesOn ==
  ASSUME EInv, NEW t \in {"run", "close"}, NEW c \in Pcs, th' = [th EXCEPT ![t].pc = c],
         th[t].work = <<>> \/ c \in {"scan", "drain", "stop", "wait", "flush"},
         c = "drain" => th[t].work = <<>>,
         UNCHANGED <<pend, rules, shaper, calls, nextFree, queue, qseq, held, batch, now,
                     asked, out, fired>>,
         open' \in BOOLEAN
  PROVE  EInv' /\ UNCHANGED <<asked, owed, out, shaped>>
<1>1. t \in Threads /\ t \notin Handlers
  BY DEF Threads, Handlers
<1>2. /\ th' \in [Threads -> ThreadStates]
      /\ th'[t].pc = c
      /\ \A u \in Threads : u # t => th'[u] = th[u]
      /\ \A u \in Threads : th'[u].work = th[u].work /\ th'[u].pkt = th[u].pkt
  BY <1>1, PcChanges, Zenon DEF EInv
<1>3. Types'
  BY <1>2 DEF EInv, Types
<1>4. \A h \in Handlers : th'[h] = th[h]
  BY <1>1, <1>2, ThreadNames
<1>5. Placed' /\ Fresh'
  <2>1. Placed'
    BY <1>4, Zenon DEF EInv, Placed
  <2>2. \A h \in Handlers : th'[h].pc = th[h].pc /\ th'[h].pkt = th[h].pkt
    BY <1>4, Zenon
  <2>3. Fresh'
    BY <2>2 DEF EInv, Fresh
  <2>4. QED
    BY <2>1, <2>3
<1>6. Batched' /\ Numbered'
  BY DEF EInv, Batched, Numbered
<1>7. AtRest'
  <2>1. \A h \in Handlers : th'[h].pc \in {"idle", "write"} => th'[h].work = <<>>
    BY <1>4 DEF EInv, AtRest
  <2>2. /\ th'["run"].work = th["run"].work /\ th'["close"].work = th["close"].work
        /\ th'["run"].pc = IF t = "run" THEN c ELSE th["run"].pc
        /\ th'["close"].pc = IF t = "close" THEN c ELSE th["close"].pc
    BY <1>2, ThreadNames
  <2>3. th'["run"].pc \in {"sleep", "exit"} => th'["run"].work = <<>>
    BY <2>2 DEF EInv, AtRest
  <2>4. th'["close"].pc \in {"idle", "drain", "closed"} => th'["close"].work = <<>>
    BY <2>2 DEF EInv, AtRest
  <2>5. QED
    BY <2>1, <2>2, <2>3, <2>4 DEF EInv, AtRest
<1>8. UNCHANGED <<asked, owed, out, shaped>>
  BY <1>2, InsideQuiet DEF shaped
<1>9. QED
  BY <1>3, <1>5, <1>6, <1>7, <1>8 DEF EInv

(* No thread moves.                                                         *)
LEMMA StaysPut ==
  ASSUME EInv, \A i \in DOMAIN rules' : rules'[i] \in LoadedRules,
         shaper' \in [Handlers -> ShaperRefs], now' \in Nat, calls' \in 0..MaxCalls,
         UNCHANGED <<pend, th, nextFree, queue, qseq, held, batch, open, asked, out, fired>>
  PROVE  EInv' /\ UNCHANGED L!vars
<1>1. Types'
  BY Zenon DEF EInv, Types
<1>2. Placed' /\ Fresh'
  <2>1. Placed'
    BY Zenon DEF EInv, Placed
  <2>2. Fresh'
    BY Zenon DEF EInv, Fresh
  <2>3. QED
    BY ONLY <2>1, <2>2, Zenon
<1>3. Batched' /\ Numbered' /\ AtRest'
  BY Zenon DEF EInv, Batched, Numbered, AtRest
<1>4. UNCHANGED L!vars
  BY InsideQuiet DEF L!vars, shaped, closed
<1>5. QED
  BY <1>1, <1>2, <1>3, <1>4 DEF EInv

(* Rules that load have whole, positive delays and copies.                  *)
LEMMA LoadedRulesLoad ==
  ASSUME NEW cs \in CallSets, Loads(cs)
  PROVE  \A i \in DOMAIN NewRuleSet(cs) : NewRuleSet(cs)[i] \in LoadedRules
<1> TAKE i \in DOMAIN NewRuleSet(cs)
<1>1. i \in DOMAIN cs /\ NewRuleSet(cs)[i] = Compile(cs[i])
  BY DEF NewRuleSet
<1>2. PICK r : r = Compile(cs[i])
  OBVIOUS
<1>3. Validate(r) /\ r.by \in Int
  <2>1. packetBuiltin(cs[i])
    BY <1>1 DEF Loads
  <2>2. Compile(cs[i]).by \in Int
    BY <1>1, EndpointAssumption DEF CallSets
  <2>3. QED
    BY <1>2, <2>1, <2>2, Zenon DEF packetBuiltin
<1>4. GoodRule(r)
  <2>1. CopiesAsked(r) \in Nat
    <3>1. r.action = "duplicate" => r.by \in Nat
      BY <1>3 DEF Validate
    <3>2. CASE r.action \in {"drop", "reset"}
      BY <3>2 DEF CopiesAsked
    <3>3. CASE r.action = "duplicate"
      BY <3>1, <3>3 DEF CopiesAsked
    <3>4. CASE r.action \notin {"drop", "reset", "duplicate"}
      BY <3>4 DEF CopiesAsked
    <3>5. QED
      BY <3>2, <3>3, <3>4
  <2>2. r.action \in {"delay", "reorder"} => r.by > 0
    BY <1>3, Zenon DEF Validate
  <2>3. QED
    BY <1>3, <2>1, <2>2 DEF GoodRule
<1>5. r \in CompiledRules
  BY <1>1, <1>2 DEF CompiledRules
<1>6. QED
  BY <1>1, <1>2, <1>4, <1>5, Zenon DEF LoadedRules

LEMMA ControlKeeps ==
  ASSUME EInv, \/ \E rs \in RuleSets : SetRules(rs)
               \/ \E d \in Handlers, limited \in BOOLEAN : SetBandwidth(d, limited)
               \/ ClearShapers \/ Tick \/ TimerFires
  PROVE  EInv' /\ UNCHANGED L!vars
<1>1. /\ \A i \in DOMAIN rules : rules[i] \in LoadedRules
      /\ shaper \in [Handlers -> ShaperRefs] /\ now \in Nat /\ calls \in 0..MaxCalls
      /\ MaxCalls \in Nat
  BY EndpointAssumption, Zenon DEF EInv, Types
<1>2. CASE \E rs \in RuleSets : SetRules(rs)
  <2>1. PICK rs \in RuleSets : SetRules(rs)
    BY <1>2
  <2>2. \A i \in DOMAIN rules' : rules'[i] \in LoadedRules
    BY <2>1, LoadedRulesLoad, Zenon DEF SetRules, CallSets
  <2>3. calls' \in 0..MaxCalls
    BY <1>1, <2>1 DEF SetRules
  <2>4. UNCHANGED <<shaper, now, pend, th, nextFree, queue, qseq, held, batch, open, asked, out, fired>>
    BY <2>1 DEF SetRules, threads, deferral, outcome
  <2>5. QED
    BY <1>1, <2>2, <2>3, <2>4, StaysPut, Zenon
<1>3. CASE \E d \in Handlers, limited \in BOOLEAN : SetBandwidth(d, limited)
  <2>1. PICK d \in Handlers, limited \in BOOLEAN : SetBandwidth(d, limited)
    BY <1>3
  <2>2. 2 + calls \in ShaperRefs /\ 0 \in ShaperRefs
    BY <1>1 DEF ShaperRefs
  <2>3. shaper' \in [Handlers -> ShaperRefs]
    BY <1>1, <2>1, <2>2 DEF SetBandwidth
  <2>4. calls' \in 0..MaxCalls
    BY <1>1, <2>1 DEF SetBandwidth
  <2>5. UNCHANGED <<rules, now, pend, th, nextFree, queue, qseq, held, batch, open, asked, out, fired>>
    BY <2>1 DEF SetBandwidth, threads, deferral, outcome
  <2>6. QED
    BY <1>1, <2>3, <2>4, <2>5, StaysPut
<1>4. CASE ClearShapers
  <2>1. 0 \in ShaperRefs
    BY <1>1 DEF ShaperRefs
  <2>2. shaper' \in [Handlers -> ShaperRefs] /\ calls' \in 0..MaxCalls
    BY <1>1, <1>4, <2>1 DEF ClearShapers
  <2>3. UNCHANGED <<rules, now, pend, th, nextFree, queue, qseq, held, batch, open, asked, out, fired>>
    BY <1>4 DEF ClearShapers, threads, deferral, outcome
  <2>4. QED
    BY <1>1, <2>2, <2>3, StaysPut
<1>5. CASE Tick
  <2>1. now' \in Nat
    BY <1>1, <1>5 DEF Tick
  <2>2. UNCHANGED <<rules, shaper, calls, pend, th, nextFree, queue, qseq, held, batch, open, asked, out, fired>>
    BY <1>5 DEF Tick, threads, control, deferral, outcome
  <2>3. QED
    BY <1>1, <2>1, <2>2, StaysPut
<1>6. CASE TimerFires
  <2>1. UNCHANGED <<rules, shaper, calls, now, pend, th, nextFree, queue, qseq, held, batch, open, asked, out, fired>>
    BY <1>6 DEF TimerFires, threads, control, deferral, outcome
  <2>2. QED
    BY <1>1, <2>1, StaysPut
<1>7. QED
  BY <1>2, <1>3, <1>4, <1>5, <1>6

LEMMA GoroutinesKeep ==
  ASSUME EInv, Sleep \/ AwaitRun \/ CloseBegins
  PROVE  EInv' /\ UNCHANGED L!vars
<1>1. open \in BOOLEAN /\ (th["run"].pc = "sleep" => th["run"].work = <<>>)
      /\ (th["close"].pc = "idle" => th["close"].work = <<>>)
  BY Zenon DEF EInv, Types, AtRest
<1>2. "scan" \in Pcs /\ "exit" \in Pcs /\ "flush" \in Pcs /\ "drain" \in Pcs
  BY DEF Pcs
<1>3. CASE Sleep
  <2>1. PICK c \in {"scan", "exit"} : th' = [th EXCEPT !["run"].pc = c] /\ th["run"].work = <<>>
    BY <1>1, <1>3 DEF Sleep
  <2>2. UNCHANGED <<pend, rules, shaper, calls, nextFree, queue, qseq, held, batch, now,
                    asked, out, fired, open>>
    BY <1>3 DEF Sleep, control, outcome
  <2>3. EInv' /\ UNCHANGED <<asked, owed, out, shaped>>
    BY <1>1, <1>2, <2>1, <2>2, MovesOn, Zenon
  <2>4. QED
    BY <2>2, <2>3 DEF L!vars, closed
<1>4. CASE AwaitRun
  <2>1. th' = [th EXCEPT !["close"].pc = "flush"]
    BY <1>4 DEF AwaitRun
  <2>2. UNCHANGED <<pend, rules, shaper, calls, nextFree, queue, qseq, held, batch, now,
                    asked, out, fired, open>>
    BY <1>4 DEF AwaitRun, control, deferral, outcome
  <2>3. EInv' /\ UNCHANGED <<asked, owed, out, shaped>>
    BY <1>1, <1>2, <2>1, <2>2, MovesOn, Zenon
  <2>4. QED
    BY <2>2, <2>3 DEF L!vars, closed
<1>5. CASE CloseBegins
  <2>1. th' = [th EXCEPT !["close"].pc = "drain"] /\ th["close"].work = <<>>
    BY <1>1, <1>5 DEF CloseBegins
  <2>2. UNCHANGED <<pend, rules, shaper, calls, nextFree, queue, qseq, held, batch, now,
                    asked, out, fired, open>>
    BY <1>5 DEF CloseBegins, deferral, outcome
  <2>3. EInv' /\ UNCHANGED <<asked, owed, out, shaped>>
    BY <1>1, <1>2, <2>1, <2>2, MovesOn, Zenon
  <2>4. QED
    BY <2>2, <2>3 DEF L!vars, closed
<1>6. QED
  BY <1>3, <1>4, <1>5

LEMMA CloseWireKeeps ==
  ASSUME EInv, CloseWire PROVE EInv' /\ L!CloseWire
<1>1. th' = [th EXCEPT !["close"].pc = "closed"] /\ th["close"].work = <<>> /\ "closed" \in Pcs
  BY DEF CloseWire, Pcs
<1>2. UNCHANGED <<pend, rules, shaper, calls, nextFree, queue, qseq, held, batch, now,
                  asked, out, fired>>
  BY DEF CloseWire, control, deferral, outcome
<1>3. open' = FALSE
  BY DEF CloseWire
<1>4. EInv' /\ UNCHANGED <<asked, owed, out, shaped>>
  BY <1>1, <1>2, <1>3, MovesOn, Zenon
<1>5. QED
  BY <1>3, <1>4 DEF L!CloseWire, closed

(* The goroutine of the queue takes the soonest entry, and the entry is     *)
(* then among its releases.                                                 *)
LEMMA FiredItem ==
  ASSUME NEW d \in Entries, d.item.wait <= 0
  PROVE  Fired(d) \in Items /\ Fired(d).p = d.item.p /\ Fired(d).key = <<d.at, d.seq>>
<1>1. d.item \in Items /\ d.at \in Nat /\ d.seq \in Nat
  BY DEF Entries
<1>2. QED
  BY <1>1, ItemKeyed DEF Fired

LEMMA TakeInQueue ==
  ASSUME Types, NEW d \in queue, queue' = queue \ {d}, NEW q \in Packets
  PROVE  InQueue(q)' = InQueue(q) - (IF d.item.p = q THEN 1 ELSE 0)
<1> DEFINE A == {c \in queue : c.item.p = q}
           B == {c \in queue' : c.item.p = q}
<1>1. InQueue(q) = Cardinality(A) /\ InQueue(q)' = Cardinality(B) /\ InQueue(q) \in Nat
  BY CountsAreNat, Zenon DEF InQueue
<1>2. IsFiniteSet(A)
  <2>1. A \in SUBSET queue /\ IsFiniteSet(queue)
    BY DEF Types
  <2> HIDE DEF A
  <2>2. QED
    BY <2>1, FS_Subset
<1>3. CASE d.item.p = q
  <2>1. B = A \ {d} /\ d \in A
    BY <1>3
  <2> HIDE DEF A, B
  <2>2. Cardinality(A \ {d}) = Cardinality(A) - 1
    BY <1>2, <2>1, FS_RemoveElement, Zenon
  <2>3. QED
    BY <1>1, <1>3, <2>1, <2>2
<1>4. CASE d.item.p # q
  <2>1. B = A
    BY <1>4
  <2> HIDE DEF A, B
  <2>2. QED
    BY <1>1, <1>4, <2>1
<1>5. QED
  BY <1>3, <1>4

LEMMA ScanKeeps ==
  ASSUME EInv, Scan PROVE EInv' /\ UNCHANGED L!vars
<1>1. UNCHANGED <<pend, rules, shaper, calls, nextFree, held, batch, now, asked, out, fired, open>>
  BY DEF Scan, control, outcome
<1>2. th["run"].work = <<>> /\ open \in BOOLEAN
  BY DEF Scan, EInv, Types
<1>3. CASE \E c \in {"exit", "sleep"} : th' = [th EXCEPT !["run"].pc = c] /\ queue' = queue /\ qseq' = qseq
  <2>1. PICK c \in {"exit", "sleep"} : th' = [th EXCEPT !["run"].pc = c] /\ queue' = queue /\ qseq' = qseq
    BY <1>3, Zenon
  <2>2. c \in Pcs /\ c # "drain"
    BY DEF Pcs
  <2>3. EInv' /\ UNCHANGED <<asked, owed, out, shaped>>
    BY <1>1, <1>2, <2>1, <2>2, MovesOn, Zenon
  <2>4. QED
    BY <1>1, <2>3 DEF L!vars, closed
<1>4. CASE \E d \in queue : /\ th' = [th EXCEPT !["run"].work = <<Fired(d)>>] /\ queue' = queue \ {d}
                            /\ qseq' = qseq /\ th["run"].pc = "scan"
  <2>1. PICK d \in queue : /\ th' = [th EXCEPT !["run"].work = <<Fired(d)>>] /\ queue' = queue \ {d}
                           /\ qseq' = qseq /\ th["run"].pc = "scan"
    BY <1>4, Zenon
  <2>2. Fired(d) \in Items /\ Fired(d).p = d.item.p
    BY FiredItem, Zenon DEF EInv, Types, Numbered
  <2>3. <<Fired(d)>> \in Seq(Items) /\ Len(<<Fired(d)>>) = 1
    BY <2>2
  <2>4. /\ th' \in [Threads -> ThreadStates]
        /\ th'["run"].work = <<Fired(d)>>
        /\ \A u \in Threads : u # "run" => th'[u] = th[u]
        /\ th'["run"].pc = "scan"
    BY <2>1, <2>3, WorkChanges, ThreadNames, Zenon DEF EInv
  <2>5. queue' \in SUBSET Entries /\ IsFiniteSet(queue')
    BY <2>1, FS_RemoveElement DEF EInv, Types
  <2>6. Types'
    BY <1>1, <2>1, <2>4, <2>5 DEF EInv, Types
  <2>7. \A h \in Handlers : th'[h] = th[h]
    BY <2>4, ThreadNames DEF Handlers
  <2>8. \A h \in Handlers : th'[h].pc = th[h].pc /\ th'[h].pkt = th[h].pkt /\ th'[h].work = th[h].work
    BY <2>7
  <2>9. Placed'
    BY <1>1, <2>8, Zenon DEF EInv, Placed
  <2>10. Fresh'
    BY <1>1, <2>8 DEF EInv, Fresh
  <2>11. Batched' /\ Numbered'
    BY <1>1, <2>1 DEF EInv, Batched, Numbered
  <2>12. AtRest'
    <3>1. AtRest /\ th'["close"] = th["close"]
      BY <2>4, ThreadNames DEF EInv
    <3>2. th'["run"].pc \notin {"sleep", "exit"} /\ Len(th'["run"].work) <= 1
      BY ONLY <2>3, <2>4
    <3>3. QED
      BY ONLY <2>8, <3>1, <3>2, Zenon DEF AtRest
  <2>13. ASSUME NEW q \in Packets PROVE Inside(q)' = Inside(q)
    <3>k. PICK k \in Nat : k = IF d.item.p = q THEN 1 ELSE 0
      OBVIOUS
    <3>1. InQueue(q)' = InQueue(q) - k
      BY <2>1, <3>k, TakeInQueue DEF EInv
    <3>2. InWork(th'["run"].work, q) = k
      <4>1. InWork(<<Fired(d)>>, q) = IF Fired(d).p = q THEN 1 ELSE 0
        BY ONLY InWorkSingle
      <4>2. QED
        BY ONLY <2>2, <2>4, <3>k, <4>1, Zenon
    <3>3. InWork(th["run"].work, q) = 0
      BY <1>2, InWorkEmpty, Zenon
    <3>4. InBuffer(q)' = InBuffer(q) /\ InBatch(q)' = InBatch(q)
      BY <1>1, SameBuffer, SameBatch
    <3>5. InQueue(q) \in Nat /\ InBuffer(q) \in Nat /\ InBatch(q) \in Nat /\ Inside(q) \in Nat
      BY CountsAreNat DEF EInv
    <3>6. InWork(th'["run"].work, q) \in Int /\ InQueue(q)' \in Int /\ InBuffer(q)' \in Int /\ InBatch(q)' \in Int
      BY <3>1, <3>2, <3>4, <3>5
    <3>7. Inside(q)' = Inside(q) + (InWork(th'["run"].work, q) - InWork(th["run"].work, q))
              + (InQueue(q)' - InQueue(q)) + (InBuffer(q)' - InBuffer(q))
              + (InBatch(q)' - InBatch(q))
      BY <2>4, <3>6, InsideChanges, ThreadNames, Zenon DEF EInv
    <3>8. PICK a, c, b, l \in Nat :
            a = Inside(q) /\ c = InQueue(q) /\ b = InBuffer(q) /\ l = InBatch(q)
      BY ONLY <3>5, Zenon
    <3>9. Inside(q)' = a + (k - 0) + ((c - k) - c) + (b - b) + (l - l)
      BY ONLY <3>1, <3>2, <3>3, <3>4, <3>7, <3>8, Zenon
    <3>10. a + (k - 0) + ((c - k) - c) + (b - b) + (l - l) = a
      BY ONLY TRUE
    <3>11. QED
      BY ONLY <3>8, <3>9, <3>10, Zenon
  <2>14. UNCHANGED L!vars
    BY <1>1, <2>13, OwedSame DEF L!vars, shaped, closed
  <2>15. QED
    BY <2>6, <2>9, <2>10, <2>11, <2>12, <2>14, Zenon DEF EInv
<1>5. QED
  BY <1>3, <1>4 DEF Scan, Soonest, deferral

LEMMA PcWorkChanges ==
  ASSUME Types, NEW t \in Threads, NEW c \in Pcs, NEW w \in Seq(Items),
         th' = [th EXCEPT ![t].pc = c, ![t].work = w]
  PROVE  /\ th' \in [Threads -> ThreadStates]
         /\ th'[t].pc = c /\ th'[t].work = w
         /\ \A u \in Threads : u # t => th'[u] = th[u]
<1>1. th \in [Threads -> ThreadStates]
  BY DEF Types
<1>2. PICK m : m = [th EXCEPT ![t].pc = c]
  OBVIOUS
<1>3. /\ m \in [Threads -> ThreadStates] /\ m[t].pc = c
      /\ \A u \in Threads : u # t => m[u] = th[u]
  BY <1>1, <1>2, Zenon DEF ThreadStates
<1>4. th' = [m EXCEPT ![t].work = w]
  BY <1>2
<1>5. QED
  BY ONLY <1>3, <1>4, Zenon DEF ThreadStates

LEMMA HoldingIsFinite ==
  ASSUME Types PROVE IsFiniteSet(Holding)
<1> DEFINE g == [p \in Packets |-> flowID(p)]
<1>1. g \in Surjection(Packets, Flows)
  BY DEF Surjection, Flows
<1>2. IsFiniteSet(Packets)
  BY EndpointAssumption
<1>3. IsFiniteSet(Flows)
  BY <1>1, <1>2, FS_Surjection
<1>4. Holding \in SUBSET Flows
  BY DEF Holding
<1>5. QED
  BY <1>3, <1>4, FS_Subset

(* Close takes over what the buffer holds, then what the queue holds.       *)
LEMMA CloseTakes ==
  ASSUME EInv, NEW w \in Seq(Items), NEW c \in {"stop", "wait"},
         th["close"].work = <<>>, th' = [th EXCEPT !["close"].pc = c, !["close"].work = w],
         UNCHANGED <<pend, rules, shaper, calls, nextFree, qseq, batch, now, asked, out, fired, open>>,
         queue' = queue \/ queue' = {},
         held' = held \/ held' = [f \in Flows |-> <<>>],
         \A q \in Packets : InQueue(q)' \in Int /\ InBuffer(q)' \in Int
             /\ InWork(w, q) = (InQueue(q) - InQueue(q)') + (InBuffer(q) - InBuffer(q)')
  PROVE  EInv' /\ UNCHANGED L!vars
<1>1. /\ th' \in [Threads -> ThreadStates]
      /\ th'["close"].pc = c /\ th'["close"].work = w
      /\ \A u \in Threads : u # "close" => th'[u] = th[u]
  <2>1. c \in Pcs
    BY DEF Pcs
  <2>2. QED
    BY <2>1, PcWorkChanges, ThreadNames, Zenon DEF EInv
<1>2. \A h \in Handlers : th'[h].pc = th[h].pc /\ th'[h].pkt = th[h].pkt /\ th'[h].work = th[h].work
  BY <1>1 DEF Handlers, Threads
<1>3. queue' \in SUBSET Entries /\ IsFiniteSet(queue')
  BY FS_EmptySet, Zenon DEF EInv, Types
<1>4. held' \in [Flows -> HeldLists]
  <2>1. held \in [Flows -> HeldLists]
    BY DEF EInv, Types
  <2>2. [f \in Flows |-> <<>>] \in [Flows -> HeldLists]
    BY DEF HeldLists
  <2>3. QED
    BY <2>1, <2>2
<1>5. Types'
  BY <1>1, <1>3, <1>4 DEF EInv, Types
<1>6. Placed'
  BY <1>2, PlacedSame, Zenon DEF EInv
<1>7. Fresh'
  BY <1>2, FreshSame, Zenon DEF EInv
<1>8. Batched' /\ Numbered'
  BY DEF EInv, Batched, Numbered
<1>9. AtRest'
  BY <1>1, <1>2, ThreadNames DEF EInv, AtRest
<1>10. ASSUME NEW q \in Packets PROVE Inside(q)' = Inside(q)
  <2>1. InWork(th["close"].work, q) = 0 /\ InWork(th'["close"].work, q) \in Nat
    BY <1>1, InWorkEmpty, InWorkFinite, Zenon
  <2>2. InBatch(q)' = InBatch(q) /\ InBatch(q) \in Nat /\ Inside(q) \in Nat
        /\ InQueue(q) \in Nat /\ InBuffer(q) \in Nat
    BY SameBatch, CountsAreNat DEF EInv
  <2>3. InWork(th'["close"].work, q) \in Int /\ InQueue(q)' \in Int /\ InBuffer(q)' \in Int /\ InBatch(q)' \in Int
    BY <2>1, <2>2
  <2>4. Inside(q)' = Inside(q) + (InWork(th'["close"].work, q) - InWork(th["close"].work, q))
              + (InQueue(q)' - InQueue(q)) + (InBuffer(q)' - InBuffer(q))
              + (InBatch(q)' - InBatch(q))
    BY <1>1, <2>3, InsideChanges, ThreadNames, Zenon DEF EInv
  <2>5. InWork(th'["close"].work, q) = (InQueue(q) - InQueue(q)') + (InBuffer(q) - InBuffer(q)')
    BY <1>1
  <2>6. Inside(q)' = Inside(q) + InWork(th'["close"].work, q)
              + (InQueue(q)' - InQueue(q)) + (InBuffer(q)' - InBuffer(q))
    BY <2>1, <2>2, <2>3, <2>4
  <2>7. Inside(q) + ((InQueue(q) - InQueue(q)') + (InBuffer(q) - InBuffer(q)'))
           + (InQueue(q)' - InQueue(q)) + (InBuffer(q)' - InBuffer(q)) = Inside(q)
    BY ONLY <2>2, <2>3
  <2>8. QED
    BY ONLY <2>5, <2>6, <2>7, Zenon
<1>11. UNCHANGED L!vars
  BY <1>10, OwedSame DEF L!vars, shaped, closed
<1>12. QED
  BY <1>5, <1>6, <1>7, <1>8, <1>9, <1>11 DEF EInv

LEMMA drainKeeps ==
  ASSUME EInv, drain PROVE EInv' /\ UNCHANGED L!vars
<1>1. th["close"].work = <<>>
  BY DEF drain, EInv, AtRest
<1>2. PICK fs \in Orders(Holding) :
         th' = [th EXCEPT !["close"].pc = "stop",
                          !["close"].work = [i \in DOMAIN fs |-> held[fs[i]][1].item]]
  BY Zenon DEF drain
<1>3. held' = [f \in Flows |-> <<>>]
  BY DEF drain
<1>4. UNCHANGED <<pend, rules, shaper, calls, nextFree, queue, qseq, batch, now, asked, out, fired, open>>
  BY DEF drain, control, deferral, outcome
<1>5. PICK n \in Nat : n = Cardinality(Holding)
  BY HoldingIsFinite, FS_CardinalityType DEF EInv
<1>6. DOMAIN fs = 1..n /\ \A i \in 1..n : fs[i] \in Holding
  BY <1>5 DEF Orders, Injection, IsInjective
<1>7. PICK w : w = [i \in DOMAIN fs |-> held[fs[i]][1].item]
  BY Zenon
<1>8. \A f \in Holding : /\ f \in Flows /\ held[f] # <<>>
                         /\ held[f][1].item \in Items /\ held[f][1].item.p \in Packets
                         /\ flowID(held[f][1].item.p) = f
  <2> TAKE f \in Holding
  <2>1. f \in Flows /\ held[f] # <<>>
    BY DEF Holding
  <2>2. held[f] \in HeldLists
    BY <2>1 DEF EInv, Types
  <2>4. held[f][1] \in [remaining : Int, item : Items]
    BY <2>1, <2>2, FirstIsIn, Zenon DEF HeldLists
  <2>6. held[f][1].item \in Items
    BY <2>4
  <2>5. QED
    BY <2>1, <2>6, Zenon DEF Items, EInv, Placed
<1>9. DOMAIN w = 1..n /\ \A i \in 1..n : w[i] = held[fs[i]][1].item
  BY <1>6, <1>7
<1>10. w \in Seq(Items)
  BY <1>5, <1>6, <1>7, <1>8
<1>11. ASSUME NEW q \in Packets
       PROVE  /\ InQueue(q)' = InQueue(q) /\ InBuffer(q)' = 0 /\ InWork(w, q) = InBuffer(q)
              /\ InQueue(q) \in Nat /\ InBuffer(q) \in Nat
  <2> DEFINE g == [f \in Holding |-> held[f][1].item.p]
  <2>1. InWork(w, q) = Cardinality({f \in Holding : g[f] = q})
    <3>1. Carries(w, fs, g)
      BY <1>6, <1>9 DEF Carries
    <3>2. IsFiniteSet(Holding)
      BY HoldingIsFinite DEF EInv
    <3>3. fs \in Orders(Holding)
      BY <1>2, Zenon
    <3> HIDE DEF g
    <3>4. InWork(w, q) = Cardinality(Sent(Holding, g, q))
      BY ONLY <3>1, <3>2, <3>3, InWorkOfSet
    <3>5. QED
      BY ONLY <3>4, Zenon DEF Sent
  <2>2. flowID(q) \in Flows
    BY DEF Flows
  <2>3. CASE held[flowID(q)] # <<>> /\ held[flowID(q)][1].item.p = q
    <3>1. {f \in Holding : g[f] = q} = {flowID(q)}
      BY <1>8, <2>2, <2>3, Zenon DEF Holding
    <3>2. Cardinality({flowID(q)}) = 1
      BY FS_Singleton
    <3>3. InBuffer(q) = 1
      BY <2>3 DEF InBuffer
    <3>4. QED
      BY <1>3, <1>4, <2>1, <2>2, <3>1, <3>2, <3>3, SameQueue, CountsAreNat, Zenon DEF InBuffer, EInv
  <2>4. CASE ~(held[flowID(q)] # <<>> /\ held[flowID(q)][1].item.p = q)
    <3>1. {f \in Holding : g[f] = q} = {}
      BY <1>8, <2>2, <2>4, Zenon DEF Holding
    <3>2. InBuffer(q) = 0
      BY <2>4 DEF InBuffer
    <3>3. QED
      BY <1>3, <1>4, <2>1, <2>2, <3>1, <3>2, FS_EmptySet, SameQueue, CountsAreNat, Zenon DEF InBuffer, EInv
  <2>5. QED
    BY <2>3, <2>4, Zenon
<1>12. \A q \in Packets : InQueue(q)' \in Int /\ InBuffer(q)' \in Int
             /\ InWork(w, q) = (InQueue(q) - InQueue(q)') + (InBuffer(q) - InBuffer(q)')
  BY <1>11
<1>13. QED
  BY <1>1, <1>2, <1>3, <1>4, <1>7, <1>10, <1>12, CloseTakes, Zenon

LEMMA StopQueueKeeps ==
  ASSUME EInv, StopQueue PROVE EInv' /\ UNCHANGED L!vars
<1>1. th["close"].work = <<>> /\ queue' = {}
  BY DEF StopQueue
<1>2. PICK es \in Orders(queue) :
         th' = [th EXCEPT !["close"].pc = "wait",
                          !["close"].work = [i \in DOMAIN es |-> Fired(es[i])]]
  BY Zenon DEF StopQueue
<1>3. UNCHANGED <<pend, rules, shaper, calls, nextFree, qseq, held, batch, now, asked, out, fired, open>>
  BY DEF StopQueue, control, outcome
<1>4. IsFiniteSet(queue)
  BY DEF EInv, Types
<1>5. PICK n \in Nat : n = Cardinality(queue)
  BY <1>4, FS_CardinalityType
<1>6. DOMAIN es = 1..n /\ \A i \in 1..n : es[i] \in queue
  BY <1>5 DEF Orders, Injection, IsInjective
<1>7. PICK w : w = [i \in DOMAIN es |-> Fired(es[i])]
  BY Zenon
<1>8. \A d \in queue : Fired(d) \in Items /\ Fired(d).p = d.item.p
  BY FiredItem, Zenon DEF EInv, Types, Numbered
<1>9. w \in Seq(Items)
  BY <1>5, <1>6, <1>7, <1>8
<1>10. ASSUME NEW q \in Packets
       PROVE  /\ InQueue(q)' = 0 /\ InBuffer(q)' = InBuffer(q) /\ InWork(w, q) = InQueue(q)
              /\ InQueue(q) \in Nat /\ InBuffer(q) \in Nat
  <2> DEFINE g == [d \in queue |-> d.item.p]
  <2>1. InWork(w, q) = Cardinality({d \in queue : g[d] = q})
    <3>1. Carries(w, es, g)
      BY <1>6, <1>7, <1>8 DEF Carries
    <3>2. es \in Orders(queue)
      BY <1>2, Zenon
    <3> HIDE DEF g
    <3>3. InWork(w, q) = Cardinality(Sent(queue, g, q))
      BY ONLY <1>4, <3>1, <3>2, InWorkOfSet
    <3>4. QED
      BY ONLY <3>3, Zenon DEF Sent
  <2>2. {d \in queue : g[d] = q} = {d \in queue : d.item.p = q}
    OBVIOUS
  <2>3. {d \in queue' : d.item.p = q} = {}
    BY <1>1
  <2>4. InQueue(q)' = 0
    BY <2>3, FS_EmptySet, Zenon DEF InQueue
  <2>5. QED
    BY <1>3, <2>1, <2>2, <2>4, SameBuffer, CountsAreNat, Zenon DEF InQueue, EInv
<1>11. \A q \in Packets : InQueue(q)' \in Int /\ InBuffer(q)' \in Int
             /\ InWork(w, q) = (InQueue(q) - InQueue(q)') + (InBuffer(q) - InBuffer(q)')
  BY <1>10
<1>12. QED
  BY <1>1, <1>2, <1>3, <1>7, <1>9, <1>11, CloseTakes, Zenon

----------------------------------------------------------------------------
(* The write batch.                                                         *)

LEMMA SealKeeps ==
  ASSUME EInv, Seal PROVE EInv' /\ UNCHANGED L!vars
<1>1. /\ th["s2c"].pc = "send" /\ th["s2c"].work = <<>>
      /\ th' = [th EXCEPT !["s2c"].pc = "write"]
      /\ batch' = [batch EXCEPT ![BatchOf(th["s2c"].pkt)].sealed = TRUE]
  BY DEF Seal
<1>2. UNCHANGED <<pend, rules, shaper, calls, nextFree, queue, qseq, held, now, asked, out, fired, open>>
  BY DEF Seal, control, deferral, outcome
<1>3. /\ th' \in [Threads -> ThreadStates]
      /\ th'["s2c"].pc = "write"
      /\ \A u \in Threads : u # "s2c" => th'[u] = th[u]
      /\ \A u \in Threads : th'[u].work = th[u].work /\ th'[u].pkt = th[u].pkt
  <2>1. "write" \in Pcs
    BY DEF Pcs
  <2>2. QED
    BY <1>1, <2>1, PcChanges, ThreadNames, Zenon DEF EInv
<1>4. th["s2c"].pkt \in Packets /\ DirOf(th["s2c"].pkt) = "s2c"
  BY <1>1, ThreadNames DEF EInv, Placed
<1>5. PICK b \in Batches : b = BatchOf(th["s2c"].pkt)
  BY <1>4 DEF Batches
<1>6. /\ batch' \in [Batches -> [list : Seq(Packets), sealed : BOOLEAN]]
      /\ \A c \in Batches : batch'[c].list = batch[c].list
  <2>1. batch \in [Batches -> [list : Seq(Packets), sealed : BOOLEAN]]
    BY DEF EInv, Types
  <2>2. PICK l, z : l \in Seq(Packets) /\ z \in BOOLEAN /\ batch[b] = [list |-> l, sealed |-> z]
    BY <2>1
  <2>3. \A y : [[list |-> l, sealed |-> z] EXCEPT !.sealed = y] = [list |-> l, sealed |-> y]
    OBVIOUS
  <2>4. batch' = [batch EXCEPT ![b] = [list |-> l, sealed |-> TRUE]]
    BY <1>1, <1>5, <2>2, <2>3, Zenon
  <2>5. [list |-> l, sealed |-> TRUE] \in [list : Seq(Packets), sealed : BOOLEAN]
    BY <2>2, Zenon
  <2>6. batch' \in [Batches -> [list : Seq(Packets), sealed : BOOLEAN]]
    BY <2>1, <2>4, <2>5
  <2>7. \A y : [list |-> l, sealed |-> y].list = l
    OBVIOUS
  <2>8. PICK r : r = [list |-> l, sealed |-> TRUE]
    BY Zenon
  <2>9. r.list = l /\ batch' = [batch EXCEPT ![b] = r] /\ batch[b].list = l
    BY <2>2, <2>4, <2>7, <2>8, Zenon
  <2>10. QED
    BY <2>1, <2>6, <2>9
<1>7. Types'
  BY <1>2, <1>3, <1>6, Zenon DEF EInv, Types
<1>8. Placed'
  BY <1>1, <1>2, <1>3, <1>4, ThreadNames DEF EInv, Placed
<1>9. Fresh'
  BY <1>1, <1>2, <1>3, ThreadNames DEF EInv, Fresh
<1>10. Batched' /\ Numbered'
  BY <1>2, <1>6, Zenon DEF EInv, Batched, Numbered
<1>11. AtRest'
  BY <1>1, <1>3, ThreadNames DEF EInv, AtRest
<1>12. \A q \in Packets : Inside(q)' = Inside(q)
  <2> TAKE q \in Packets
  <2>1. BatchOf(q) \in Batches
    BY DEF Batches
  <2>2. InBatch(q)' = InBatch(q)
    BY <1>6, <2>1 DEF InBatch
  <2>3. QED
    BY <1>2, <1>3, <2>2, SameQueue, SameBuffer, ThreadNames, Zenon DEF Inside
<1>13. UNCHANGED L!vars
  BY <1>2, <1>12, OwedSame DEF L!vars, shaped, closed
<1>14. QED
  BY <1>7, <1>8, <1>9, <1>10, <1>11, <1>13 DEF EInv

LEMMA IdleState ==
  /\ Idle \in ThreadStates /\ Idle.pc = "idle" /\ Idle.work = <<>> /\ NoRule \in LoadedRules
  /\ 0 \in ShaperRefs
<1>1. 0 \in ShaperRefs
  BY EndpointAssumption DEF ShaperRefs
<1>2. NoRule \in LoadedRules
  <2>1. NoRule.action = "none"
    BY DEF NoRule
  <2>2. CopiesAsked(NoRule) = 1
    BY <2>1 DEF CopiesAsked
  <2>3. GoodRule(NoRule)
    BY <2>1, <2>2 DEF GoodRule
  <2>4. QED
    BY <2>3 DEF LoadedRules
<1>3. QED
  BY <1>1, <1>2 DEF Idle, ThreadStates, Pcs

(* What is written was in the batch, and in no other place.                 *)
LEMMA BatchEmpties ==
  ASSUME EInv, NEW b \in Batches, batch' = [batch EXCEPT ![b].list = <<>>]
  PROVE  /\ batch' \in [Batches -> [list : Seq(Packets), sealed : BOOLEAN]]
         /\ Batched'
         /\ \A q \in Packets : /\ InList(batch[b].list, q) \in Nat
                               /\ InBatch(q)' = InBatch(q) - InList(batch[b].list, q)
<1>1. batch \in [Batches -> [list : Seq(Packets), sealed : BOOLEAN]]
  BY DEF EInv, Types
<1>2. PICK l, z : l \in Seq(Packets) /\ z \in BOOLEAN /\ batch[b] = [list |-> l, sealed |-> z]
  BY <1>1
<1>3. PICK r : r = [list |-> <<>>, sealed |-> z]
  BY Zenon
<1>4. /\ [[list |-> l, sealed |-> z] EXCEPT !.list = <<>>] = [list |-> <<>>, sealed |-> z]
      /\ [list |-> <<>>, sealed |-> z].list = <<>>
      /\ [list |-> l, sealed |-> z].list = l
  OBVIOUS
<1>5. batch' = [batch EXCEPT ![b] = r] /\ r.list = <<>> /\ batch[b].list = l
  BY <1>2, <1>3, <1>4, Zenon
<1>6. r \in [list : Seq(Packets), sealed : BOOLEAN]
  <2>1. <<>> \in Seq(Packets)
    OBVIOUS
  <2>2. QED
    BY <1>2, <1>3, <2>1, Zenon
<1>7. /\ batch' \in [Batches -> [list : Seq(Packets), sealed : BOOLEAN]]
      /\ batch'[b].list = <<>> /\ \A c \in Batches : c # b => batch'[c] = batch[c]
  BY <1>1, <1>5, <1>6, Zenon
<1>8. Batched'
  BY <1>7 DEF EInv, Batched
<1>9. ASSUME NEW q \in Packets
      PROVE  /\ InList(batch[b].list, q) \in Nat
             /\ InBatch(q)' = InBatch(q) - InList(batch[b].list, q)
  <2>1. InList(l, q) \in Nat /\ InBatch(q) \in Nat
    BY <1>2, InListAppend, CountsAreNat DEF EInv
  <2>2. CASE BatchOf(q) = b /\ DirOf(q) # "c2s"
    <3>1. InBatch(q) = InList(l, q) /\ InBatch(q)' = InList(<<>>, q)
      BY <1>5, <1>7, <2>2 DEF InBatch
    <3>2. QED
      BY <1>5, <2>1, <3>1, InListEmpty
  <2>3. CASE BatchOf(q) # b \/ DirOf(q) = "c2s"
    <3>1. {i \in DOMAIN l : l[i] = q} = {}
      BY <1>5, <2>3 DEF EInv, Batched
    <3>2. InList(l, q) = 0
      BY <3>1, FS_EmptySet, Zenon DEF InList
    <3>3. BatchOf(q) \in Batches
      BY DEF Batches
    <3>4. InBatch(q)' = InBatch(q)
      BY <1>7, <2>3, <3>3 DEF InBatch
    <3>5. QED
      BY <1>5, <2>1, <3>2, <3>4
  <2>4. QED
    BY <2>2, <2>3
<1>10. QED
  BY <1>7, <1>8, <1>9

LEMMA WriteBatchKeeps ==
  ASSUME EInv, WriteBatch PROVE EInv' /\ L!Leave
<1>1. th["s2c"].pc = "write" /\ th' = [th EXCEPT !["s2c"] = Idle]
  BY DEF WriteBatch
<1>2. UNCHANGED <<pend, rules, shaper, calls, nextFree, queue, qseq, held, now, asked, fired, open>>
  BY DEF WriteBatch, control, deferral
<1>3. th["s2c"].pkt \in Packets /\ th["s2c"].work = <<>>
  BY <1>1, ThreadNames, Zenon DEF EInv, Placed, AtRest
<1>4. PICK b \in Batches : b = BatchOf(th["s2c"].pkt)
  BY <1>3 DEF Batches
<1>5. batch' = [batch EXCEPT ![b].list = <<>>] /\ Written(batch[b].list)
  BY <1>4 DEF WriteBatch
<1>6. /\ batch' \in [Batches -> [list : Seq(Packets), sealed : BOOLEAN]]
      /\ Batched'
      /\ \A q \in Packets : /\ InList(batch[b].list, q) \in Nat
                            /\ InBatch(q)' = InBatch(q) - InList(batch[b].list, q)
  BY <1>5, BatchEmpties, Zenon
<1>7. /\ th' \in [Threads -> ThreadStates]
      /\ th'["s2c"].pc = "idle" /\ th'["s2c"].work = <<>>
      /\ \A u \in Threads : u # "s2c" => th'[u] = th[u]
  BY <1>1, IdleState, ThreadNames, Zenon DEF EInv, Types
<1>8. out \in [Packets -> Nat]
  BY DEF EInv, Types
<1>9. out' \in [Packets -> Nat]
  <2>1. \A q \in Packets : out[q] \in Nat /\ (out[q] + InList(batch[b].list, q)) \in Nat
    BY <1>6, <1>8
  <2>2. QED
    BY <1>5, <2>1 DEF Written
<1>10. Types'
  BY <1>2, <1>6, <1>7, <1>9, Zenon DEF EInv, Types
<1>11. Placed'
  BY <1>2, <1>7, ThreadNames, Zenon DEF EInv, Placed
<1>12. Fresh'
  <2>1. \A h \in Handlers : th'[h] = th[h] \/ th'[h].pc # "act"
    BY <1>7, ThreadNames
  <2>2. Fresh
    BY DEF EInv
  <2>3. pend' = pend /\ asked' = asked
    BY <1>2
  <2>4. QED
    BY ONLY <2>1, <2>2, <2>3 DEF Fresh
<1>13. Numbered'
  BY <1>2, Zenon DEF EInv, Numbered
<1>14. AtRest'
  BY <1>7, ThreadNames DEF EInv, AtRest
<1>15. ASSUME NEW q \in Packets
       PROVE  /\ Inside(q) \in Nat /\ out[q] \in Nat /\ InList(batch[b].list, q) \in Nat
              /\ Inside(q)' = Inside(q) - InList(batch[b].list, q)
              /\ out'[q] = IF open THEN out[q] + InList(batch[b].list, q) ELSE out[q]
  <2>1. /\ InQueue(q) \in Nat /\ InBuffer(q) \in Nat /\ InBatch(q) \in Nat /\ Inside(q) \in Nat
        /\ InQueue(q)' = InQueue(q) /\ InBuffer(q)' = InBuffer(q)
    BY <1>2, SameQueue, SameBuffer, CountsAreNat DEF EInv
  <2>2. InWork(th["s2c"].work, q) = 0 /\ InWork(th'["s2c"].work, q) = 0
    BY <1>3, <1>7, InWorkEmpty
  <2>3. InWork(th'["s2c"].work, q) \in Int /\ InQueue(q)' \in Int /\ InBuffer(q)' \in Int /\ InBatch(q)' \in Int
    BY <1>6, <2>1, <2>2
  <2>4. Inside(q)' = Inside(q) + (InWork(th'["s2c"].work, q) - InWork(th["s2c"].work, q))
              + (InQueue(q)' - InQueue(q)) + (InBuffer(q)' - InBuffer(q))
              + (InBatch(q)' - InBatch(q))
    BY <1>7, <2>3, InsideChanges, ThreadNames, Zenon DEF EInv
  <2>6. InList(batch[b].list, q) \in Nat /\ InBatch(q)' = InBatch(q) - InList(batch[b].list, q)
    BY <1>6
  <2>7. Inside(q)' = Inside(q) - InList(batch[b].list, q)
    <3>1. PICK a, c, d, l, m \in Nat :
            /\ a = Inside(q) /\ c = InQueue(q) /\ d = InBuffer(q) /\ l = InBatch(q)
            /\ m = InList(batch[b].list, q)
      BY ONLY <2>1, <2>6, Zenon
    <3>2. Inside(q)' = a + (0 - 0) + (c - c) + (d - d) + ((l - m) - l)
      BY ONLY <2>1, <2>2, <2>4, <2>6, <3>1, Zenon
    <3>3. a + (0 - 0) + (c - c) + (d - d) + ((l - m) - l) = a - m
      BY ONLY TRUE
    <3>4. QED
      BY ONLY <3>1, <3>2, <3>3, Zenon
  <2>8. QED
    BY <1>5, <1>8, <2>1, <2>6, <2>7 DEF Written
<1>16. (\A q \in Packets : Inside(q) \in Nat)'
  BY <1>10, InsideStaysNat
<1>17. owed' \in [Packets -> Nat]
  BY <1>16 DEF owed
<1>18. \A q \in Packets : /\ owed[q] = Inside(q) /\ owed'[q] = Inside(q)'
  BY DEF owed
<1>19. ASSUME NEW q \in Packets
       PROVE  /\ 0 <= out'[q] - out[q] /\ out'[q] - out[q] <= owed[q] - owed'[q]
              /\ open => out'[q] - out[q] = owed[q] - owed'[q]
  <2>1. CASE open
    BY <1>15, <1>18, <2>1
  <2>2. CASE ~open
    BY <1>15, <1>18, <2>2
  <2>3. QED
    BY <2>1, <2>2, Zenon
<1>20. L!Leave
  BY <1>2, <1>9, <1>17, <1>19, Zenon DEF L!Leave, shaped, closed
<1>21. QED
  BY <1>6, <1>10, <1>11, <1>12, <1>13, <1>14, <1>20, Zenon DEF EInv
=============================================================================
