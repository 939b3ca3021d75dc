------------------------------ MODULE Endpoint ------------------------------
(***************************************************************************)
(* The packet endpoint of internal/netfault: every packet of the link, in  *)
(* either direction, is decided by the published rules and then forwarded, *)
(* dropped, copied, altered, answered with a RST, held back until later    *)
(* packets pass, or queued until a deadline.  Four threads move packets:   *)
(* the two directions' handlers, the goroutine of the deferral queue and   *)
(* whoever closes the endpoint.  Control calls swap the rules and the      *)
(* bandwidth limit under them.                                             *)
(*                                                                         *)
(* A packet's header fields and payload appear only as the set of packets  *)
(* a rule's declarative predicates match; time is a logical clock.         *)
(***************************************************************************)
EXTENDS PacketRules

CONSTANTS
    Ingress,       \* Seq of packets the SUT sends (direction c2s)
    Egress,        \* Seq of packets netstack writes, call after call (s2c)
    RuleSets,      \* the sequences of packet_* calls a control call may publish
    Setups,        \* records [rules, limited, calls]: the packet_* calls and the
                   \*   limited directions at the start, how many control calls
    MaxCalls,      \* bound on the control calls
    MaxBacklog,    \* the shaper's queue bound, in time units
    MaxTime        \* bound on idle ticks of the clock

VARIABLES
    pend,          \* pend[h]: what handler h has not been handed yet
    th,            \* th[t]: a thread's control state and remaining releases
    rules,         \* FaultEndpoint.rules: the published rule sequence
    count,         \* count[id]: a rule's [seen, occ, fired] counters
    shaper,        \* shaper[dir]: the installed shaper object, 0 for none
    nextFree,      \* nextFree[s]: when shaper object s finishes its last packet
    queue,         \* deferQueue.h: set of [at, seq, item]
    qseq,          \* deferQueue.seq
    qstopped,      \* deferQueue.stopped
    wake,          \* the buffered wake channel holds a token
    timer,         \* the armed timer's deadline, or -1
    held,          \* reorderBuffer.held: a flow's held packet, if any
    stopped,       \* FaultEndpoint.stopped
    batch,         \* batch[b]: an egressBatch's list and sealed flag
    open,          \* the wrapped endpoint is open
    now,           \* the clock
    calls,         \* control calls still to come
    asked, out, dropped, mark, answered, fired  \* what became of each packet

threads == <<pend, th>>
control == <<rules, shaper, stopped, calls>>
deferral == <<queue, qseq, qstopped, wake, timer>>
outcome == <<asked, out, dropped, mark, answered, fired>>
vars == <<pend, th, rules, count, shaper, nextFree, queue, qseq, qstopped,
          wake, timer, held, stopped, batch, open, now, calls, outcome>>

Flows == {flowID(p) : p \in Packets}
Batches == {BatchOf(p) : p \in Packets}
Handlers == {"c2s", "s2c"}
Threads == Handlers \cup {"run", "close"}
RuleIds == {Compile(c).id : c \in UNION {Range(s) : s \in RuleSets \cup {u.rules : u \in Setups}}}
Shapers == 1..(2 + MaxCalls)
NoPacket == "none"
NoRule == [action |-> "none"]
Undecided == -1

(* A packet crosses the link once, in its own direction.  Rules that load    *)
(* have whole amounts.                                                       *)
ASSUME EndpointAssumption ==
    /\ IsFiniteSet(Packets) /\ \A p \in Packets : DirOf(p) \in Handlers
    /\ Ingress \in Seq({p \in Packets : DirOf(p) = "c2s"}) /\ IsInjective(Ingress)
    /\ Egress \in Seq({p \in Packets : DirOf(p) = "s2c"}) /\ IsInjective(Egress)
    /\ \A cs \in RuleSets \cup {u.rules : u \in Setups} :
         \A i \in DOMAIN cs : Compile(cs[i]).by \in Int
    /\ \A u \in Setups : u.calls \in 0..MaxCalls
    /\ MaxCalls \in Nat /\ MaxBacklog \in Nat /\ MaxTime \in Nat

Idle == [pc |-> "idle", pkt |-> NoPacket, sh |-> 0, rule |-> NoRule, work |-> <<>>]

Init ==
    \E u \in Setups :
    /\ pend = [h \in Handlers |-> IF h = "c2s" THEN Ingress ELSE Egress]
    /\ th = [t \in Threads |-> IF t = "run" THEN [Idle EXCEPT !.pc = "scan"] ELSE Idle]
    /\ Loads(u.rules) /\ rules = NewRuleSet(u.rules)
    /\ count = [i \in RuleIds |-> [seen |-> 0, occ |-> 0, fired |-> 0]]
    /\ shaper = [d \in Handlers |-> CASE d \notin u.limited -> 0
                                      [] d = "c2s" -> 1
                                      [] OTHER -> 2]
    /\ nextFree = [s \in Shapers |-> 0]
    /\ queue = {} /\ qseq = 0 /\ qstopped = FALSE
    /\ wake = FALSE /\ timer = -1
    /\ held = [f \in Flows |-> <<>>]
    /\ stopped = FALSE
    /\ batch = [b \in Batches |-> [list |-> <<>>, sealed |-> FALSE]]
    /\ open = TRUE /\ now = 0 /\ calls = u.calls
    /\ asked = [p \in Packets |-> Undecided]
    /\ out = [p \in Packets |-> 0]
    /\ dropped = {}
    /\ mark = [p \in Packets |-> "intact"]
    /\ answered = {}
    /\ fired = <<>>

-----------------------------------------------------------------------------
(* Releases: what a thread still has to send.  wait = -1 means the copy has *)
(* not been through the shaper; 0 that it goes straight out; more that it   *)
(* is to be queued for that long.  key is the queue entry it came from.     *)

paced(p, s) == [p |-> p, sh |-> s, wait |-> IF s = 0 THEN 0 ELSE -1, key |-> <<>>]

Copies(item, n) == [i \in 1..n |-> item]

\* Fault: the goroutine is not woken.
ScheduleNoWake(d, item) ==
    /\ qseq' = qseq + 1
    /\ queue' = queue \cup {[at |-> now + d, seq |-> qseq + 1, item |-> item]}
    /\ UNCHANGED <<qstopped, wake, timer>>

schedule(d, item) ==
    /\ qseq' = qseq + 1
    /\ queue' = queue \cup {[at |-> now + d, seq |-> qseq + 1, item |-> item]}
    /\ wake' = TRUE
    /\ UNCHANGED <<qstopped, timer>>

\* The head of t's releases is done with; a queue entry's turn is noted.
Pop(t) ==
    th' = [th EXCEPT ![t].work = Tail(@)]

Note(item) ==
    fired' = IF item.key = <<>> THEN fired ELSE Append(fired, item.key)

\* shaper.admit: a full backlog drops the copy, otherwise it reserves link
\* time (one unit a packet) and learns how long it must wait.
admit(t) ==
    LET item == Head(th[t].work)
        free == IF nextFree[item.sh] < now THEN now ELSE nextFree[item.sh]
    IN  /\ th[t].work # <<>> /\ item.wait = -1
        /\ Note(item)
        /\ IF free - now > MaxBacklog
           THEN /\ dropped' = dropped \cup {item.p}
                /\ nextFree' = [nextFree EXCEPT ![item.sh] = free]
                /\ Pop(t)
           ELSE /\ nextFree' = [nextFree EXCEPT ![item.sh] = free + 1]
                /\ th' = [th EXCEPT ![t].work[1] =
                                      [item EXCEPT !.wait = free - now, !.key = <<>>]]
                /\ UNCHANGED dropped
        /\ UNCHANGED <<pend, control, count, deferral, held, batch, open, now,
                       asked, out, mark, answered>>

\* The queued half of paced: the raw release waits for its deadline, or runs
\* at once when the queue no longer takes entries.
Enqueue(t) ==
    LET item == Head(th[t].work)
    IN  /\ th[t].work # <<>> /\ item.wait > 0
        /\ IF qstopped
           THEN /\ th' = [th EXCEPT ![t].work[1].wait = 0]
                /\ UNCHANGED deferral
           ELSE /\ schedule(item.wait, [item EXCEPT !.wait = 0])
                /\ Pop(t)
        /\ UNCHANGED <<pend, control, count, nextFree, held, batch, open, now, outcome>>

InList(l, p) == Cardinality({i \in DOMAIN l : l[i] = p})
Written(l) ==
    out' = [p \in Packets |-> IF open THEN out[p] + InList(l, p) ELSE out[p]]

\* The raw release: up into the stack, into the open write batch, or down the
\* wire once the batch has been sealed.
Forward(t) ==
    LET item == Head(th[t].work)
        p == item.p
        b == BatchOf(p)
    IN  /\ th[t].work # <<>> /\ item.wait = 0
        /\ Note(item)
        /\ Pop(t)
        /\ \/ /\ DirOf(p) = "c2s"
              /\ out' = [out EXCEPT ![p] = @ + 1]
              /\ UNCHANGED batch
           \/ /\ DirOf(p) = "s2c" /\ ~batch[b].sealed
              /\ batch' = [batch EXCEPT ![b].list = Append(@, p)]
              /\ UNCHANGED out
           \/ /\ DirOf(p) = "s2c" /\ batch[b].sealed
              /\ Written(<<p>>)
              /\ UNCHANGED batch
        /\ UNCHANGED <<pend, control, count, nextFree, deferral, held, open, now,
                       asked, dropped, mark, answered>>

-----------------------------------------------------------------------------
(* handle: one packet through the rule pipeline *)

\* Rule.rollProbability: the draw, unless the plan leaf pins this occurrence.
rollProbability(r, draw) ==
    \/ ~Rolls(r)
    \/ IF r.pins # <<>> /\ count[r.id].occ < Len(r.pins)
       THEN r.pins[count[r.id].occ + 1]
       ELSE draw

\* RuleSet.decide: the first rule that matches, triggers and rolls, 0 when
\* none does; every rule walked past keeps its counts.
Hits(p, r) == Matches(r, p) /\ shouldTrigger(r, count[r.id].seen + 1)
Fires(p, draw) == {i \in DOMAIN rules : Hits(p, rules[i]) /\ rollProbability(rules[i], draw[i])}
decide(p, draw) ==
    {i \in Fires(p, draw) : \A j \in Fires(p, draw) : i <= j}
        \cup (IF Fires(p, draw) = {} THEN {0} ELSE {})

Counted(p, first) ==
    LET walked == {i \in DOMAIN rules : first = 0 \/ i <= first}
        bump(i) == [seen |-> IF Matches(rules[i], p) THEN 1 ELSE 0,
                    occ |-> IF Hits(p, rules[i]) /\ Rolls(rules[i]) /\ rules[i].pins # <<>>
                            THEN 1 ELSE 0,
                    fired |-> IF i = first THEN 1 ELSE 0]
    IN  [id \in RuleIds |->
           IF \E i \in walked : rules[i].id = id
           THEN LET b == bump(CHOOSE i \in DOMAIN rules : rules[i].id = id)
                IN  [seen |-> count[id].seen + b.seen,
                     occ |-> count[id].occ + b.occ,
                     fired |-> count[id].fired + b.fired]
           ELSE count[id]]

\* reorderBuffer.advance: what passing on flow f releases, and what stays held.
advanceDue(f) == held[f] # <<>> /\ held[f][1].remaining <= 1
advance(f) ==
    [held EXCEPT ![f] = IF held[f] = <<>> \/ advanceDue(f) THEN <<>>
                        ELSE <<[held[f][1] EXCEPT !.remaining = @ - 1]>>]

\* A handler takes its next packet once the one before is released and, on the
\* egress side, a finished batch is sealed.
EndsBatch(h) ==
    h = "s2c" /\ (pend[h] # <<>> => BatchOf(Head(pend[h])) # BatchOf(th[h].pkt))
Free(h) == th[h].pc = "idle" \/ (th[h].pc = "send" /\ th[h].work = <<>> /\ ~EndsBatch(h))

\* handle up to its action: load the shaper, the rules and the stopped flag;
\* with nothing to decide, release.  Otherwise decide, and advance the flow's
\* held packet, which is released when handle returns.
Arrive(h) ==
    LET p == Head(pend[h])
        f == flowID(p)
        decides == rules # <<>> /\ ~stopped /\ Parse(p)
        freed == IF advanceDue(f) THEN <<held[f][1].item>> ELSE <<>>
    IN  /\ Free(h) /\ pend[h] # <<>>
        /\ pend' = [pend EXCEPT ![h] = Tail(@)]
        /\ \/ /\ ~decides
              /\ th' = [th EXCEPT ![h] = [Idle EXCEPT !.pkt = p, !.pc = "send",
                                                      !.work = <<paced(p, shaper[h])>>]]
              /\ asked' = [asked EXCEPT ![p] = 1]
              /\ UNCHANGED <<count, held>>
           \/ /\ decides
              /\ \E draw \in [{i \in DOMAIN rules : Rolls(rules[i])} -> BOOLEAN] :
                 \E first \in decide(p, draw) :
                   /\ th' = [th EXCEPT ![h] = [Idle EXCEPT !.pkt = p, !.sh = shaper[h],
                                 !.rule = IF first = 0 THEN NoRule ELSE rules[first],
                                 !.pc = "act", !.work = freed]]
                   /\ count' = Counted(p, first)
              /\ held' = advance(f)
              /\ UNCHANGED asked
        /\ UNCHANGED <<control, nextFree, deferral, batch, open, now,
                       out, dropped, mark, answered, fired>>

\* How many copies of the packet the rule's action leaves in the link.
CopiesAsked(r) ==
    CASE r.action \in {"drop", "reset"} -> 0
      [] r.action = "duplicate" -> r.by
      [] OTHER -> 1

\* corrupt and rewriteWindow write in place, so only into a packet whose bytes
\* are aliased; the window is a TCP field.
Altered(p, r) ==
    CASE r.action \notin {"corrupt", "window"} -> mark[p]
      [] ~PacketBytes(p) -> "skipped"
      [] r.action = "window" /\ Packet[p].proto # "tcp" -> mark[p]
      [] OTHER -> "altered"

\* buildRST: a RST travels back, for TCP only.
Answered(p, r) == r.action = "reset" /\ Packet[p].proto = "tcp"

\* Fault: a copy the queue or the buffer refuses is not released.
ActOnRefusedLost(h) ==
    LET p == th[h].pkt
        r == th[h].rule
        item == paced(p, th[h].sh)
        f == flowID(p)
        parks == \/ r.action = "delay" /\ ~qstopped
                 \/ r.action = "reorder" /\ held[f] = <<>>
        lost == r.action \in {"delay", "reorder"}
        sends == IF lost THEN <<>> ELSE Copies(item, CopiesAsked(r))
    IN  /\ th[h].pc = "act"
        /\ th' = [th EXCEPT ![h] = [Idle EXCEPT !.pkt = p, !.pc = "send",
                                               !.work = sends \o th[h].work]]
        /\ asked' = [asked EXCEPT ![p] = CopiesAsked(r)]
        /\ mark' = [mark EXCEPT ![p] = Altered(p, r)]
        /\ answered' = IF Answered(p, r) THEN answered \cup {p} ELSE answered
        /\ IF parks /\ r.action = "delay" THEN schedule(r.by, item) ELSE UNCHANGED deferral
        /\ held' = IF parks /\ r.action = "reorder"
                   THEN [held EXCEPT ![f] = <<[remaining |-> r.by, item |-> item]>>]
                   ELSE held
        /\ UNCHANGED <<pend, control, count, nextFree, batch, open, now,
                       out, dropped, fired>>

\* The action switch.  delay and reorder park the copy, or release it when the
\* queue is stopped or the flow already holds one; the rest release at once.
ActOn(h) ==
    LET p == th[h].pkt
        r == th[h].rule
        item == paced(p, th[h].sh)
        f == flowID(p)
        parks == \/ r.action = "delay" /\ ~qstopped
                 \/ r.action = "reorder" /\ held[f] = <<>>
        sends == IF parks THEN <<>> ELSE Copies(item, CopiesAsked(r))
    IN  /\ th[h].pc = "act"
        /\ th' = [th EXCEPT ![h] = [Idle EXCEPT !.pkt = p, !.pc = "send",
                                               !.work = sends \o th[h].work]]
        /\ asked' = [asked EXCEPT ![p] = CopiesAsked(r)]
        /\ mark' = [mark EXCEPT ![p] = Altered(p, r)]
        /\ answered' = IF Answered(p, r) THEN answered \cup {p} ELSE answered
        /\ IF parks /\ r.action = "delay" THEN schedule(r.by, item) ELSE UNCHANGED deferral
        /\ held' = IF parks /\ r.action = "reorder"
                   THEN [held EXCEPT ![f] = <<[remaining |-> r.by, item |-> item]>>]
                   ELSE held
        /\ UNCHANGED <<pend, control, count, nextFree, batch, open, now,
                       out, dropped, fired>>

\* egressBatch.seal, locked part: releases from here on go straight down.
Seal ==
    /\ th["s2c"].pc = "send" /\ th["s2c"].work = <<>> /\ EndsBatch("s2c")
    /\ th' = [th EXCEPT !["s2c"].pc = "write"]
    /\ batch' = [batch EXCEPT ![BatchOf(th["s2c"].pkt)].sealed = TRUE]
    /\ UNCHANGED <<pend, control, count, nextFree, deferral, held, open, now, outcome>>

\* The second half of egressBatch.seal: the list goes down after the unlock.
WriteBatch ==
    LET b == BatchOf(th["s2c"].pkt)
    IN  /\ th["s2c"].pc = "write"
        /\ Written(batch[b].list)
        /\ batch' = [batch EXCEPT ![b].list = <<>>]
        /\ th' = [th EXCEPT !["s2c"] = Idle]
        /\ UNCHANGED <<pend, control, count, nextFree, deferral, held, open, now,
                       asked, dropped, mark, answered, fired>>

-----------------------------------------------------------------------------
(* deferQueue.run: the one goroutine that fires queue entries *)

Before(d, e) == d.at < e.at \/ (d.at = e.at /\ d.seq < e.seq)
Soonest == {d \in queue : \A e \in queue \ {d} : Before(d, e)}
Fired(d) == [d.item EXCEPT !.key = <<d.at, d.seq>>]

\* The locked part of the loop: leave when stopped, fire the soonest entry when
\* it is due, otherwise arm the timer for it and go to sleep.
Scan ==
    /\ th["run"].pc = "scan" /\ th["run"].work = <<>>
    /\ \/ /\ qstopped
          /\ th' = [th EXCEPT !["run"].pc = "exit"]
          /\ UNCHANGED deferral
       \/ /\ ~qstopped
          /\ \E d \in Soonest :
               /\ d.at <= now
               /\ th' = [th EXCEPT !["run"].work = <<Fired(d)>>]
               /\ queue' = queue \ {d}
          /\ UNCHANGED <<qseq, qstopped, wake, timer>>
       \/ /\ ~qstopped /\ \A d \in Soonest : d.at > now
          /\ th' = [th EXCEPT !["run"].pc = "sleep"]
          /\ timer' \in IF queue = {} THEN {-1} ELSE {d.at : d \in Soonest}
          /\ UNCHANGED <<queue, qseq, qstopped, wake>>
    /\ UNCHANGED <<pend, control, count, nextFree, held, batch, open, now, outcome>>

\* The select: a wake token, or the done channel once the queue is stopped.
Sleep ==
    /\ th["run"].pc = "sleep"
    /\ \/ /\ wake
          /\ wake' = FALSE
          /\ th' = [th EXCEPT !["run"].pc = "scan"]
       \/ /\ qstopped
          /\ th' = [th EXCEPT !["run"].pc = "exit"]
          /\ UNCHANGED wake
    /\ UNCHANGED <<pend, control, count, nextFree, queue, qseq, qstopped, timer,
                   held, batch, open, now, outcome>>

TimerFires ==
    /\ timer >= 0 /\ timer <= now
    /\ timer' = -1
    /\ wake' = TRUE
    /\ UNCHANGED <<threads, control, count, nextFree, queue, qseq, qstopped,
                   held, batch, open, now, outcome>>

-----------------------------------------------------------------------------
(* Close *)

Holding == {f \in Flows : held[f] # <<>>}

\* stopped.Swap
CloseBegins ==
    /\ th["close"].pc = "idle" /\ ~stopped
    /\ stopped' = TRUE
    /\ th' = [th EXCEPT !["close"].pc = "drain"]
    /\ UNCHANGED <<pend, rules, count, shaper, nextFree, deferral, held, batch,
                   open, now, calls, outcome>>

\* The lists that have every element of S once.
Orders(S) == Injection(1..Cardinality(S), S)

\* reorderBuffer.drain takes every held packet, in the order Go's map gives;
\* their releases follow.
drain ==
    /\ th["close"].pc = "drain"
    /\ held' = [f \in Flows |-> <<>>]
    /\ \E fs \in Orders(Holding) :
         th' = [th EXCEPT !["close"].pc = "stop",
                          !["close"].work = [i \in DOMAIN fs |-> held[fs[i]][1].item]]
    /\ UNCHANGED <<pend, control, count, nextFree, deferral, batch, open, now, outcome>>

\* deferQueue.stop, locked part: no new entries, the pending ones are taken.
StopQueue ==
    /\ th["close"].pc = "stop" /\ th["close"].work = <<>>
    /\ qstopped' = TRUE /\ timer' = -1 /\ wake' = TRUE
    /\ queue' = {}
    /\ \E es \in Orders(queue) :
         /\ \A i, j \in DOMAIN es : i < j => Before(es[i], es[j])
         /\ th' = [th EXCEPT !["close"].pc = "wait",
                             !["close"].work = [i \in DOMAIN es |-> Fired(es[i])]]
    /\ UNCHANGED <<pend, control, count, nextFree, qseq, held, batch, open, now, outcome>>

\* Fault: the pending entries are flushed while the goroutine still fires one.
AwaitRunSkipped ==
    /\ th["close"].pc = "wait"
    /\ th' = [th EXCEPT !["close"].pc = "flush"]
    /\ UNCHANGED <<pend, control, count, nextFree, deferral, held, batch, open, now, outcome>>

\* wg.Wait: what the run goroutine is firing goes out before the pending ones.
AwaitRun ==
    /\ th["close"].pc = "wait" /\ th["run"].pc = "exit"
    /\ th' = [th EXCEPT !["close"].pc = "flush"]
    /\ UNCHANGED <<pend, control, count, nextFree, deferral, held, batch, open, now, outcome>>

CloseWire ==
    /\ th["close"].pc = "flush" /\ th["close"].work = <<>>
    /\ open' = FALSE
    /\ th' = [th EXCEPT !["close"].pc = "closed"]
    /\ UNCHANGED <<pend, control, count, nextFree, deferral, held, batch, now, outcome>>

-----------------------------------------------------------------------------
(* Control calls and time *)

SetRules(rs) ==
    /\ calls > 0 /\ Loads(rs) /\ NewRuleSet(rs) # rules
    /\ rules' = NewRuleSet(rs)
    /\ calls' = calls - 1
    /\ UNCHANGED <<threads, count, shaper, nextFree, deferral, held, stopped, batch,
                   open, now, outcome>>

\* SetBandwidth installs a fresh shaper, or none; a release under way keeps the
\* one it loaded.
SetBandwidth(d, limited) ==
    /\ calls > 0
    /\ limited \/ shaper[d] # 0
    /\ shaper' = [shaper EXCEPT ![d] = IF limited THEN 2 + calls ELSE 0]
    /\ calls' = calls - 1
    /\ UNCHANGED <<threads, rules, count, nextFree, deferral, held, stopped, batch,
                   open, now, outcome>>

ClearShapers ==
    /\ calls > 0 /\ \E d \in Handlers : shaper[d] # 0
    /\ shaper' = [d \in Handlers |-> 0]
    /\ calls' = calls - 1
    /\ UNCHANGED <<threads, rules, count, nextFree, deferral, held, stopped, batch,
                   open, now, outcome>>

\* Time passes freely for a while, and as long as a deadline lies ahead.
Tick ==
    /\ now < MaxTime \/ \E d \in queue : d.at > now
    /\ now' = now + 1
    /\ UNCHANGED <<threads, control, count, nextFree, deferral, held, batch, open, outcome>>

Sending(t) == (t = "close" => th[t].pc # "wait") /\ th[t].pc # "act"

ThreadStep ==
    \/ \E h \in Handlers : Arrive(h) \/ ActOn(h)
    \/ \E t \in Threads : Sending(t) /\ (admit(t) \/ Enqueue(t) \/ Forward(t))
    \/ Seal \/ WriteBatch \/ Scan \/ Sleep \/ TimerFires
    \/ drain \/ StopQueue \/ AwaitRun \/ CloseWire
    \/ Tick

ControlStep ==
    \/ CloseBegins
    \/ \E rs \in RuleSets : SetRules(rs)
    \/ \E d \in Handlers, limited \in BOOLEAN : SetBandwidth(d, limited)
    \/ ClearShapers

Next == ThreadStep \/ ControlStep

Spec == Init /\ [][Next]_vars /\ WF_vars(ThreadStep)

-----------------------------------------------------------------------------
(* Properties *)

\* Copies of p that are inside the endpoint: still to be released by a thread,
\* queued, held, or in a batch that has not been written.
InWork(w, p) == Cardinality({i \in DOMAIN w : w[i].p = p})
InQueue(p) == Cardinality({d \in queue : d.item.p = p})
InBuffer(p) ==
    IF held[flowID(p)] # <<>> /\ held[flowID(p)][1].item.p = p THEN 1 ELSE 0
InBatch(p) == IF DirOf(p) = "c2s" THEN 0 ELSE InList(batch[BatchOf(p)].list, p)
Inside(p) ==
    InWork(th["c2s"].work, p) + InWork(th["s2c"].work, p) + InWork(th["run"].work, p)
    + InWork(th["close"].work, p) + InQueue(p) + InBuffer(p) + InBatch(p)

\* Nothing is lost or invented between the handlers, the queue, the reorder
\* buffer, the batches and Close: the endpoint (handle, paced, egressBatch,
\* deferQueue, Close) implements the abstract link, in which every copy a rule
\* asks for leaves exactly once unless the shaper drops it.
owed == [p \in Packets |-> Inside(p)]
shaped == \E s \in Shapers : nextFree[s] > 0
closed == ~open
L == INSTANCE Link
LinkSpec == L!Spec

\* Deferred packets fire in (deadline, seq) order, the ones Close flushes
\* included: deferQueue.stop waits for the goroutine before it flushes.
FiredInOrder ==
    \A i, j \in DOMAIN fired :
        i < j => \/ fired[i][1] < fired[j][1]
                 \/ fired[i][1] = fired[j][1] /\ fired[i][2] < fired[j][2]

\* A deferred packet is never forgotten: the wake token and the timer get the
\* goroutine of deferQueue.run, or Close, to fire every entry.
QueueDrains == []<>(queue = {})
=============================================================================
