----------------------------- MODULE FaultRules -----------------------------
(***************************************************************************)
(* The fault rules of one session: fault() windows that install and remove *)
(* dynamic rules (applyFaults and removeFaults of star/runtime.go,          *)
(* SetDynamicFaultRules of engine/session.go) and the notification handlers *)
(* that consult them, each in a goroutine of its own (handleNotification    *)
(* of engine/launch_linux.go, past its hold rules).                         *)
(***************************************************************************)
EXTENDS Naturals, Sequences, FiniteSets, Functions

CONSTANTS Handlers,     \* notifications
          Filtered,     \* the syscalls the kernel was told to intercept
          Setups        \* the sessions to consider: see IsSetup

(* A rule applies to one syscall.  It may have a path glob and a trigger    *)
(* ("always", or the call number of nth= and after=); its probability is    *)
(* zero, one or between, and the key names it to the plan leaf.  Nothing    *)
(* sets FaultRule.DestAddr, so it is left out.                              *)
RuleType == [id : STRING, sys : STRING, glob : {"none", "data", "system"},
             trigger : {"always", "nth", "after"}, n : Nat,
             prob : {"zero", "some", "one"}, key : STRING]

(* Where a syscall points, and whether the supervisor can read it. *)
CallType == [sys : STRING, kind : {"file", "fd", "other"},
             path : {"data", "other", "system"}, readable : BOOLEAN]

(* A session: the rules of its configuration, per syscall and in order; the *)
(* fault(), fault_scenario() and trace() calls on its service, each with    *)
(* the rule sets it applies one after the other; the syscalls its target    *)
(* may make; the vectors the plan leaf pins by key, if it has a             *)
(* ProbabilityDecider; and whether windows may be open at the same time.    *)
(* An id names a rule, and nth= counts from one.  A session with windows    *)
(* has one static rule a syscall, the placeholder, so the append that       *)
(* merges the two lists never writes into a shared array; a leaf pins no    *)
(* certain rule.                                                            *)
RulesIn(x) == (UNION {Range(x.static[c]) : c \in Filtered}) \cup
              (UNION {UNION Range(x.rulesOf[w]) : w \in DOMAIN x.rulesOf})

IsSetup(x) ==
    /\ x.static \in [Filtered -> Seq(RuleType)]
    /\ \A c \in Filtered : \A i \in DOMAIN x.static[c] : x.static[c][i].sys = c
    /\ \A w \in DOMAIN x.rulesOf :
          /\ x.rulesOf[w] \in Seq(SUBSET RuleType) /\ x.rulesOf[w] # <<>>
          /\ \A i \in DOMAIN x.rulesOf[w] : IsFiniteSet(x.rulesOf[w][i])
          /\ \A c \in Filtered :
                /\ Len(x.static[c]) <= 1
                /\ Range(x.static[c]) \cap UNION Range(x.rulesOf[w]) = {}
    /\ \A r, q \in RulesIn(x) : r.id = q.id => r = q
    /\ \A r \in RulesIn(x) : r.id \notin {"allow", "none"}
    /\ \A r \in RulesIn(x) : r.trigger = "nth" => r.n > 0
    /\ x.traces \subseteq DOMAIN x.rulesOf
    /\ x.calls \subseteq CallType /\ \A c \in x.calls : c.sys \in Filtered
    /\ \A k \in DOMAIN x.leaf : x.leaf[k] \in Seq(BOOLEAN)
    /\ \A r \in RulesIn(x) : r.prob = "one" => r.key \notin DOMAIN x.leaf
    /\ x.decider \in BOOLEAN /\ x.overlap \in BOOLEAN

ASSUME SetupsAssumption == IsFiniteSet(Handlers) /\ \A x \in Setups : IsSetup(x)

VARIABLES
    setup,        \* the session under consideration
    dynamic,      \* Session.dynamicRules, per syscall in the order they were installed
    window,       \* each window: "idle", "applying", "open", "reported", "closed", "refused"
    applied,      \* how many of its rule sets a window has applied
    zeroTraffic,  \* the rules a fault_zero_traffic event was emitted for
    counter,      \* FaultRule.counter, per rule
    occurrences,  \* FaultRule.probCounter, per rule
    handler,      \* each handler: "idle", "deciding", "done"
    req,          \* its syscall
    rules,        \* the rules it still has to consider
    outcome,      \* the rule that fired on it, or "allow"
    arrival       \* history: the windows with rules installed when it looked them up

windowVars == <<dynamic, window, applied, zeroTraffic>>
handlerVars == <<handler, req, rules, outcome, arrival>>
vars == <<setup, windowVars, counter, occurrences, handlerVars>>

Windows == DOMAIN setup.rulesOf
Traces == setup.traces
Static == setup.static
RulesOf == setup.rulesOf
Calls == setup.calls
Decider == setup.decider

WindowRules(w) == UNION Range(RulesOf[w])
AllRules == RulesIn(setup)
Syscalls == Filtered \cup {r.sys : r \in AllRules}
Nothing == [c \in Syscalls |-> <<>>]
Ids == {r.id : r \in AllRules}
NoCall == [sys |-> "none", kind |-> "other", path |-> "other", readable |-> TRUE]
UnderWay == {w \in Windows : window[w] \in {"applying", "open", "reported"}}
LeftBehind == {w \in Windows : window[w] = "refused" /\ applied[w] > 0}
DynamicRules == UNION {Range(dynamic[c]) : c \in Syscalls}

Init ==
    /\ setup \in Setups
    /\ dynamic = Nothing
    /\ window = [w \in Windows |-> "idle"]
    /\ applied = [w \in Windows |-> 0]
    /\ zeroTraffic = {}
    /\ counter = [i \in Ids |-> 0] /\ occurrences = [i \in Ids |-> 0]
    /\ handler = [h \in Handlers |-> "idle"]
    /\ req = [h \in Handlers |-> NoCall]
    /\ rules = [h \in Handlers |-> <<>>]
    /\ outcome = [h \in Handlers |-> "none"]
    /\ arrival = [h \in Handlers |-> {}]

----------------------------------------------------------------------------
(* Windows *)

MayApply(w) ==
    /\ window[w] \in {"idle", "applying"}
    /\ setup.overlap \/ UnderWay \subseteq {w}

NextRules(w) == RulesOf[w][applied[w] + 1]

(* uncoveredSyscalls: a fault the kernel was not told to intercept. *)
Uncovered(w) == w \notin Traces /\ \E r \in NextRules(w) : r.sys \notin Filtered

(* SetDynamicFaultRules replaces what is installed; a map's iteration order *)
(* decides the order of the new rules.                                      *)
Lists(S) == Bijection(1..Cardinality(S), S)
RulesFor(S, c) == {r \in S : r.sys = c}
Installed(w) ==
    {d \in [Syscalls -> UNION {Lists(RulesFor(NextRules(w), c)) : c \in Syscalls}] :
        \A c \in Syscalls : d[c] \in Lists(RulesFor(NextRules(w), c))}

(* applyFaults and applyTrace: one rule set of the window. *)
ApplyFaults(w) ==
    /\ MayApply(w) /\ ~Uncovered(w)
    /\ dynamic' \in Installed(w)
    /\ applied' = [applied EXCEPT ![w] = @ + 1]
    /\ window' = [window EXCEPT ![w] =
                    IF applied[w] + 1 = Len(RulesOf[w]) THEN "open" ELSE "applying"]
    /\ UNCHANGED <<zeroTraffic, counter, occurrences, handlerVars>>

(* applyFaults fails before it installs anything, and the call with it.     *)
(* What a scenario installed before that stays.                             *)
RefuseFaults(w) ==
    /\ MayApply(w) /\ Uncovered(w)
    /\ window' = [window EXCEPT ![w] = "refused"]
    /\ UNCHANGED <<dynamic, applied, zeroTraffic, counter, occurrences, handlerVars>>

(* removeFaults first reports the installed rules that never matched ... *)
ReportActivity(w) ==
    /\ window[w] = "open" /\ w \notin Traces
    /\ window' = [window EXCEPT ![w] = "reported"]
    /\ zeroTraffic' = zeroTraffic \cup
                        {r.id : r \in {x \in DynamicRules : counter[x.id] = 0}}
    /\ UNCHANGED <<dynamic, applied, counter, occurrences, handlerVars>>

MayClear(w) == window[w] = (IF w \in Traces THEN "open" ELSE "reported")

(* A removal that forgets to clear the session. *)
ClearFaultsForgotten(w) ==
    /\ MayClear(w)
    /\ window' = [window EXCEPT ![w] = "closed"]
    /\ UNCHANGED <<dynamic, applied, zeroTraffic, counter, occurrences, handlerVars>>

(* ... then clears the session's rules, whoever installed them.  removeTrace *)
(* only clears.                                                              *)
ClearFaults(w) ==
    /\ MayClear(w)
    /\ window' = [window EXCEPT ![w] = "closed"]
    /\ dynamic' = Nothing
    /\ UNCHANGED <<applied, zeroTraffic, counter, occurrences, handlerVars>>

----------------------------------------------------------------------------
(* Handlers *)

(* The path a handler knows: none if it could not be read, and none for a   *)
(* descriptor of a system path or a syscall without a path.                 *)
PathOf(c) ==
    IF \/ c.kind = "other" \/ ~c.readable
       \/ c.kind = "fd" /\ c.path = "system"
    THEN "" ELSE c.path

(* A handler resolves its path and merges static and dynamic rules. *)
Arrive(h, c) ==
    /\ handler[h] = "idle"
    /\ handler' = [handler EXCEPT ![h] = "deciding"]
    /\ req' = [req EXCEPT ![h] = c]
    /\ rules' = [rules EXCEPT ![h] = Static[c.sys] \o dynamic[c.sys]]
    /\ arrival' = [arrival EXCEPT ![h] = UnderWay \cup LeftBehind]
    /\ UNCHANGED <<windowVars, counter, occurrences, outcome>>

(* A filter that forgets the glob. *)
FilterIgnoresGlob(r, c) ==
    IF PathOf(c) = "system" THEN "allow" ELSE "match"

(* The path filter: "match", "skip" to the next rule, or "allow" at once    *)
(* (the system path of a rule without a glob).  Without a known path there  *)
(* is no filter.                                                            *)
Filter(r, c) ==
    CASE PathOf(c) = "" -> "match"
      [] PathOf(c) # "" /\ r.glob # "none" -> IF r.glob = PathOf(c) THEN "match" ELSE "skip"
      [] OTHER -> IF PathOf(c) = "system" THEN "allow" ELSE "match"

(* An nth= that keeps firing. *)
ShouldFireFromNth(r, n) ==
    CASE r.trigger = "always" -> TRUE
      [] r.trigger = "nth" -> n >= r.n
      [] r.trigger = "after" -> n > r.n

(* ShouldFire, given the value the atomic increment returned. *)
ShouldFire(r, n) ==
    CASE r.trigger = "always" -> TRUE
      [] r.trigger = "nth" -> n = r.n
      [] r.trigger = "after" -> n > r.n

(* The occurrence counted from one. *)
NextProbabilityOccurrenceFromOne(r) == occurrences[r.id] + 1

(* NextProbabilityOccurrence: the value before the atomic increment. *)
NextProbabilityOccurrence(r) == occurrences[r.id]

Vector(r) ==
    IF Decider /\ r.key \in DOMAIN setup.leaf THEN setup.leaf[r.key] ELSE <<>>

(* ProbabilityFire: the leaf's vector decides the occurrences it covers,    *)
(* the random generator the others.                                         *)
FireDecisions(r) ==
    LET occ == NextProbabilityOccurrence(r)
    IN  IF occ < Len(Vector(r)) THEN {Vector(r)[occ + 1]}
        ELSE CASE r.prob = "one" -> {TRUE} [] r.prob = "zero" -> {FALSE}
               [] r.prob = "some" -> BOOLEAN

(* The handler answers: a rule fired on its syscall, or it is allowed. *)
Answer(h, o) ==
    /\ handler' = [handler EXCEPT ![h] = "done"]
    /\ outcome' = [outcome EXCEPT ![h] = o]
    /\ rules' = [rules EXCEPT ![h] = <<>>]
    /\ UNCHANGED <<windowVars, req, arrival>>

NextRule(h) ==
    /\ rules' = [rules EXCEPT ![h] = Tail(@)]
    /\ UNCHANGED <<windowVars, handler, req, outcome, arrival>>

(* The counter of a rule, incremented by whoever evaluates its trigger. A   *)
(* container's session makes the counters of its placeholders on first use, *)
(* without a lock, and may lose a count of theirs; no trigger, decider or   *)
(* report reads it.                                                         *)
Count(r) == counter' = [counter EXCEPT ![r.id] = @ + 1]

(* The handler takes its next rule: filter, trigger, probability, answer. *)
Consider(h) ==
    /\ handler[h] = "deciding" /\ rules[h] # <<>>
    /\ LET r == Head(rules[h])
           verdict == Filter(r, req[h])
           triggers == ShouldFire(r, counter[r.id] + 1)
       IN  \/ /\ verdict = "skip" /\ NextRule(h)
              /\ UNCHANGED <<counter, occurrences>>
           \/ /\ verdict = "allow" /\ Answer(h, "allow")
              /\ UNCHANGED <<counter, occurrences>>
           \/ /\ verdict = "match" /\ ~triggers
              /\ Count(r) /\ NextRule(h) /\ UNCHANGED occurrences
           \/ /\ verdict = "match" /\ triggers
              /\ Count(r)
              /\ occurrences' = [occurrences EXCEPT ![r.id] = IF Decider THEN @ + 1 ELSE @]
              /\ \E fire \in FireDecisions(r) :
                    IF fire THEN Answer(h, r.id) ELSE NextRule(h)

(* No rule is left: the syscall goes through. *)
Allow(h) ==
    /\ handler[h] = "deciding" /\ rules[h] = <<>>
    /\ Answer(h, "allow")
    /\ UNCHANGED <<counter, occurrences>>

WindowNext ==
    \E w \in Windows :
        ApplyFaults(w) \/ RefuseFaults(w) \/ ReportActivity(w) \/ ClearFaults(w)

HandlerNext ==
    \E h \in Handlers : Consider(h) \/ Allow(h) \/ \E c \in Calls : Arrive(h, c)

Over ==
    /\ \A h \in Handlers : handler[h] = "done"
    /\ \A w \in Windows : window[w] \in {"closed", "refused"}
    /\ UNCHANGED vars

Next == (WindowNext \/ HandlerNext \/ Over) /\ UNCHANGED setup

Spec == Init /\ [][Next]_vars

----------------------------------------------------------------------------
RuleNamed(i) == CHOOSE r \in AllRules : r.id = i
Fired(i) == {h \in Handlers : outcome[h] = i}
Faulted == {h \in Handlers : outcome[h] \in Ids}
WindowsOf(i) == {w \in Windows : \E r \in WindowRules(w) : r.id = i}

(* A fault whose path was read hits what its glob names and, without a      *)
(* glob, spares system paths, whatever rules stand before or after it.      *)
FaultsHitTheirTarget ==
    \A h \in Faulted :
        LET r == RuleNamed(outcome[h])
        IN  PathOf(req[h]) # "" =>
              IF r.glob = "none" THEN req[h].path # "system" ELSE req[h].path = r.glob

(* However handlers race for a rule's counter, nth=N fires on one call only *)
(* and after=N spares exactly the first N matching calls.                   *)
RuleTriggersAreExact ==
    \A r \in AllRules :
        r.prob = "one" =>
          LET fires == Cardinality(Fired(r.id))
          IN  /\ r.trigger = "nth" => fires = (IF counter[r.id] >= r.n THEN 1 ELSE 0)
              /\ r.trigger = "after" =>
                   fires = (IF counter[r.id] > r.n THEN counter[r.id] - r.n ELSE 0)

(* Of the occurrences a plan leaf pins for a rule, exactly those fire that  *)
(* its vector says, in whatever order handlers reach the rule.              *)
LeafVectorIsRealised ==
    \A r \in AllRules :
        LET k == occurrences[r.id]
        IN  Vector(r) # <<>> /\ k <= Len(Vector(r)) =>
              Cardinality(Fired(r.id)) = Cardinality({i \in 1..k : Vector(r)[i]})

(* A rule fires on exactly the calls its trigger or its plan leaf says,     *)
(* however handlers race for its counters (ShouldFire of fault.go).         *)
TriggersAreExact == RuleTriggersAreExact /\ LeafVectorIsRealised

(* Faults follow their windows.  A dynamic fault only hits a syscall whose  *)
(* handler looked its rules up while the fault's window was under way,      *)
(* overlapping windows included, or after a scenario was refused halfway.   *)
(* While windows do not overlap, a window's rules are installed from the    *)
(* start of its callback until it is removed; of a scenario that applies    *)
(* several rule sets to one service these are the rules of the last one.    *)
FaultsFollowWindows ==
    /\ \A h \in Faulted :
          WindowsOf(outcome[h]) # {} => WindowsOf(outcome[h]) \cap arrival[h] # {}
    /\ \A w \in Windows :
          window[w] \in {"open", "reported"} /\ ~setup.overlap =>
              DynamicRules = RulesOf[w][Len(RulesOf[w])]
=============================================================================
