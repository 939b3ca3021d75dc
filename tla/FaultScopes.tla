---------------------------- MODULE FaultScopes ----------------------------
(***************************************************************************)
(* From the text of a spec to the faults in force.  A spec is loaded       *)
(* (fault_assumption, fault_scenario, fault_matrix), its tests are         *)
(* discovered, and for every service the system calls to intercept are     *)
(* found by scanning the text, before anything runs.  The tests then open  *)
(* and close windows - fault(), fault_all(), fault_start(), trace(), an    *)
(* assumption, a scenario - and each window is refused, skipped or put in  *)
(* force (internal/star: runtime.go, builtins.go, spec_statements.go).     *)
(*                                                                         *)
(* Text is a sequence of lines, a line a sequence of atoms: a name or one  *)
(* punctuation character.  A test name is the sequence of its words, which *)
(* the code joins with "_".                                                *)
(***************************************************************************)
EXTENDS Integers, Sequences, SequencesExt, FiniteSets

CONSTANT Specs      \* the specs to load

VARIABLES
    spec,           \* the loaded file
    phase,          \* "load", "idle", "test", "over" or "invalid"
    at,             \* declarations executed
    objs,           \* variable -> FaultAssumptionDef
    assumptions,    \* rt.faultAssumptions: name -> FaultAssumptionDef
    scenarios,      \* rt.faultScenarios: name -> FaultScenarioDef
    specMonitors,   \* rt.specMonitors
    probes,         \* rt.scenarios: name -> body
    queue,          \* the discovered tests still to run
    cur,            \* the test being run
    stack,          \* its open windows, innermost last
    raised,         \* an error is unwinding the windows
    session,        \* service -> "none", "nil" (no seccomp) or "live"
    filter,         \* service -> system calls the kernel notifies about
    rules,          \* service -> rules in force (Session.dynamicRules)
    proxied,        \* interface -> rules on its proxy
    monitors,       \* subscribed monitors, with the depth of their window
    events,         \* what the running test logged
    refused,        \* the calls refused as not filterable
    broke,          \* some proxy could not be started
    results         \* test -> outcome and what was asked of it

vars == <<spec, phase, at, objs, assumptions, scenarios, specMonitors, probes, queue, cur,
          stack, raised, session, filter, rules, proxied, monitors, events,
          refused, broke, results>>

loadVars == <<at, objs, assumptions, scenarios, specMonitors, probes>>
testVars == <<cur, stack, raised, session, filter, rules, proxied, monitors, events,
              refused, broke, results>>

Services == DOMAIN spec.kind
NoTest == [name |-> <<"none">>, what |-> "none"]

Init ==
    /\ spec \in Specs
    /\ phase = "load" /\ at = 0
    /\ objs = <<>> /\ assumptions = <<>> /\ scenarios = <<>>
    /\ specMonitors = spec.monitors /\ probes = <<>>
    /\ queue = {} /\ cur = NoTest /\ stack = <<>> /\ raised = FALSE
    /\ session = [s \in Services |-> "none"]
    /\ filter = [s \in Services |-> {}]
    /\ rules = [s \in Services |-> {}]
    /\ proxied = [i \in spec.ifaces |-> {}]
    /\ monitors = {} /\ events = {} /\ refused = {} /\ broke = FALSE
    /\ results = <<>>

-----------------------------------------------------------------------------
(* Loading. *)

Put(f, k, v) == [x \in DOMAIN f \cup {k} |-> IF x = k THEN v ELSE f[x]]

Family(sc) ==
    CASE sc = "write" -> {"write", "writev", "pwrite64"}
      [] sc = "fsync" -> {"fsync", "fdatasync"}
      [] OTHER -> {sc}

Faultable == {"write", "writev", "pwrite64", "fsync", "fdatasync", "connect"}

IsOp(s, key) == key \in DOMAIN spec.ops[s]

(* The rules of one keyword of fault_assumption(): named operation first,   *)
(* then family or system call.                                              *)
KeywordRules(s, key, by) ==
    LET named == IF IsOp(s, key) THEN spec.ops[s][key] ELSE {key}
    IN  SetToSeq({[svc |-> s, sys |-> e, by |-> by] : e \in UNION {Family(sc) : sc \in named}})

ClaimMonitor(ms) == specMonitors' = specMonitors \ ms

(* fault_assumption(): its own rules in any order of the keywords, then     *)
(* the children's.                                                          *)
BuiltinFaultAssumption(d) ==
    IF d.keys # {} /\ spec.kind[d.svc] = "remote"
    THEN phase' = "invalid" /\ UNCHANGED <<objs, assumptions, scenarios, specMonitors, probes>>
    ELSE \E order \in SetToSeqs(d.keys) :
           LET own  == FlattenSeq([i \in DOMAIN order |-> KeywordRules(d.svc, order[i], d.id)])
               kids == [i \in DOMAIN d.children |-> objs[d.children[i]]]
               def  == [name  |-> d.name,
                        rules |-> own \o FlattenSeq([i \in DOMAIN kids |-> kids[i].rules]),
                        proxy |-> [i \in DOMAIN d.proxy |-> [iface |-> d.proxy[i], by |-> d.id]]
                                  \o FlattenSeq([i \in DOMAIN kids |-> kids[i].proxy]),
                        mons  |-> d.mons \cup UNION {kids[i].mons : i \in DOMAIN kids}]
           IN  /\ objs' = Put(objs, d.id, def)
               /\ assumptions' = Put(assumptions, d.name, def)
               /\ ClaimMonitor(d.mons)
               /\ UNCHANGED <<phase, scenarios, probes>>

BuiltinFaultScenario(d) ==
    /\ scenarios' = Put(scenarios, d.name,
          [faults |-> [i \in DOMAIN d.faults |-> objs[d.faults[i]]], expect |-> d.expect,
           mons |-> d.mons, body |-> d.body, require |-> FALSE, cell |-> <<>>])
    /\ ClaimMonitor(d.mons)
    /\ UNCHANGED <<phase, objs, assumptions, probes>>

(* Whether exclude= or overrides= names the cell: by the two names. *)
Listed(list, p) ==
    <<p[1].name, objs[p[2]].name>> \in {<<x[1], objs[x[2]].name>> : x \in list}

(* The cells of a matrix, in the order they are generated. *)
CellsOf(d) ==
    LET pairs == FlattenSeq([i \in DOMAIN d.scs |->
                    [j \in DOMAIN d.faults |-> <<d.scs[i], d.faults[j]>>]])
    IN  SelectSeq(pairs, LAMBDA p : ~Listed(d.exclude, p))

CellName(p) == <<"matrix">> \o p[1].name \o objs[p[2]].name

ExpectOf(d, p) == IF Listed(d.override, p) THEN "override" ELSE d.expect

CellDef(d, p) ==
    [faults |-> <<objs[p[2]]>>, expect |-> ExpectOf(d, p), mons |-> d.mons,
     body |-> p[1].body, require |-> d.require, cell |-> <<p[1].name, objs[p[2]].name>>]

BuiltinFaultMatrix(d) ==
    LET cells == CellsOf(d)
        named(n) == {i \in DOMAIN cells : CellName(cells[i]) = n}
        names == {CellName(cells[i]) : i \in DOMAIN cells}
        last(n) == cells[CHOOSE i \in named(n) : \A j \in named(n) : j <= i]
    IN  /\ scenarios' = [n \in DOMAIN scenarios \cup names |->
                           IF n \in names THEN CellDef(d, last(n)) ELSE scenarios[n]]
        /\ ClaimMonitor(d.mons)
        /\ UNCHANGED <<phase, objs, assumptions, probes>>

BuiltinScenario(d) ==
    /\ probes' = Put(probes, d.name, d.body)
    /\ UNCHANGED <<phase, objs, assumptions, scenarios, specMonitors>>

Declare ==
    /\ phase = "load" /\ at < Len(spec.decls)
    /\ at' = at + 1
    /\ LET d == spec.decls[at + 1]
       IN  \/ d.op = "assumption" /\ BuiltinFaultAssumption(d)
           \/ d.op = "scenario" /\ BuiltinFaultScenario(d)
           \/ d.op = "matrix" /\ BuiltinFaultMatrix(d)
           \/ d.op = "probe" /\ BuiltinScenario(d)
    /\ UNCHANGED <<spec, queue, testVars>>

(* DiscoverTests: a function test_<name> hides a scenario() of that name,   *)
(* and both hide a fault_scenario.                                          *)
DiscoverTests ==
    /\ phase = "load" /\ at = Len(spec.decls)
    /\ LET fns == DOMAIN spec.bodies
           happy == DOMAIN probes \ fns
       IN  queue' = {[name |-> n, what |-> "body"] : n \in fns}
                    \cup {[name |-> n, what |-> "probe"] : n \in happy}
                    \cup {[name |-> n, what |-> "scenario"] : n \in DOMAIN scenarios \ (fns \cup happy)}
    /\ phase' = "idle"
    /\ UNCHANGED <<spec, loadVars, testVars>>

-----------------------------------------------------------------------------
(* What to intercept: the scan of the text. *)

(* stripComment; a "#" between quotes is no comment. *)
StripComment(line) ==
    LET quoted(i) == Len(SelectSeq(SubSeq(line, 1, i - 1), LAMBDA a : a = "'")) % 2 = 1
        marks == {i \in DOMAIN line : line[i] = "#" /\ ~quoted(i)}
    IN  IF marks = {} THEN line
        ELSE SubSeq(line, 1, (CHOOSE i \in marks : \A j \in marks : i <= j) - 1)

(* One pass over a line: the depth of brackets, the text without blanks. *)
FoldLine(acc, line) ==
    FoldLeft(LAMBDA a, c :
                [a EXCEPT !.depth = IF c \in {"(", "[", "{"} THEN @ + 1
                                    ELSE IF c \in {")", "]", "}"} /\ @ > 0 THEN @ - 1 ELSE @,
                          !.cur = IF c = " " THEN @ ELSE Append(@, c)],
             acc, line)

FoldedKeepsComments(acc, line) ==
    LET a == FoldLine(acc, line)
    IN  IF a.depth = 0 /\ a.cur # <<>>
        THEN [a EXCEPT !.out = Append(@, a.cur), !.cur = <<>>] ELSE a

(* A statement ends with a line that closes every bracket. *)
Folded(acc, line) ==
    LET a == FoldLine(acc, StripComment(line))
    IN  IF a.depth = 0 /\ a.cur # <<>>
        THEN [a EXCEPT !.out = Append(@, a.cur), !.cur = <<>>] ELSE a

SpecStatements(lines) ==
    LET a == FoldLeft(Folded, [depth |-> 0, cur |-> <<>>, out |-> <<>>], lines)
    IN  IF a.cur = <<>> THEN a.out ELSE Append(a.out, a.cur)

HasText(s, sub) == \E i \in 0..(Len(s) - Len(sub)) : SubSeq(s, i + 1, i + Len(sub)) = sub

VarsOf(s) == spec.vars[s] \cup {s}

FaultsKey(st, key) == HasText(st, <<key, "=", "deny", "(">>)

(* What one statement asks of service s, called v in the text. *)
ScanFault(st, s, v) ==
    IF HasText(st, <<"fault", "(", v, ",">>) \/ HasText(st, <<"fault_start", "(", v, ",">>)
    THEN {sc \in Faultable : FaultsKey(st, sc)}
         \cup UNION {spec.ops[s][o] : o \in {o \in DOMAIN spec.ops[s] : FaultsKey(st, o)}}
    ELSE {}

ScanTrace(st, v) ==
    IF HasText(st, <<"trace", "(", v, ",">>) \/ HasText(st, <<"trace_start", "(", v, ",">>)
    THEN {sc \in Faultable : HasText(st, <<"'", sc, "'">>)} ELSE {}

RequiredSyscallsForService(s) ==
    LET sts    == ToSet(SpecStatements(spec.text))
        seen   == UNION {ScanFault(st, s, v) \cup ScanTrace(st, v) : st \in sts, v \in VarsOf(s)}
        timed  == IF spec.virtual THEN seen \cup {"nanosleep", "clock_gettime"} ELSE seen
        strict == IF spec.l1 /\ timed # {} THEN timed \cup {"clock_gettime", "connect"} ELSE timed
        union  == {r.sys : r \in {r \in UNION {ToSet(assumptions[n].rules) : n \in DOMAIN assumptions}
                                    : r.svc = s}}
    IN  UNION {Family(sc) : sc \in strict \cup union}

(* Launching a service.  A container without a filter gets no session. *)
LaunchedSession(s, required) ==
    CASE spec.kind[s] = "binary" -> "live"
      [] spec.kind[s] = "container" -> IF required = {} THEN "nil" ELSE "live"
      [] OTHER -> "nil"

-----------------------------------------------------------------------------
(* Windows.  todo: rule sets still to apply, as sets (a map's services, any *)
(* order) in sequence; svcs and ifaces: what a deferred call will clean up; *)
(* held and pheld: applied, but the deferred call is not registered yet.    *)

Frame(kind, by, todo, pend, mons, body) ==
    [kind |-> kind, by |-> by, todo |-> todo, pend |-> pend, mons |-> mons, body |-> body,
     svcs |-> {}, held |-> {}, ifaces |-> {}, pheld |-> {}, asked |-> {}, touched |-> FALSE]

Top == stack[Len(stack)]
Replace(f) == stack' = [stack EXCEPT ![Len(stack)] = f]
Depth == Len(stack)

(* faultsByService of an assumption: for each system call the last rule. *)
FaultsByService(rs) ==
    LET on(s) == {i \in DOMAIN rs : rs[i].svc = s}
        wins(i) == \A j \in on(rs[i].svc) : rs[j].sys = rs[i].sys => j <= i
    IN  {[svc |-> s, shape |-> "assumption",
          faults |-> {[sys |-> rs[i].sys, by |-> rs[i].by] : i \in {i \in on(s) : wins(i)}}]
           : s \in {rs[i].svc : i \in DOMAIN rs}}

(* The faults of a call in a test body.  Only fault() resolves operations. *)
FaultsOf(c, s) ==
    {[sys |-> sc, by |-> c.id] :
        sc \in UNION {IF c.op = "fault" /\ IsOp(s, k) THEN spec.ops[s][k] ELSE {k} : k \in c.keys}}

RulesOf(faults) == UNION {{[sys |-> e, by |-> f.by] : e \in Family(f.sys)} : f \in faults}

(* makeFaultScenarioRunner: monitors first, the assumptions one by one. *)
ScenarioFrame(n) ==
    LET fs == scenarios[n]
    IN  Frame("scenario", n, [i \in DOMAIN fs.faults |-> FaultsByService(fs.faults[i].rules)],
              FlattenSeq([i \in DOMAIN fs.faults |-> fs.faults[i].proxy]), {}, fs.body)

ScenarioMonitors(n) ==
    scenarios[n].mons
    \cup UNION {scenarios[n].faults[i].mons : i \in DOMAIN scenarios[n].faults}

StartTest(t) ==
    /\ phase = "idle" /\ t \in queue
    /\ phase' = "test" /\ cur' = t /\ queue' = queue \ {t}
    /\ LET req == [s \in Services |-> RequiredSyscallsForService(s)]
           fresh == {s \in Services : session[s] = "none"}
           f == IF t.what = "scenario" THEN ScenarioFrame(t.name)
                ELSE Frame("body", t.name, <<>>, <<>>, {},
                           IF t.what = "body" THEN spec.bodies[t.name] ELSE probes[t.name])
       IN  /\ session' = [s \in Services |->
                            IF s \in fresh THEN LaunchedSession(s, req[s]) ELSE session[s]]
           /\ filter' = [s \in Services |-> IF s \in fresh THEN req[s] ELSE filter[s]]
           /\ stack' = <<f>>
           /\ monitors' = {<<0, m>> : m \in specMonitors}
                \cup (IF t.what = "scenario" THEN {<<1, m>> : m \in ScenarioMonitors(t.name)} ELSE {})
    /\ events' = {} /\ raised' = FALSE
    /\ UNCHANGED <<spec, loadVars, rules, proxied, refused, broke, results>>

Working == phase = "test" /\ stack # <<>> /\ ~raised

(* FiltersSyscall: launching adds openat to a filter with open. *)
FiltersSyscall(s, sc) == sc \in filter[s] \/ (sc = "openat" /\ "open" \in filter[s])

UncoveredSyscalls(s, rs) == {sc \in {r.sys : r \in rs} : ~FiltersSyscall(s, sc)}

(* applyFaults: what becomes of a rule set, and applyTrace, which does not  *)
(* ask whether the calls are intercepted.                                   *)
Verdict(s, rs, tracing) ==
    CASE ~tracing /\ spec.kind[s] = "remote" /\ rs # {} -> "error"
      [] session[s] = "none" -> "error"
      [] session[s] = "nil" -> "skipped"
      [] ~tracing /\ UncoveredSyscalls(s, rs) # {} -> "refused"
      [] OTHER -> "applied"

ApplyFaults(c, tracing) ==
    LET rs == RulesOf(c.faults)
        v  == Verdict(c.svc, rs, tracing)
    IN  /\ rules' = IF v = "applied" THEN [rules EXCEPT ![c.svc] = rs] ELSE rules
        /\ events' = IF v = "skipped" /\ ~tracing THEN events \cup {"skipped"} ELSE events
        /\ refused' = IF v = "refused" THEN refused \cup {[svc |-> c.svc, shape |-> c.shape]}
                      ELSE refused
        /\ raised' = (v \in {"error", "refused"})

(* The next rule set of the innermost window.  A scenario registers its     *)
(* clean-up only after its last rule set, the others one by one.            *)
ApplyNext ==
    /\ Working /\ Top.todo # <<>>
    /\ IF Head(Top.todo) = {}
       THEN Replace([Top EXCEPT !.todo = Tail(@)]) /\ UNCHANGED <<rules, events, refused, raised>>
       ELSE \E c \in Head(Top.todo) :
              /\ ApplyFaults(c, Top.kind = "trace")
              /\ LET f == [Top EXCEPT !.todo[1] = @ \ {c},
                                      !.asked = {a \in @ : a.svc # c.svc} \cup {c}]
                 IN  Replace(IF raised' THEN Top
                             ELSE IF Top.kind = "scenario" THEN [f EXCEPT !.held = @ \cup {c.svc}]
                             ELSE [f EXCEPT !.svcs = @ \cup {c.svc}])
    /\ UNCHANGED <<spec, phase, loadVars, queue, cur, session, filter, proxied, monitors,
                   broke, results>>

(* The proxy rules of an assumption: start the proxy, add the rule.  Here   *)
(* every kind registers its clean-up after the last rule.                   *)
AddProxyRule ==
    /\ Working /\ Top.todo = <<>> /\ Top.pend # <<>>
    /\ LET p == Head(Top.pend)
           refusedHere == Top.kind = "assumption" /\ p.iface \in spec.disabled
           settled == [Top EXCEPT !.svcs = @ \cup Top.held, !.held = {}]
       IN  \/ /\ refusedHere \/ p.iface \in spec.unstartable
              /\ raised' = TRUE /\ broke' = TRUE
              /\ Replace(settled) /\ UNCHANGED proxied
           \/ /\ ~refusedHere /\ p.iface \notin spec.unstartable
              /\ proxied' = [proxied EXCEPT ![p.iface] = @ \cup {p.by}]
              /\ Replace([settled EXCEPT !.pend = Tail(@), !.pheld = @ \cup {p.iface}])
              /\ UNCHANGED <<raised, broke>>
    /\ UNCHANGED <<spec, phase, loadVars, queue, cur, session, filter, rules, monitors,
                   events, refused, results>>

(* fault(assumption) registers its monitors last, a scenario at its start. *)
RegisterMonitors ==
    /\ Working /\ Top.todo = <<>> /\ Top.pend = <<>> /\ Top.mons # {}
    /\ monitors' = monitors \cup {<<Depth, m>> : m \in Top.mons}
    /\ Replace([Top EXCEPT !.mons = {}])
    /\ UNCHANGED <<spec, phase, loadVars, queue, cur, raised, session, filter, rules, proxied,
                   events, refused, broke, results>>

InBody == Working /\ Top.todo = <<>> /\ Top.pend = <<>> /\ Top.mons = {}

(* The window as it is while its body runs: every clean-up registered. *)
Settled == [Top EXCEPT !.svcs = @ \cup Top.held, !.held = {},
                       !.ifaces = @ \cup Top.pheld, !.pheld = {}]

Target(c, s) == [svc |-> s, shape |-> c.shape, faults |-> FaultsOf(c, s)]

FaultWindow(c) == Frame("fault", c.id, <<{Target(c, c.svcs[1])}>>, <<>>, {}, c.body)

FaultAllWindow(c) ==
    Frame("fault_all", c.id, [i \in DOMAIN c.svcs |-> {Target(c, c.svcs[i])}], <<>>, {}, c.body)

TraceWindow(c) == Frame("trace", c.id, <<{Target(c, c.svcs[1])}>>, <<>>, {}, c.body)

AssumptionWindow(c) ==
    LET obj == objs[c.obj]
    IN  Frame("assumption", c.id, <<FaultsByService(obj.rules)>>, obj.proxy, obj.mons, c.body)

(* Only fault() checks its keywords. *)
UnknownKeyword(c) ==
    c.op = "fault" /\ \E k \in c.keys : ~IsOp(c.svcs[1], k) /\ k \notin Faultable

(* A window is opened inside the body. *)
OpenWindow ==
    /\ InBody /\ Top.body # <<>>
    /\ LET c == Head(Top.body)
           next == [Settled EXCEPT !.body = Tail(@), !.touched = TRUE]
           push(f) == stack' = Append([stack EXCEPT ![Depth] = next], f)
       IN  /\ c.op \in {"fault", "fault_all", "trace", "assume"}
           /\ raised' = UnknownKeyword(c)
           /\ IF UnknownKeyword(c) THEN Replace(next)
              ELSE \/ c.op = "fault" /\ push(FaultWindow(c))
                   \/ c.op = "fault_all" /\ push(FaultAllWindow(c))
                   \/ c.op = "trace" /\ push(TraceWindow(c))
                   \/ c.op = "assume" /\ push(AssumptionWindow(c))
    /\ UNCHANGED <<spec, phase, loadVars, queue, cur, session, filter, rules, proxied,
                   monitors, events, refused, broke, results>>

FaultStart(c) == ApplyFaults(Target(c, c.svcs[1]), FALSE)

TraceStart(c) == ApplyFaults(Target(c, c.svcs[1]), TRUE)

(* fault_stop, which reports rules without traffic, and trace_stop. *)
FaultStop(c) ==
    /\ rules' = [rules EXCEPT ![c.svcs[1]] = {}]
    /\ \/ UNCHANGED events
       \/ rules[c.svcs[1]] # {} /\ events' = events \cup {"zero_traffic"}
    /\ UNCHANGED <<refused, raised>>

TraceStop(c) ==
    rules' = [rules EXCEPT ![c.svcs[1]] = {}] /\ UNCHANGED <<events, refused, raised>>

(* The other calls of a body; a step may fail its assertion. *)
BodyStep ==
    /\ InBody /\ Top.body # <<>>
    /\ LET c == Head(Top.body)
       IN  /\ \/ c.op = "fault_start" /\ FaultStart(c)
              \/ c.op = "trace_start" /\ TraceStart(c)
              \/ c.op = "fault_stop" /\ FaultStop(c)
              \/ c.op = "trace_stop" /\ TraceStop(c)
              \/ c.op = "step" /\ raised' \in BOOLEAN /\ UNCHANGED <<rules, events, refused>>
           /\ Replace([Settled EXCEPT !.body = Tail(@), !.touched = @ \/ c.op # "step"])
    /\ UNCHANGED <<spec, phase, loadVars, queue, cur, session, filter, proxied, monitors,
                   broke, results>>

(* The deferred calls of the innermost window, on return or on an error:    *)
(* removeFaults reports the rules without traffic and clears them.          *)
CleanUp(f, idle) ==
    /\ rules' = [s \in Services |-> IF s \in f.svcs THEN {} ELSE rules[s]]
    /\ proxied' = [i \in spec.ifaces |-> IF i \in f.ifaces THEN {} ELSE proxied[i]]
    /\ events' = IF f.kind # "trace" /\ \E s \in f.svcs \cap idle : rules[s] # {}
                 THEN events \cup {"zero_traffic"} ELSE events
    /\ monitors' = {m \in monitors : m[1] # Depth}

CloseWindow ==
    /\ phase = "test" /\ stack # <<>>
    /\ raised \/ (InBody /\ Top.body = <<>>)
    /\ LET f == IF raised THEN Top ELSE Settled
       IN  /\ \E idle \in SUBSET f.svcs : CleanUp(f, idle)
           /\ \/ UNCHANGED raised
              \/ /\ f.kind = "scenario"
                 /\ scenarios[f.by].expect # "none" \/ monitors # {}
                 /\ raised' = TRUE
    /\ stack' = Front(stack)
    /\ UNCHANGED <<spec, phase, loadVars, queue, cur, session, filter, refused, broke, results>>

Required == cur.what = "scenario" /\ scenarios[cur.name].require

(* The verdict of the test, then stopServices: a reused service keeps its   *)
(* session and its proxies, and loses its rules.                            *)
EndTest ==
    /\ phase = "test" /\ stack = <<>>
    /\ results' = Put(results, cur.name,
          [outcome |-> IF raised THEN "fail"
                       ELSE IF Required /\ "zero_traffic" \in events THEN "bypassed" ELSE "pass",
           require |-> Required, skipped |-> "skipped" \in events,
           cell    |-> IF cur.what = "scenario" THEN scenarios[cur.name].cell ELSE <<>>,
           expect  |-> IF cur.what = "scenario" THEN scenarios[cur.name].expect ELSE "none"])
    /\ session' = [s \in Services |-> IF s \in spec.reuse THEN session[s] ELSE "none"]
    /\ filter' = [s \in Services |-> IF s \in spec.reuse THEN filter[s] ELSE {}]
    /\ rules' = [s \in Services |-> {}]
    /\ proxied' = [i \in spec.ifaces |-> IF spec.owner[i] \in spec.reuse THEN proxied[i] ELSE {}]
    /\ monitors' = {m \in monitors : m[1] # 0}
    /\ phase' = IF queue = {} THEN "over" ELSE "idle"
    /\ cur' = NoTest /\ raised' = FALSE /\ events' = {}
    /\ UNCHANGED <<spec, loadVars, queue, stack, refused, broke>>

Next ==
    \/ Declare \/ DiscoverTests
    \/ \E t \in queue : StartTest(t)
    \/ ApplyNext \/ AddProxyRule \/ RegisterMonitors \/ OpenWindow \/ BodyStep \/ CloseWindow \/ EndTest

Spec == Init /\ [][Next]_vars

-----------------------------------------------------------------------------
(* A fault fires or is refused (applyFaults, uncoveredSyscalls): every rule *)
(* in force that injects a fault names a system call the kernel notifies    *)
(* about; and a fault is never refused when the call spells out its target  *)
(* and its system call, however it is laid out.                             *)
FaultsFireOrFail ==
    /\ \A s \in Services : \A r \in rules[s] :
          r.by \notin spec.traces => FiltersSyscall(s, r.sys)
    /\ \A r \in refused : r.shape \notin {"direct", "split", "spaced", "comment", "assumption"}

(* While the body of a window runs, and until something in it touches the   *)
(* rules again, each service it faults has exactly the rules last asked     *)
(* for it, unless the service has no seccomp session.                       *)
WindowsAreInForce ==
    InBody /\ ~Top.touched =>
        \A a \in Top.asked : session[a.svc] = "live" => rules[a.svc] = RulesOf(a.faults)

(* Windows leave nothing behind (removeFaults, UnregisterMonitor,           *)
(* stopServices): a monitor is subscribed only while its window is open or  *)
(* its test runs, a claimed monitor never spec-wide; between tests no       *)
(* rule is in force, and a proxy keeps a rule only after some proxy of a    *)
(* scenario could not be started.                                           *)
NothingOutlivesItsWindow ==
    /\ \A m \in monitors : m[1] <= Depth /\ (m[1] = 0 => m[2] \in specMonitors)
    /\ phase \in {"idle", "over"} =>
          /\ monitors = {}
          /\ \A s \in Services : rules[s] = {}
          /\ ~broke => \A i \in spec.ifaces : proxied[i] = {}

(* A matrix runs every cell it does not exclude, with its own expectation   *)
(* (builtinFaultMatrix, DiscoverTests), when no other test has its name.    *)
MatrixIsComplete ==
    phase = "over" =>
        \A k \in DOMAIN spec.decls :
            LET d == spec.decls[k]
            IN  d.op = "matrix" =>
                  \A i \in DOMAIN CellsOf(d) :
                      LET p == CellsOf(d)[i]
                          n == CellName(p)
                          shared == \/ n \in DOMAIN spec.bodies
                                    \/ \E j \in DOMAIN CellsOf(d) : j # i /\ CellName(CellsOf(d)[j]) = n
                      IN  ~shared => /\ n \in DOMAIN results
                                     /\ results[n].cell = <<p[1].name, objs[p[2]].name>>
                                     /\ results[n].expect = ExpectOf(d, p)

(* Faults are what the text says they are. *)
ScopesAreHonest ==
    FaultsFireOrFail /\ WindowsAreInForce /\ NothingOutlivesItsWindow /\ MatrixIsComplete

(* A test that requires its faults to fire does not pass with a fault that  *)
(* was skipped: the detector of bypassed faults is to treat a skipped one   *)
(* like one without traffic (applyFaults, the comment on its event).        *)
SkippedIsNotAPass ==
    \A n \in DOMAIN results :
        results[n].require /\ results[n].skipped => results[n].outcome # "pass"
=============================================================================
