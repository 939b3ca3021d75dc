------------------------------ MODULE TestRun ------------------------------
(***************************************************************************)
(* One runtime executing tests one after the other (runTestImpl of         *)
(* star/runtime.go) and the verdict each of them gets.  The body runs in a  *)
(* goroutine of its own; services keep emitting events while it runs; the   *)
(* subscribers of the event log (spec monitors, the always watcher, the     *)
(* terminate_when watcher) run on the emitting goroutine, after the event   *)
(* is appended and outside the log's lock; the test goroutine selects over  *)
(* the body's outcome, the two watchers and the deadline, then stops the    *)
(* services and decides.                                                    *)
(*                                                                          *)
(* A trace predicate sees the whole log.  An event is one of "good" (what   *)
(* eventually() waits for), "bad" (what always() and the monitor forbid),   *)
(* "stop" (what terminate_when waits for), "open" and "close" (the anchors  *)
(* of between=) and "plain".                                                *)
(***************************************************************************)
EXTENDS Naturals, Sequences, FiniteSets, Functions

CONSTANT Configs    \* the test declarations to run: see ConfigType

Kinds == {"always", "eventually"}
Finished == {"returned", "raised", "halted", "panicked"}

ConfigType ==
    [expect : Kinds \cup {"none"},      \* the object given as expect=
     declares : SUBSET Kinds,           \* the expectations the body declares
     from : {"start", "open"}, to : {"none", "close", "bodyEnd"},
     terminate : BOOLEAN, monitor : BOOLEAN,
     monotone : BOOLEAN,    \* predicates look at the whole log, or at its last event
     reused : BOOLEAN,      \* the services survive the test (reuse=True)
     mortal : BOOLEAN,      \* a supervisor may die
     outcomes : SUBSET Finished,   \* how the body may end
     events : SUBSET {"good", "bad", "stop", "open", "close", "plain"},
     maxEvents : Nat,       \* bound on the events of one run
     emitters : Nat,        \* bound on the emissions under way at once
     runs : Nat]            \* bound on the runs of the test on this runtime

ASSUME ConfigAssumption == Configs \subseteq ConfigType

VARIABLES
    cfg,            \* the declaration under test
    run,            \* how many runs were started
    pc,             \* where the test goroutine is
    log,            \* the event log of this run
    subs,           \* its subscribers, in the order they are called
    inflight,       \* emissions under way: the run and place of the event, the
                    \* event, what is left to call, and the run it belongs to
    registered,     \* rt.temporalExpectations
    always,         \* the AlwaysExpectation: windowStarted, windowEnded, violated
    eventually,     \* the EventuallyExpectation: satisfied
    terminateWhen,  \* the terminate_when expectation: satisfied
    alwaysFired, twFired, timedOut,   \* the closed channels and the deadline
    body,           \* the body goroutine
    bo,             \* the outcome the test goroutine took from it
    cause,          \* TerminationCause
    monitorErrors,  \* rt.monitorErrors: the runs whose events they are about
    supervisorDead, \* a supervisor left a running service behind
    supervisorErr,  \* what supervisorFailure() returned before teardown
    stopErr,        \* a service_stop_error is in this run's events
    shutdownFailed, \* rt.shutdownFailed
    result, reason, \* the TestResult, and which check produced it
    seen,           \* history: what had happened when the test goroutine left
                    \* its select (violation) and began teardown (dead)
    begun,          \* history: what the declaration's objects knew when the run
                    \* began, and how long the log was when the monitors came
    judged          \* history: the log and the monitor errors of the verdict

vars == <<cfg, run, pc, log, subs, inflight, registered, always, eventually,
          terminateWhen, alwaysFired, twFired, timedOut, body, bo, cause,
          monitorErrors, supervisorDead, supervisorErr, stopErr, shutdownFailed,
          result, reason, seen, begun, judged>>

expectationVars == <<registered, always, eventually, terminateWhen>>
signalVars == <<alwaysFired, twFired>>
healthVars == <<supervisorDead, supervisorErr, stopErr, shutdownFailed>>
verdictVars == <<result, reason, seen, begun, judged>>

BodyErrors == {"raised", "halted", "panicked"}

NothingSeen == [violation |-> FALSE, dead |-> FALSE]
FirstRun == [violated |-> FALSE, satisfied |-> FALSE, terminated |-> FALSE, since |-> 0]
Unjudged == [log |-> <<>>, errors |-> {}]
Knowledge == [violated |-> always.violated, satisfied |-> eventually,
              terminated |-> terminateWhen, since |-> 0]

NewAlways == [started |-> FALSE, ended |-> FALSE, violated |-> FALSE]

(* What the predicates of the spec say of a log. *)
Holds(v, l) == IF cfg.monotone THEN v \in Range(l) ELSE l # <<>> /\ l[Len(l)] = v
Matched(v, l) == v \in Range(l)

----------------------------------------------------------------------------
(* The expectations *)

(* AlwaysExpectation.Evaluate: a violation sticks; the window opens, then   *)
(* closes, then the predicate is consulted.                                 *)
EvaluateAlways(a, l) ==
    LET started == a.started \/ cfg.from = "start" \/ Matched("open", l)
        ended == a.ended \/ (cfg.to = "close" /\ Matched("close", l))
    IN  IF a.violated \/ ~started THEN a
        ELSE [started |-> TRUE, ended |-> ended,
              violated |-> ~ended /\ Holds("bad", l)]

EvaluateEventually(satisfied, l) == satisfied \/ Holds("good", l)
EvaluateTerminateWhen(satisfied, l) == satisfied \/ Matched("stop", l)

(* Finalize of the two expectations, given the termination cause. *)
FinalizeAlways(a, c) ==
    IF a.violated THEN "fail"
    ELSE IF c = "timeout" /\ ~(cfg.to # "none" /\ a.ended) THEN "pending"
    ELSE "pass"

FinalizeEventually(satisfied, c) ==
    IF satisfied THEN "pass" ELSE IF c = "timeout" THEN "pending" ELSE "fail"

(* signalLifecycleAnchor: body_end closes the windows it is the end of.     *)
SignalBodyEnd(a) == [a EXCEPT !.ended = @ \/ ("always" \in registered /\ cfg.to = "bodyEnd")]

----------------------------------------------------------------------------
Init ==
    /\ cfg \in Configs
    /\ run = 0 /\ pc = "idle"
    /\ log = <<>> /\ subs = <<>> /\ inflight = {}
    /\ registered = {}
    /\ always = NewAlways /\ eventually = FALSE /\ terminateWhen = FALSE
    /\ alwaysFired = FALSE /\ twFired = FALSE /\ timedOut = FALSE
    /\ body = "none" /\ bo = "none" /\ cause = "natural"
    /\ monitorErrors = {}
    /\ supervisorDead = FALSE /\ supervisorErr = FALSE
    /\ stopErr = FALSE /\ shutdownFailed = FALSE
    /\ result = "none" /\ reason = "none"
    /\ seen = NothingSeen /\ begun = FirstRun /\ judged = Unjudged

(* A runtime whose teardown failed runs nothing any more. *)
RefuseRun ==
    /\ pc \in {"idle", "done"} /\ run < cfg.runs /\ shutdownFailed
    /\ run' = run + 1 /\ pc' = "done"
    /\ result' = "fail" /\ reason' = "refused" /\ stopErr' = FALSE
    /\ seen' = NothingSeen /\ judged' = Unjudged
    /\ UNCHANGED <<cfg, log, subs, inflight, expectationVars, signalVars, timedOut, body, bo,
                   cause, monitorErrors, supervisorDead, supervisorErr, shutdownFailed, begun>>

(* A reset that leaves the previous run's monitor errors. *)
ResetRunKeepsMonitorErrors ==
    /\ pc \in {"idle", "done"} /\ run < cfg.runs /\ ~shutdownFailed
    /\ run' = run + 1 /\ pc' = "starting"
    /\ log' = <<>> /\ subs' = <<>> /\ registered' = {}
    /\ alwaysFired' = FALSE /\ twFired' = FALSE /\ timedOut' = FALSE
    /\ body' = "none" /\ bo' = "none" /\ cause' = "natural"
    /\ supervisorDead' = FALSE /\ supervisorErr' = FALSE /\ stopErr' = FALSE
    /\ result' = "none" /\ reason' = "none" /\ seen' = NothingSeen /\ judged' = Unjudged
    /\ begun' = Knowledge
    /\ UNCHANGED <<cfg, inflight, always, eventually, terminateWhen, monitorErrors, shutdownFailed>>

(* What every run starts from: a cleared log and subscriber list, no        *)
(* monitor errors, no registered expectation, signals of its own.  An       *)
(* emission of the last run goes on calling the subscribers it has.  The    *)
(* expect= and terminate_when= objects belong to the declaration, which     *)
(* outlives the run.                                                        *)
ResetRun ==
    /\ pc \in {"idle", "done"} /\ run < cfg.runs /\ ~shutdownFailed
    /\ run' = run + 1 /\ pc' = "starting"
    /\ log' = <<>> /\ subs' = <<>> /\ registered' = {} /\ monitorErrors' = {}
    /\ alwaysFired' = FALSE /\ twFired' = FALSE /\ timedOut' = FALSE
    /\ body' = "none" /\ bo' = "none" /\ cause' = "natural"
    /\ supervisorDead' = FALSE /\ supervisorErr' = FALSE /\ stopErr' = FALSE
    /\ result' = "none" /\ reason' = "none" /\ seen' = NothingSeen /\ judged' = Unjudged
    /\ begun' = Knowledge
    /\ UNCHANGED <<cfg, inflight, always, eventually, terminateWhen, shutdownFailed>>

(* stopServices waits for the sessions, hence for the handlers that are     *)
(* still emitting, unless a phase runs into its timeout.  Reused services   *)
(* are left alone.                                                          *)
TearDown ==
    \/ (cfg.reused \/ inflight = {}) /\ UNCHANGED <<stopErr, shutdownFailed>>
    \/ stopErr' = TRUE /\ shutdownFailed' = TRUE

(* A run that never reaches its body: the services failed to start, the     *)
(* setup failed, or assume= raised or was not met.                          *)
EarlyReturn ==
    /\ pc \in {"starting", "setup"} /\ pc' = "done" /\ subs' = <<>>
    /\ TearDown
    /\ \E r \in IF pc = "starting" THEN {"fail"} ELSE {"fail", "error", "halted"} :
          /\ result' = IF stopErr' THEN "fail" ELSE r
          /\ reason' = IF stopErr' THEN "teardown" ELSE "setup"
    /\ UNCHANGED <<cfg, run, log, inflight, expectationVars, signalVars, timedOut, body, bo, cause,
                   monitorErrors, supervisorDead, supervisorErr, seen, begun, judged>>

(* The services are up: the spec's monitors subscribe, expect= is           *)
(* registered, and the setup runs.                                          *)
Subscribe ==
    /\ pc = "starting" /\ pc' = "setup"
    /\ subs' = IF cfg.monitor THEN <<"monitor">> ELSE <<>>
    /\ registered' = {cfg.expect} \ {"none"}
    /\ begun' = [begun EXCEPT !.since = Len(log)]
    /\ UNCHANGED <<cfg, run, log, inflight, always, eventually, terminateWhen, signalVars, timedOut,
                   body, bo, cause, monitorErrors, healthVars, result, reason, seen, judged>>

(* The two watchers subscribe and the body goroutine starts. *)
Start ==
    /\ pc = "setup" /\ pc' = "select" /\ body' = "running"
    /\ subs' = subs \o (IF cfg.terminate THEN <<"always", "terminate">> ELSE <<"always">>)
    /\ UNCHANGED <<cfg, run, log, inflight, expectationVars, signalVars, timedOut, bo, cause,
                   monitorErrors, healthVars, verdictVars>>

----------------------------------------------------------------------------
(* The event log *)

(* The services emit from their start to the end of teardown, and reused    *)
(* ones, and ones a teardown could not stop, beyond it.  (A body that was   *)
(* left behind is taken to be stuck in a call by then.)                     *)
Emitting ==
    \/ pc \in {"starting", "setup", "select", "exitWait", "bodyEnd", "stopping"}
    \/ run > 0 /\ (cfg.reused \/ shutdownFailed)

(* EventLog.emit appends under the lock of the log. *)
Emit(v) ==
    /\ Emitting /\ v \in cfg.events
    /\ Len(log) < cfg.maxEvents /\ Cardinality(inflight) < cfg.emitters
    /\ log' = Append(log, v)
    /\ inflight' = inflight \cup
          {[from |-> run, seq |-> Len(log) + 1, event |-> v, todo |-> <<"copy">>, of |-> run]}
    /\ UNCHANGED <<cfg, run, pc, subs, expectationVars, signalVars, timedOut,
                   body, bo, cause, monitorErrors, healthVars, verdictVars>>

Becomes(d, of, todo) ==
    inflight' = (inflight \ {d}) \cup
                (IF todo = <<>> THEN {} ELSE {[d EXCEPT !.of = of, !.todo = todo]})

(* It then copies the subscribers of the moment, under a lock of theirs,    *)
(* and calls them one after the other under none.                           *)
CopySubscribers(d) ==
    /\ d.todo = <<"copy">>
    /\ Becomes(d, run, subs)
    /\ UNCHANGED <<cfg, run, pc, log, subs, expectationVars, signalVars, timedOut, body, bo, cause,
                   monitorErrors, healthVars, verdictVars>>

(* RegisterMonitor's callback looks at the event it was given; its error    *)
(* goes to the runtime, whatever it runs by now.                            *)
NotifyMonitor(d) ==
    /\ monitorErrors' = monitorErrors \cup (IF d.event = "bad" THEN {d.from} ELSE {})
    /\ UNCHANGED <<expectationVars, signalVars>>

(* The always watcher looks at the expectations and the log as they are by  *)
(* now.  A failure closes the alwaysFired, and cancels the body, of the run *)
(* that subscribed it.                                                      *)
NotifyAlways(d) ==
    /\ IF "always" \in registered
       THEN LET a == EvaluateAlways(always, log)
            IN  always' = a /\ alwaysFired' = (alwaysFired \/ (a.violated /\ d.of = run))
       ELSE UNCHANGED <<always, alwaysFired>>
    /\ UNCHANGED <<registered, eventually, terminateWhen, twFired, monitorErrors>>

NotifyTerminateWhen(d) ==
    /\ terminateWhen' = EvaluateTerminateWhen(terminateWhen, log)
    /\ twFired' = (twFired \/ (terminateWhen' /\ d.of = run))
    /\ UNCHANGED <<registered, eventually, always, alwaysFired, monitorErrors>>

(* The emitting goroutine calls its next subscriber. *)
Dispatch(d) ==
    /\ \/ Head(d.todo) = "monitor" /\ NotifyMonitor(d)
       \/ Head(d.todo) = "always" /\ NotifyAlways(d)
       \/ Head(d.todo) = "terminate" /\ NotifyTerminateWhen(d)
    /\ Becomes(d, d.of, Tail(d.todo))
    /\ UNCHANGED <<cfg, run, pc, log, subs, timedOut, body, bo, cause,
                   healthVars, verdictVars>>

----------------------------------------------------------------------------
(* The body and the world *)

(* bodyCtx is done at the deadline and when a watcher cancels it. *)
BodyCtxDone == timedOut \/ alwaysFired \/ twFired

(* eventually() or always() called by the body registers a fresh object. *)
Declare(k) ==
    /\ body = "running" /\ pc \in {"select", "exitWait", "bodyEnd", "stopping"}
    /\ k \in cfg.declares \ registered
    /\ registered' = registered \cup {k}
    /\ always' = IF k = "always" THEN NewAlways ELSE always
    /\ eventually' = IF k = "eventually" THEN FALSE ELSE eventually
    /\ UNCHANGED <<cfg, run, pc, log, subs, inflight, terminateWhen, signalVars,
                   timedOut, body, bo, cause, monitorErrors, healthVars, verdictVars>>

(* The body goroutine sends its outcome on bodyDone (a buffer of one). *)
FinishBody(o) ==
    /\ body = "running" /\ o \in cfg.outcomes /\ body' = o
    /\ UNCHANGED <<cfg, run, pc, log, subs, inflight, expectationVars, signalVars,
                   timedOut, bo, cause, monitorErrors, healthVars, verdictVars>>

Deadline ==
    /\ pc \in {"select", "exitWait"} /\ ~timedOut
    /\ timedOut' = TRUE
    /\ UNCHANGED <<cfg, run, pc, log, subs, inflight, expectationVars, signalVars,
                   body, bo, cause, monitorErrors, healthVars, verdictVars>>

SupervisorDies ==
    /\ pc \in {"select", "exitWait", "bodyEnd", "stopping"} /\ ~supervisorDead
    /\ cfg.mortal
    /\ supervisorDead' = TRUE
    /\ UNCHANGED <<cfg, run, pc, log, subs, inflight, expectationVars, signalVars,
                   timedOut, body, bo, cause, monitorErrors, supervisorErr, stopErr,
                   shutdownFailed, verdictVars>>

----------------------------------------------------------------------------
(* The test goroutine *)

(* The non-blocking select that classifies the cause: with both signals     *)
(* ready Go picks either one.                                               *)
Drained(default) ==
    IF alwaysFired \/ twFired
    THEN {c \in {"immediateFail", "terminateWhen"} :
             (c = "immediateFail" => alwaysFired) /\ (c = "terminateWhen" => twFired)}
    ELSE {default}

(* The bodyDone arm without the drain. *)
BodyDoneArmUndrained ==
    /\ pc = "select" /\ body \in Finished
    /\ bo' = body /\ cause' = "natural" /\ pc' = "bodyEnd"
    /\ seen' = [seen EXCEPT !.violation = alwaysFired]
    /\ UNCHANGED <<cfg, run, log, subs, inflight, expectationVars, signalVars,
                   timedOut, body, monitorErrors, healthVars, result, reason, begun, judged>>

BodyDoneArm ==
    /\ pc = "select" /\ body \in Finished
    /\ bo' = body /\ pc' = "bodyEnd"
    /\ cause' \in Drained("natural")
    /\ seen' = [seen EXCEPT !.violation = alwaysFired]
    /\ UNCHANGED <<cfg, run, log, subs, inflight, expectationVars, signalVars,
                   timedOut, body, monitorErrors, healthVars, result, reason, begun, judged>>

(* The arms that leave the body behind: a watcher fired, or bodyCtx is done. *)
AwaitExit(causes) ==
    /\ pc = "select" /\ cause' \in causes /\ pc' = "exitWait"
    /\ seen' = [seen EXCEPT !.violation = alwaysFired]
    /\ UNCHANGED <<cfg, run, log, subs, inflight, expectationVars, signalVars,
                   timedOut, body, bo, monitorErrors, healthVars, result, reason, begun, judged>>

AlwaysFiredArm == alwaysFired /\ AwaitExit({"immediateFail"})
TwFiredArm == twFired /\ AwaitExit({"terminateWhen"})

(* A select that forgot the deadline. *)
BodyCtxArmWatchersOnly == (alwaysFired \/ twFired) /\ AwaitExit(Drained("timeout"))

BodyCtxArm == BodyCtxDone /\ AwaitExit(Drained("timeout"))

(* waitBodyExit: the outcome, or after two seconds the zero outcome, which  *)
(* reads as a body that returned.                                           *)
WaitBodyExit ==
    /\ pc = "exitWait" /\ pc' = "bodyEnd"
    /\ \/ body \in Finished /\ bo' = body
       \/ bo' = "leaked"
    /\ UNCHANGED <<cfg, run, log, subs, inflight, expectationVars, signalVars,
                   timedOut, body, cause, monitorErrors, healthVars, verdictVars>>

(* The body_end anchor, the promotion of a raised error, and the look at    *)
(* the supervisors before teardown.                                         *)
EndBody ==
    /\ pc = "bodyEnd" /\ pc' = "stopping"
    /\ always' = SignalBodyEnd(always)
    /\ cause' = IF cause = "natural" /\ bo \in {"raised", "panicked"}
                THEN "immediateFail" ELSE cause
    /\ seen' = [seen EXCEPT !.dead = supervisorDead]
    /\ supervisorErr' = supervisorDead
    /\ UNCHANGED <<cfg, run, log, subs, inflight, registered, eventually,
                   terminateWhen, signalVars, timedOut, body, bo, monitorErrors,
                   supervisorDead, stopErr, shutdownFailed, result, reason, begun, judged>>

StopServices ==
    /\ pc = "stopping" /\ pc' = "decide"
    /\ TearDown
    /\ UNCHANGED <<cfg, run, log, subs, inflight, expectationVars, signalVars,
                   timedOut, body, bo, cause, monitorErrors, supervisorDead,
                   supervisorErr, verdictVars>>

(* The expectations' share of the verdict: the first failure, else a        *)
(* pending one, else the deadline.                                          *)
FinalVerdicts(a, e) ==
    {<<k, IF k = "always" THEN FinalizeAlways(a, cause)
          ELSE FinalizeEventually(e, cause)>> : k \in registered}

ExpectationVerdict(a, e) ==
    LET vs == FinalVerdicts(a, e)
    IN  IF \E k \in Kinds : <<k, "fail">> \in vs
        THEN {<<"fail", k>> : k \in {x \in Kinds : <<x, "fail">> \in vs}}
        ELSE IF cause = "timeout" \/ \E k \in Kinds : <<k, "pending">> \in vs
        THEN {<<"inconclusive", "timeout">>}
        ELSE {<<"pass", "none">>}

(* What the checks in front of the expectations make of the run: a dead     *)
(* supervisor, the body's error, the monitors, and the diagnostics (watch,  *)
(* where=, unwired packet faults, strict determinism), any of which may     *)
(* fail a run.                                                              *)
BodyFailed == bo \in BodyErrors /\ cause \notin {"timeout", "terminateWhen"}

BodyVerdict ==
    IF bo = "halted" /\ cause = "natural" THEN <<"halted", "body">>
    ELSE IF bo = "panicked" THEN <<"error", "body">> ELSE <<"fail", "body">>

VerdictIgnoresMonitors(a, e) ==
    IF supervisorErr THEN {<<"error", "supervisor">>}
    ELSE IF BodyFailed THEN {BodyVerdict}
    ELSE {<<"fail", "diagnostics">>} \cup ExpectationVerdict(a, e)

Verdict(a, e) ==
    IF supervisorErr THEN {<<"error", "supervisor">>}
    ELSE IF BodyFailed THEN {BodyVerdict}
    ELSE IF monitorErrors # {} THEN {<<"fail", "monitor">>}
    ELSE {<<"fail", "diagnostics">>} \cup ExpectationVerdict(a, e)

(* The expectations are only evaluated when nothing returned before them. *)
Finalizing(v) == v[2] \in {"always", "eventually", "timeout", "none"}

(* The verdict, the deferred unsubscriptions and, in RunTestLeaf, the       *)
(* enforcement of shutdown errors.                                          *)
Decide ==
    /\ pc = "decide" /\ pc' = "done" /\ subs' = <<>>
    /\ LET a == EvaluateAlways(always, log)
           e == EvaluateEventually(eventually, log)
       IN \E v \in Verdict(IF "always" \in registered THEN a ELSE always,
                           IF "eventually" \in registered THEN e ELSE eventually) :
            /\ result' = IF stopErr THEN "fail" ELSE v[1]
            /\ reason' = IF stopErr THEN "teardown" ELSE v[2]
            /\ always' = IF Finalizing(v) /\ "always" \in registered THEN a ELSE always
            /\ eventually' = IF Finalizing(v) /\ "eventually" \in registered
                             THEN e ELSE eventually
    /\ judged' = [log |-> log, errors |-> monitorErrors]
    /\ UNCHANGED <<cfg, run, log, inflight, registered, terminateWhen, signalVars,
                   timedOut, body, bo, cause, monitorErrors, healthVars, seen, begun>>

TestNext ==
    \/ RefuseRun \/ ResetRun \/ EarlyReturn \/ Subscribe \/ Start \/ BodyDoneArm \/ AlwaysFiredArm \/ TwFiredArm
    \/ BodyCtxArm \/ WaitBodyExit \/ EndBody \/ StopServices \/ Decide

WorldNext ==
    \/ \E v \in cfg.events : Emit(v)
    \/ \E d \in inflight : CopySubscribers(d) \/ Dispatch(d)
    \/ \E k \in Kinds : Declare(k)
    \/ \E o \in Finished : FinishBody(o)
    \/ Deadline \/ SupervisorDies

(* All the runs are over. *)
Terminated == pc = "done" /\ run = cfg.runs /\ UNCHANGED vars

Next == TestNext \/ WorldNext \/ Terminated

Spec == Init /\ [][Next]_vars

(* Timers fire, the test goroutine takes a ready arm of its select, and a   *)
(* subscriber, whose Starlark thread is bounded, returns.  The body itself  *)
(* owes nothing.                                                            *)
RuntimeStep ==
    \/ EarlyReturn \/ Subscribe \/ BodyDoneArm \/ AlwaysFiredArm \/ TwFiredArm
    \/ BodyCtxArm \/ WaitBodyExit \/ EndBody \/ StopServices \/ Decide \/ Deadline
    \/ \E d \in inflight : CopySubscribers(d) \/ Dispatch(d)

FairSpec == Spec /\ WF_vars(RuntimeStep)

----------------------------------------------------------------------------

(* A test is green only if nothing it declared was refuted: its body        *)
(* returned, or terminate_when ended it on a "stop"; its supervisors lived  *)
(* and teardown worked; its monitors complained of nothing, and were given  *)
(* every event since they came unless services outlive the test; an         *)
(* unbounded always() that stays false once it is false held; and every     *)
(* eventually() held (runTestImpl's chain of checks, temporal.go Finalize). *)
(* An object of the declaration (expect=, terminate_when=) may have been    *)
(* satisfied by an earlier run instead.                                     *)
PassIsEarned ==
    result = "pass" =>
        /\ \/ bo = "returned"
           \/ cause = "terminateWhen" /\ ("stop" \in Range(judged.log) \/ begun.terminated)
        /\ ~supervisorErr /\ ~stopErr
        /\ judged.errors = {}
        /\ cfg.monitor /\ ~cfg.reused =>
              \A i \in DOMAIN judged.log : i > begun.since => judged.log[i] # "bad"
        /\ "always" \in registered /\ cfg.to = "none" /\ cfg.from = "start"
              /\ cfg.monotone => ~Holds("bad", judged.log)
        /\ "eventually" \in registered =>
              Holds("good", judged.log) \/ (cfg.expect = "eventually" /\ begun.satisfied)

(* A verdict blames something that happened: an always() a "bad" event of   *)
(* the run, or of an earlier one if it is the expect= object; a monitor a   *)
(* "bad" event of the run, or of an earlier one whose services were kept;   *)
(* an eventually() the absence of a "good" one by the end of a run that was *)
(* not cut short, the body an outcome it really had; an "inconclusive" is a *)
(* deadline that cut the run short, and a run that was cut short is never   *)
(* green.                                                                   *)
VerdictHasCause ==
    /\ reason = "always" =>
          "bad" \in Range(judged.log) \/ (cfg.expect = "always" /\ begun.violated)
    /\ reason = "monitor" =>
          "bad" \in Range(judged.log) \/ (cfg.reused /\ \E r \in judged.errors : r < run)
    /\ reason = "eventually" => cause # "timeout" /\ ~Holds("good", judged.log)
    /\ reason = "body" => bo \in BodyErrors
    /\ pc = "done" => /\ result = "inconclusive" => timedOut /\ cause = "timeout"
                      /\ cause = "timeout" => result # "pass"

(* A verdict is earned, whatever it is. *)
VerdictIsEarned == PassIsEarned /\ VerdictHasCause

(* What was seen in time decides the run, whatever the body did at the same *)
(* moment: an always() violation signalled while the test goroutine was     *)
(* still in its select, whichever arm Go's select picks (the drain of issue *)
(* #119), and, over any other verdict, a supervisor that died before        *)
(* teardown began; only a failed teardown is reported in its place.         *)
SeenIsDecisive ==
    pc = "done" => /\ seen.violation => result \in {"fail", "error"}
                   /\ seen.dead => result = "error" \/ stopErr

(* A run ends with a verdict even if its body never does: the deadline,     *)
(* waitBodyExit and the shutdown timeouts bound every wait.  Nothing bounds *)
(* a setup= that does not return.                                           *)
RunOver == pc \in {"idle", "setup", "done"}

----------------------------------------------------------------------------
(* What a comment says of halted runs and the code does not keep: "A test   *)
(* that both halts AND violates an invariant must be recorded as fail"      *)
(* (runtime.go:1913).                                                       *)
HaltNeverHidesViolation == result = "halted" => ~always.violated

(* What a comment says of the reset and the code does not keep for the      *)
(* expect= object: "clear any temporal expectations from the previous test  *)
(* so eventually()/always() registrations are per-test" (runtime.go:1517).  *)
RegistrationsArePerTest ==
    result = "pass" /\ "eventually" \in registered => Holds("good", judged.log)
============================================================================
