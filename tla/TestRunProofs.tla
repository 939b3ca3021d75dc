---------------------------- MODULE TestRunProofs ----------------------------
(***************************************************************************)
(* What is seen in time decides a run, for every test declaration, every   *)
(* log and any number of concurrent emitters (TestRun).                    *)
(* Further down: what the final cleanup leaves of the services (Services)  *)
(* and what a supervised session reports (Supervisor).                     *)
(***************************************************************************)
EXTENDS TestRun, TLAPS

(* The types of what the argument is about.                                 *)
Shape ==
    /\ always \in [started : BOOLEAN, ended : BOOLEAN, violated : BOOLEAN]
    /\ seen \in [violation : BOOLEAN, dead : BOOLEAN]
    /\ alwaysFired \in BOOLEAN /\ twFired \in BOOLEAN /\ supervisorDead \in BOOLEAN

(* A new run has seen nothing, and has no signal before it has subscribers. *)
Unseen ==
    /\ pc \in {"starting", "setup", "select"} => seen = NothingSeen
    /\ pc = "starting" => registered = {} /\ ~alwaysFired

(* A signal stands for a violation that nothing takes back.                 *)
SignalIsTrue == alwaysFired => "always" \in registered /\ always.violated

(* Whichever arm was taken with the signal up, the cause says so.           *)
Leaving == {"exitWait", "bodyEnd", "stopping", "decide"}
CauseIsKept ==
    pc \in Leaving /\ seen.violation =>
        alwaysFired /\ cause \in {"immediateFail", "terminateWhen"}

(* The supervisors' failure that was seen is the one the verdict reads.     *)
DeadIsKept == pc # "done" /\ seen.dead => supervisorErr

(* The inductive invariant.                                                 *)
IInv == Shape /\ Unseen /\ SignalIsTrue /\ CauseIsKept /\ DeadIsKept /\ SeenIsDecisive

(* A violation sticks, and evaluation keeps the type.                       *)
LEMMA EvaluateSticks ==
  ASSUME NEW a \in [started : BOOLEAN, ended : BOOLEAN, violated : BOOLEAN], NEW l
  PROVE  /\ EvaluateAlways(a, l) \in [started : BOOLEAN, ended : BOOLEAN, violated : BOOLEAN]
         /\ a.violated => EvaluateAlways(a, l) = a
BY DEF EvaluateAlways

(* A new run has seen nothing and has no signal, up to its body.            *)
LEMMA ResetPreserves ==
  ASSUME IInv, RefuseRun \/ ResetRun \/ EarlyReturn \/ Subscribe \/ Start
  PROVE  IInv'
<1> USE DEF IInv, expectationVars, signalVars, healthVars, verdictVars
<1>1. NothingSeen \in [violation : BOOLEAN, dead : BOOLEAN] /\ ~NothingSeen.violation /\ ~NothingSeen.dead
  BY DEF NothingSeen
<1>2. CASE RefuseRun
  <2>1. /\ pc' = "done" /\ seen' = NothingSeen
        /\ UNCHANGED <<always, registered, alwaysFired, twFired, supervisorDead>>
    BY <1>2 DEF RefuseRun
  <2>2. QED
    BY <1>1, <2>1 DEF Shape, Unseen, SignalIsTrue, CauseIsKept, DeadIsKept, SeenIsDecisive, Leaving
<1>3. CASE ResetRun
  <2>1. /\ pc' = "starting" /\ seen' = NothingSeen /\ registered' = {} /\ always' = always
        /\ alwaysFired' = FALSE /\ twFired' = FALSE /\ supervisorDead' = FALSE
    BY <1>3 DEF ResetRun
  <2>2. QED
    BY <1>1, <2>1, Zenon DEF Shape, Unseen, SignalIsTrue, CauseIsKept, DeadIsKept, SeenIsDecisive, Leaving
<1>4. CASE EarlyReturn \/ Subscribe \/ Start
  <2>1. /\ pc \in {"starting", "setup"} /\ pc' \in {"setup", "select", "done"}
        /\ pc = "setup" => registered' = registered
        /\ pc = "starting" => registered' = registered \/ ~alwaysFired
        /\ UNCHANGED <<always, alwaysFired, twFired, supervisorDead, seen>>
    BY <1>4 DEF EarlyReturn, Subscribe, Start, Unseen
  <2>2. seen = NothingSeen
    BY <2>1 DEF Unseen
  <2>3. QED
    BY <1>1, <2>1, <2>2 DEF Shape, Unseen, SignalIsTrue, CauseIsKept, DeadIsKept, SeenIsDecisive, Leaving
<1>5. QED
  BY <1>2, <1>3, <1>4

(* The world: emitters, watchers, the body, the clock, the supervisors.     *)
LEMMA WorldPreserves == ASSUME IInv, WorldNext PROVE IInv'
<1> USE DEF IInv, expectationVars, signalVars, healthVars, verdictVars
<1>1. ASSUME NEW v, Emit(v) PROVE IInv'
  BY <1>1 DEF Emit, Shape, Unseen, SignalIsTrue, CauseIsKept, DeadIsKept, SeenIsDecisive
<1>0. ASSUME NEW d \in inflight, CopySubscribers(d) PROVE IInv'
  BY <1>0 DEF CopySubscribers, Shape, Unseen, SignalIsTrue, CauseIsKept, DeadIsKept, SeenIsDecisive
<1>2. ASSUME NEW d \in inflight, Dispatch(d) PROVE IInv'
  <2>1. UNCHANGED <<pc, cause, supervisorDead, supervisorErr, stopErr, result, seen>>
    BY <1>2 DEF Dispatch
  <2>2. CASE NotifyMonitor(d)
    BY <2>1, <2>2 DEF NotifyMonitor, Shape, Unseen, SignalIsTrue, CauseIsKept, DeadIsKept, SeenIsDecisive
  <2>3. CASE NotifyAlways(d)
    <3>1. Shape' /\ Unseen' /\ SignalIsTrue' /\ (alwaysFired => alwaysFired')
      BY <2>1, <2>3, EvaluateSticks DEF NotifyAlways, Shape, Unseen, SignalIsTrue
    <3>2. QED
      BY <2>1, <3>1 DEF CauseIsKept, DeadIsKept, SeenIsDecisive
  <2>4. CASE NotifyTerminateWhen(d)
    BY <2>1, <2>4 DEF NotifyTerminateWhen, Shape, Unseen, SignalIsTrue, CauseIsKept, DeadIsKept,
                      SeenIsDecisive
  <2>5. QED
    BY <1>2, <2>2, <2>3, <2>4 DEF Dispatch
<1>3. ASSUME NEW k \in Kinds, Declare(k) PROVE IInv'
  BY <1>3 DEF Declare, NewAlways, Shape, Unseen, SignalIsTrue, CauseIsKept, DeadIsKept, SeenIsDecisive
<1>4. ASSUME NEW o, FinishBody(o) PROVE IInv'
  BY <1>4 DEF FinishBody, Shape, Unseen, SignalIsTrue, CauseIsKept, DeadIsKept, SeenIsDecisive
<1>5. CASE Deadline
  BY <1>5 DEF Deadline, Shape, Unseen, SignalIsTrue, CauseIsKept, DeadIsKept, SeenIsDecisive
<1>6. CASE SupervisorDies
  BY <1>6 DEF SupervisorDies, Shape, Unseen, SignalIsTrue, CauseIsKept, DeadIsKept, SeenIsDecisive
<1>7. QED
  BY <1>0, <1>1, <1>2, <1>3, <1>4, <1>5, <1>6 DEF WorldNext

(* Leaving the select: Drained looks at the signals again, so that no arm   *)
(* turns a violation into a natural end or a timeout.                       *)
LEMMA SelectPreserves ==
  ASSUME IInv, BodyDoneArm \/ AlwaysFiredArm \/ TwFiredArm \/ BodyCtxArm
  PROVE  IInv'
<1> USE DEF IInv, expectationVars, signalVars, healthVars
<1>1. /\ pc' \in {"bodyEnd", "exitWait"} /\ pc = "select"
      /\ seen' = [seen EXCEPT !.violation = alwaysFired]
      /\ UNCHANGED <<always, registered, alwaysFired, twFired, supervisorDead, supervisorErr>>
  BY DEF BodyDoneArm, AlwaysFiredArm, TwFiredArm, BodyCtxArm, AwaitExit
<1>2. alwaysFired => cause' \in {"immediateFail", "terminateWhen"}
  BY Zenon DEF BodyDoneArm, AlwaysFiredArm, TwFiredArm, BodyCtxArm, AwaitExit, Drained
<1>3. Shape' /\ Unseen' /\ SignalIsTrue' /\ CauseIsKept'
  BY <1>1, <1>2 DEF Shape, Unseen, SignalIsTrue, CauseIsKept
<1>4. QED
  BY <1>1, <1>3 DEF Shape, DeadIsKept, SeenIsDecisive

(* The way from the body's end to the decision.                             *)
LEMMA TeardownPreserves == ASSUME IInv, WaitBodyExit \/ EndBody \/ StopServices PROVE IInv'
<1> USE DEF IInv, expectationVars, signalVars, healthVars, verdictVars
<1>1. CASE WaitBodyExit
  BY <1>1 DEF WaitBodyExit, Leaving, Shape, Unseen, SignalIsTrue, CauseIsKept, DeadIsKept, SeenIsDecisive
<1>2. CASE EndBody
  <2>1. /\ pc = "bodyEnd" /\ pc' = "stopping"
        /\ seen' = [seen EXCEPT !.dead = supervisorDead] /\ supervisorErr' = supervisorDead
        /\ cause # "natural" => cause' = cause
        /\ always' = SignalBodyEnd(always)
        /\ UNCHANGED <<registered, alwaysFired, twFired, supervisorDead>>
    BY <1>2 DEF EndBody
  <2>2. Shape' /\ always'.violated = always.violated
    BY <2>1, Zenon DEF SignalBodyEnd, Shape
  <2>3. seen'.violation = seen.violation /\ seen'.dead = supervisorDead
    BY <2>1 DEF Shape
  <2>4. QED
    BY <2>1, <2>2, <2>3 DEF Leaving, Unseen, SignalIsTrue, CauseIsKept, DeadIsKept, SeenIsDecisive
<1>3. CASE StopServices
  BY <1>3 DEF StopServices, Leaving, Shape, Unseen, SignalIsTrue, CauseIsKept, DeadIsKept, SeenIsDecisive
<1>4. QED
  BY <1>1, <1>2, <1>3

(* With a violation signalled, every check that can come first fails the    *)
(* run, and if none does the always() expectation does.                     *)
LEMMA ViolationFails ==
  ASSUME NEW a, NEW e, a.violated, "always" \in registered,
         cause \in {"immediateFail", "terminateWhen"}, NEW v \in Verdict(a, e)
  PROVE  v[1] \in {"fail", "error"}
<1>1. <<"always", "fail">> \in FinalVerdicts(a, e)
  BY DEF FinalVerdicts, FinalizeAlways
<1>2. \A w \in ExpectationVerdict(a, e) : w[1] = "fail"
  <2>1. \E k \in Kinds : <<k, "fail">> \in FinalVerdicts(a, e)
    BY <1>1 DEF Kinds
  <2>2. ExpectationVerdict(a, e) =
           {<<"fail", k>> : k \in {x \in Kinds : <<x, "fail">> \in FinalVerdicts(a, e)}}
    BY <2>1, Zenon DEF ExpectationVerdict
  <2>3. ASSUME NEW w \in ExpectationVerdict(a, e) PROVE w[1] = "fail"
    <3>1. PICK k \in Kinds : w = <<"fail", k>>
      BY <2>2, Zenon
    <3>2. QED
      BY <3>1
  <2>4. QED
    BY <2>3
<1>3. BodyVerdict[1] \in {"fail", "error"}
  BY DEF BodyVerdict
<1>4. QED
  BY <1>2, <1>3 DEF Verdict

(* The decision.                                                            *)
LEMMA DecidePreserves == ASSUME IInv, Decide PROVE IInv'
<1> USE DEF IInv, signalVars, healthVars
<1> DEFINE a == EvaluateAlways(always, log)
           e == EvaluateEventually(eventually, log)
           aa == IF "always" \in registered THEN a ELSE always
           ee == IF "eventually" \in registered THEN e ELSE eventually
<1>1. PICK v \in Verdict(aa, ee) :
         /\ result' = IF stopErr THEN "fail" ELSE v[1]
         /\ always' \in {a, always}
  BY DEF Decide
<1>2. /\ pc = "decide" /\ pc' = "done"
      /\ UNCHANGED <<registered, alwaysFired, twFired, cause, supervisorDead, supervisorErr,
                    stopErr, seen>>
  BY DEF Decide
<1>3. Shape' /\ SignalIsTrue'
  BY <1>1, <1>2, EvaluateSticks DEF Shape, SignalIsTrue
<1>4. ASSUME seen.violation PROVE result' \in {"fail", "error"}
  <2>1. "always" \in registered /\ aa.violated /\ cause \in {"immediateFail", "terminateWhen"}
    BY <1>2, <1>4, EvaluateSticks DEF Shape, Unseen, SignalIsTrue, CauseIsKept, Leaving
  <2>2. v[1] \in {"fail", "error"}
    BY <2>1, ViolationFails
  <2>3. QED
    BY <1>1, <2>2
<1>5. ASSUME seen.dead PROVE result' = "error" \/ stopErr'
  <2>1. supervisorErr
    BY <1>2, <1>5 DEF DeadIsKept
  <2>2. v[1] = "error"
    BY <2>1 DEF Verdict
  <2>3. QED
    BY <1>1, <1>2, <2>2
<1>6. SeenIsDecisive'
  BY <1>2, <1>4, <1>5 DEF SeenIsDecisive
<1>7. QED
  BY <1>2, <1>3, <1>6 DEF Unseen, CauseIsKept, DeadIsKept, Leaving

(* The three facts of an inductive invariant, for SeenIsDecisive.           *)
LEMMA InitHolds == Init => IInv
<1> SUFFICES ASSUME Init PROVE IInv
  OBVIOUS
<1>1. /\ pc = "idle" /\ seen = [violation |-> FALSE, dead |-> FALSE]
      /\ alwaysFired = FALSE /\ twFired = FALSE /\ supervisorDead = FALSE
      /\ always = [started |-> FALSE, ended |-> FALSE, violated |-> FALSE]
  BY DEF Init, NewAlways, NothingSeen
<1>2. QED
  BY <1>1, Zenon DEF IInv, Shape, Unseen, SignalIsTrue, CauseIsKept, DeadIsKept, SeenIsDecisive

LEMMA StepHolds == IInv /\ [Next]_vars => IInv'
<1> SUFFICES ASSUME IInv, [Next]_vars PROVE IInv'
  OBVIOUS
<1>1. CASE UNCHANGED vars
  BY <1>1 DEF vars, IInv, Shape, Unseen, SignalIsTrue, CauseIsKept, DeadIsKept, SeenIsDecisive
<1>2. QED
  BY <1>1, ResetPreserves, WorldPreserves, SelectPreserves, TeardownPreserves, DecidePreserves
     DEF Next, TestNext, Terminated

(* An always() violation signalled before the test goroutine leaves its     *)
(* select, whichever ready arm Go picks, and a supervisor that died before  *)
(* teardown decide the verdict; only a failed teardown is reported in place *)
(* of the latter (runtime.go:1791-1830, issue #119).                        *)
THEOREM SeenDecides == Spec => []SeenIsDecisive
<1>1. IInv => SeenIsDecisive
  BY DEF IInv
<1>2. QED
  BY <1>1, InitHolds, StepHolds, PTL DEF Spec

----------------------------------------------------------------------------
(* A verdict is earned.                                                     *)

Events == {"good", "bad", "stop", "open", "close", "plain"}
Causes == {"natural", "timeout", "immediateFail", "terminateWhen"}
Watchers == {"monitor", "always", "terminate"}
Steps == Watchers \cup {"copy"}
Emissions ==
    [from : Nat, seq : Nat, event : Events,
     todo : Seq(Steps) \ {<<>>}, of : Nat]

(* The types of what the argument is about, beyond Shape.                   *)
Types ==
    /\ cfg \in Configs /\ run \in Nat
    /\ log \in Seq(Events)
    /\ subs \in Seq(Watchers) /\ inflight \subseteq Emissions
    /\ registered \subseteq Kinds
    /\ eventually \in BOOLEAN /\ terminateWhen \in BOOLEAN /\ timedOut \in BOOLEAN
    /\ monitorErrors \subseteq Nat
    /\ bo \in Finished \cup {"none", "leaked"} /\ cause \in Causes
    /\ begun \in [violated : BOOLEAN, satisfied : BOOLEAN, terminated : BOOLEAN, since : Nat]

(* Before the first run there is nothing, and a run begins with nothing but *)
(* what its declaration's objects knew.                                     *)
Beginnings ==
    /\ run = 0 \/ pc = "idle" => run = 0 /\ pc = "idle" /\ inflight = {} /\ monitorErrors = {}
    /\ pc = "starting" => /\ registered = {}
                          /\ always.violated = begun.violated /\ eventually = begun.satisfied

(* What an expectation knows it learned from the log of its run, unless it  *)
(* is the declaration's and knew before; an eventually() learns at the end. *)
Learned ==
    /\ "always" \in registered /\ always.violated =>
          "bad" \in Range(log) \/ (cfg.expect = "always" /\ begun.violated)
    /\ pc # "done" /\ "eventually" \in registered /\ eventually =>
          cfg.expect = "eventually" /\ begun.satisfied
    /\ terminateWhen \/ twFired => "stop" \in Range(log) \/ begun.terminated

(* Only an anchor ends a window.                                            *)
Unbounded == cfg.to = "none" => ~always.ended

(* An emission is of this run and its event in the log, or of an earlier    *)
(* one that teardown did not silence; so is a monitor's error.              *)
Origins ==
    /\ \A d \in inflight :
          \/ d.from = run /\ d.seq \in DOMAIN log /\ log[d.seq] = d.event
          \/ d.from < run /\ (cfg.reused \/ shutdownFailed)
    /\ \A r \in monitorErrors :
          \/ r = run /\ "bad" \in Range(log)
          \/ r < run /\ (cfg.reused \/ shutdownFailed)

(* The monitors come first, and are told of every event since they came.    *)
Unheard(d) == Head(d.todo) \in {"copy", "monitor"}
Listening == {"setup", "select", "exitWait", "bodyEnd", "stopping", "decide"}
Heard ==
    pc \in Listening /\ cfg.monitor =>
        /\ subs # <<>> /\ Head(subs) = "monitor"
        /\ \A i \in DOMAIN log : i > begun.since /\ log[i] = "bad" =>
              run \in monitorErrors \/ \E d \in inflight : d.from = run /\ d.seq = i /\ Unheard(d)

(* A cause has its signal, and a body is left behind for a cause.           *)
CauseIsTrue ==
    /\ cause = "terminateWhen" => twFired
    /\ cause = "timeout" => timedOut
    /\ pc = "exitWait" \/ (pc \in Leaving /\ bo = "leaked") =>
          cause \in {"terminateWhen", "timeout"} \/ seen.violation
    /\ pc \in {"bodyEnd", "stopping", "decide"} => bo # "none"

(* A run has not failed to stop before it is stopped; past a teardown that  *)
(* worked nobody emits, reused services apart.                              *)
Quiet ==
    /\ pc \in {"starting", "setup", "select", "exitWait", "bodyEnd", "stopping"} =>
          ~stopErr /\ ~shutdownFailed
    /\ pc = "decide" => (shutdownFailed => stopErr)
    /\ pc \in {"decide", "done"} /\ ~cfg.reused /\ ~shutdownFailed => inflight = {}

(* There is no verdict before the decision.                                 *)
NoVerdictYet == pc # "done" => result = "none" /\ reason = "none"

(* The inductive invariant, on top of IInv.                                 *)
JInv ==
    /\ Types /\ Beginnings /\ Learned /\ Unbounded /\ Origins /\ Heard /\ CauseIsTrue /\ Quiet
    /\ NoVerdictYet /\ VerdictIsEarned

(* What a longer log keeps, and what a predicate that holds has seen.       *)
LEMMA LogGrows ==
  ASSUME NEW l \in Seq(Events), NEW v \in Events
  PROVE  /\ Append(l, v) \in Seq(Events)
         /\ DOMAIN l \subseteq DOMAIN Append(l, v)
         /\ DOMAIN Append(l, v) = DOMAIN l \cup {Len(l) + 1}
         /\ \A i \in DOMAIN l : Append(l, v)[i] = l[i]
         /\ Append(l, v)[Len(l) + 1] = v
         /\ Range(l) \subseteq Range(Append(l, v))
<1>1. /\ Append(l, v) \in Seq(Events) /\ Len(Append(l, v)) = Len(l) + 1
      /\ \A i \in 1..Len(l) : Append(l, v)[i] = l[i]
      /\ Append(l, v)[Len(l) + 1] = v
  OBVIOUS
<1>2. DOMAIN l = 1..Len(l) /\ DOMAIN Append(l, v) = 1..(Len(l) + 1) /\ Len(l) \in Nat
  BY <1>1
<1>3. DOMAIN Append(l, v) = DOMAIN l \cup {Len(l) + 1} /\ DOMAIN l \subseteq DOMAIN Append(l, v)
  BY <1>2
<1>4. Range(l) \subseteq Range(Append(l, v))
  BY <1>1, <1>2, <1>3 DEF Range
<1>5. QED
  BY <1>1, <1>2, <1>3, <1>4

LEMMA HoldsMeansSeen ==
  ASSUME NEW l \in Seq(Events), NEW v, Holds(v, l) PROVE v \in Range(l)
<1>1. ASSUME l # <<>> PROVE Len(l) \in DOMAIN l
  BY <1>1
<1>2. QED
  BY <1>1 DEF Holds, Range

(* An evaluation learns from the log, and only an anchor ends the window.   *)
LEMMA EvaluateLearns ==
  ASSUME NEW a \in [started : BOOLEAN, ended : BOOLEAN, violated : BOOLEAN],
         NEW l \in Seq(Events)
  PROVE  /\ EvaluateAlways(a, l).violated => a.violated \/ "bad" \in Range(l)
         /\ cfg.to = "none" /\ ~a.ended => ~EvaluateAlways(a, l).ended
         /\ cfg.to = "none" /\ ~a.ended /\ cfg.from = "start" /\ Holds("bad", l)
               => EvaluateAlways(a, l).violated
<1>1. Holds("bad", l) => "bad" \in Range(l)
  BY HoldsMeansSeen
<1>2. QED
  BY <1>1, Zenon DEF EvaluateAlways

(* Before the decision there is no verdict to answer for.                   *)
LEMMA NoVerdictNoBlame ==
  ASSUME NoVerdictYet', pc' # "done" PROVE VerdictIsEarned'
BY DEF NoVerdictYet, VerdictIsEarned, PassIsEarned, VerdictHasCause

(* Nor for a run that never came to its expectations.                       *)
LEMMA EarlyVerdictNoBlame ==
  ASSUME result' \in {"fail", "error", "halted"}, reason' \in {"teardown", "setup", "refused"}
  PROVE  VerdictIsEarned'
BY DEF VerdictIsEarned, PassIsEarned, VerdictHasCause

(* A verdict that was given does not change with what comes after it.       *)
VerdictStands ==
    UNCHANGED <<cfg, run, pc, registered, bo, cause, supervisorErr, stopErr, timedOut, result,
                reason, begun, judged>>
LEMMA VerdictStaysEarned == ASSUME VerdictIsEarned, VerdictStands PROVE VerdictIsEarned'
<1>1. \A v, l : Holds(v, l)' <=> Holds(v, l)
  BY DEF Holds, VerdictStands
<1>2. PassIsEarned'
  BY <1>1 DEF VerdictStands, VerdictIsEarned, PassIsEarned
<1>3. VerdictHasCause'
  BY <1>1 DEF VerdictStands, VerdictIsEarned, VerdictHasCause
<1>4. QED
  BY <1>2, <1>3 DEF VerdictIsEarned

(* A runtime that runs nothing any more.                                    *)
LEMMA RefuseEarns == ASSUME IInv, JInv, RefuseRun PROVE JInv'
<1> USE DEF JInv
<1>1. /\ pc \in {"idle", "done"} /\ shutdownFailed /\ run' = run + 1 /\ pc' = "done"
      /\ result' = "fail" /\ reason' = "refused"
      /\ UNCHANGED <<cfg, log, subs, inflight, registered, always, eventually, terminateWhen,
                    twFired, timedOut, bo, cause, monitorErrors, shutdownFailed, begun>>
  BY DEF RefuseRun, expectationVars, signalVars
<1>2. run \in Nat /\ run' \in Nat /\ run' # 0 /\ run < run'
  BY <1>1 DEF Types
<1>3. Types' /\ Beginnings'
  <2>1. Types'
    BY <1>1, <1>2 DEF Types
  <2>2. QED
    BY <1>1, <1>2, <2>1 DEF Beginnings
<1>4. Learned' /\ Unbounded'
  BY <1>1, Zenon DEF Learned, Unbounded
<1>5. Origins'
  <2>1. \A d \in inflight : d.from < run'
    BY <1>2 DEF Types, Emissions, Origins
  <2>2. \A r \in monitorErrors : r < run'
    BY <1>2 DEF Types, Origins
  <2>3. QED
    BY <1>1, <2>1, <2>2 DEF Origins
<1>6. Heard' /\ CauseIsTrue' /\ Quiet' /\ NoVerdictYet'
  BY <1>1 DEF Heard, Listening, CauseIsTrue, Quiet, NoVerdictYet, Leaving
<1>7. QED
  BY <1>1, <1>3, <1>4, <1>5, <1>6, EarlyVerdictNoBlame

(* A new run: what goes on from the last one does so in reused services.    *)
LEMMA ResetEarns == ASSUME IInv, JInv, ResetRun PROVE JInv'
<1> USE DEF JInv
<1>1. /\ pc \in {"idle", "done"} /\ ~shutdownFailed /\ run' = run + 1 /\ pc' = "starting"
      /\ log' = <<>> /\ subs' = <<>> /\ registered' = {} /\ monitorErrors' = {}
      /\ twFired' = FALSE /\ timedOut' = FALSE /\ bo' = "none" /\ cause' = "natural" /\ stopErr' = FALSE
      /\ result' = "none" /\ reason' = "none" /\ begun' = Knowledge
      /\ UNCHANGED <<cfg, inflight, always, eventually, terminateWhen, shutdownFailed>>
  BY DEF ResetRun
<1>2. run \in Nat /\ run' \in Nat /\ run' # 0 /\ run < run'
  BY <1>1 DEF Types
<1>3. /\ begun' \in [violated : BOOLEAN, satisfied : BOOLEAN, terminated : BOOLEAN, since : Nat]
      /\ begun'.violated = always.violated /\ begun'.satisfied = eventually
      /\ begun'.terminated = terminateWhen
  BY <1>1 DEF Knowledge, Types, IInv, Shape
<1>4. Types'
  <2>1. log' \in Seq(Events) /\ subs' \in Seq(Watchers) /\ monitorErrors' \subseteq Nat
    BY <1>1
  <2>2. timedOut' \in BOOLEAN
    BY <1>1, Zenon
  <2>3. QED
    BY <1>1, <1>2, <1>3, <2>1, <2>2 DEF Types, Causes
<1>5. Beginnings' /\ Learned' /\ Unbounded'
  <2>1. Beginnings'
    BY <1>1, <1>2, <1>3 DEF Beginnings
  <2>2. Learned'
    BY <1>1, <1>3, Zenon DEF Learned
  <2>3. QED
    BY <1>1, <2>1, <2>2 DEF Unbounded
<1>6. Origins'
  <2>1. \A d \in inflight : d.from < run' /\ cfg.reused
    BY <1>1, <1>2 DEF Types, Emissions, Origins, Beginnings, Quiet
  <2>2. QED
    BY <1>1, <2>1 DEF Origins
<1>7. Heard' /\ CauseIsTrue' /\ Quiet' /\ NoVerdictYet' /\ pc' # "done"
  BY <1>1 DEF Heard, Listening, CauseIsTrue, Quiet, NoVerdictYet, Leaving
<1>8. QED
  BY <1>4, <1>5, <1>6, <1>7, NoVerdictNoBlame

(* A run that ends before its body.                                         *)
LEMMA EarlyEarns == ASSUME IInv, JInv, EarlyReturn PROVE JInv'
<1> USE DEF JInv
<1>1. /\ pc \in {"starting", "setup"} /\ pc' = "done" /\ subs' = <<>>
      /\ result' \in {"fail", "error", "halted"} /\ reason' \in {"teardown", "setup"}
      /\ UNCHANGED <<cfg, run, log, inflight, registered, always, eventually, terminateWhen, twFired,
                    timedOut, bo, cause, monitorErrors, begun>>
  BY DEF EarlyReturn, expectationVars, signalVars
<1>2. Types' /\ Beginnings' /\ Learned' /\ Unbounded'
  <2>1. Types'
    <3>1. subs' \in Seq(Watchers)
      BY <1>1
    <3>2. QED
      BY <1>1, <3>1 DEF Types
  <2>2. Beginnings'
    BY <1>1 DEF Beginnings
  <2>3. Learned'
    BY <1>1, Zenon DEF Learned
  <2>4. QED
    BY <1>1, <2>1, <2>2, <2>3 DEF Unbounded
<1>3. Origins'
  <2>1. ~shutdownFailed
    BY <1>1 DEF Quiet
  <2>2. QED
    BY <1>1, <2>1 DEF Origins
<1>4. Heard' /\ CauseIsTrue' /\ NoVerdictYet'
  BY <1>1 DEF Heard, Listening, CauseIsTrue, NoVerdictYet, Leaving
<1>5. Quiet'
  BY <1>1 DEF EarlyReturn, TearDown, Quiet
<1>6. QED
  BY <1>1, <1>2, <1>3, <1>4, <1>5, EarlyVerdictNoBlame

(* The monitors come, and the declaration's expectation with what it knows. *)
LEMMA SubscribeEarns == ASSUME IInv, JInv, Subscribe PROVE JInv'
<1> USE DEF JInv
<1>1. /\ pc = "starting" /\ pc' = "setup" /\ registered' = {cfg.expect} \ {"none"}
      /\ subs' = (IF cfg.monitor THEN <<"monitor">> ELSE <<>>)
      /\ begun' = [begun EXCEPT !.since = Len(log)]
      /\ UNCHANGED <<cfg, run, log, inflight, always, eventually, terminateWhen, twFired, timedOut,
                    bo, cause, monitorErrors, stopErr, shutdownFailed, result, reason, seen>>
  BY DEF Subscribe, signalVars, healthVars
<1>2. /\ begun' \in [violated : BOOLEAN, satisfied : BOOLEAN, terminated : BOOLEAN, since : Nat]
      /\ begun'.violated = begun.violated /\ begun'.satisfied = begun.satisfied
      /\ begun'.terminated = begun.terminated /\ begun'.since = Len(log)
  BY <1>1 DEF Types
<1>3. registered' \subseteq Kinds
  <2>1. cfg \in ConfigType
    BY ConfigAssumption DEF Types
  <2>2. cfg.expect \in Kinds \cup {"none"}
    BY <2>1 DEF ConfigType
  <2>3. QED
    BY <1>1, <2>2
<1>4. Types' /\ Beginnings'
  <2>1. subs' \in Seq(Watchers)
    <3>1. <<"monitor">> \in Seq(Watchers) /\ <<>> \in Seq(Watchers)
      BY DEF Watchers
    <3>2. QED
      BY <1>1, <3>1, Zenon
  <2>2. Types'
    BY <1>1, <1>2, <1>3, <2>1 DEF Types
  <2>3. QED
    BY <1>1, <2>2 DEF Beginnings
<1>5. Learned' /\ Unbounded'
  <2>1. /\ always.violated = begun.violated /\ eventually = begun.satisfied
        /\ \A k \in registered' : cfg.expect = k
    BY <1>1 DEF Beginnings
  <2>2. Learned'
    BY <1>1, <1>2, <2>1, Zenon DEF Learned
  <2>3. QED
    BY <1>1, <2>2 DEF Unbounded
<1>6. Origins' /\ CauseIsTrue' /\ Quiet' /\ NoVerdictYet' /\ pc' # "done"
  BY <1>1 DEF Origins, CauseIsTrue, Quiet, NoVerdictYet, Leaving
<1>7. Heard'
  <2>1. cfg.monitor => subs' # <<>> /\ Head(subs') = "monitor"
    BY <1>1
  <2>2. \A i \in DOMAIN log : ~(i > Len(log))
    BY DEF Types
  <2>3. QED
    BY <1>1, <1>2, <2>1, <2>2 DEF Heard
<1>8. QED
  BY <1>4, <1>5, <1>6, <1>7, NoVerdictNoBlame

(* The watchers come after the monitors.                                    *)
LEMMA StartEarns == ASSUME IInv, JInv, Start PROVE JInv'
<1> USE DEF JInv
<1>1. /\ pc = "setup" /\ pc' = "select"
      /\ subs' = subs \o (IF cfg.terminate THEN <<"always", "terminate">> ELSE <<"always">>)
      /\ UNCHANGED <<cfg, run, log, inflight, registered, always, eventually, terminateWhen, twFired,
                    timedOut, bo, cause, monitorErrors, stopErr, shutdownFailed, result, reason,
                    seen, begun>>
  BY DEF Start, expectationVars, signalVars, healthVars, verdictVars
<1>2. Types' /\ Beginnings' /\ Origins' /\ Unbounded'
  <2>1. <<"always", "terminate">> \in Seq(Watchers) /\ <<"always">> \in Seq(Watchers)
    BY DEF Watchers
  <2>2. subs' \in Seq(Watchers)
    BY <1>1, <2>1 DEF Types
  <2>3. Types'
    BY <1>1, <2>2 DEF Types
  <2>4. QED
    BY <1>1, <2>3 DEF Beginnings, Origins, Unbounded
<1>3. Learned'
  BY <1>1, Zenon DEF Learned
<1>4. CauseIsTrue' /\ Quiet' /\ NoVerdictYet' /\ pc' # "done"
  BY <1>1 DEF CauseIsTrue, Quiet, NoVerdictYet, Leaving
<1>5. Heard'
  <2>1. subs \in Seq(Watchers)
    BY DEF Types
  <2>2. cfg.monitor => subs # <<>> /\ Head(subs) = "monitor"
    BY <1>1 DEF Heard, Listening
  <2>3. cfg.monitor => subs' # <<>> /\ Head(subs') = "monitor"
    BY <1>1, <2>1, <2>2
  <2>4. QED
    BY <1>1, <2>3 DEF Heard, Listening
<1>6. QED
  BY <1>2, <1>3, <1>4, <1>5, NoVerdictNoBlame

(* An emission brings its event to the log, and is still to be heard.       *)
LEMMA EmitEarns == ASSUME IInv, JInv, NEW v \in Events, Emit(v) PROVE JInv'
<1> USE DEF JInv
<1> DEFINE n == [from |-> run, seq |-> Len(log) + 1, event |-> v, todo |-> <<"copy">>, of |-> run]
<1>1. /\ Emitting /\ log' = Append(log, v) /\ inflight' = inflight \cup {n}
      /\ UNCHANGED <<cfg, run, pc, subs, registered, always, eventually, terminateWhen, twFired,
                    timedOut, bo, cause, monitorErrors, supervisorErr, stopErr, shutdownFailed,
                    result, reason, seen, begun, judged>>
  BY DEF Emit, expectationVars, signalVars, healthVars, verdictVars
<1>2. /\ log \in Seq(Events) /\ Len(log) \in Nat /\ run \in Nat
      /\ log' \in Seq(Events) /\ DOMAIN log \subseteq DOMAIN log'
      /\ DOMAIN log' = DOMAIN log \cup {Len(log) + 1}
      /\ \A i \in DOMAIN log : log'[i] = log[i]
      /\ log'[Len(log) + 1] = v /\ Range(log) \subseteq Range(log')
  <2>1. log \in Seq(Events) /\ log' = Append(log, v) /\ run \in Nat
    BY <1>1 DEF Types
  <2>2. Len(log) \in Nat
    BY <2>1
  <2>3. QED
    BY <2>1, <2>2, LogGrows, Zenon
<1>3. /\ n \in Emissions /\ n.from = run /\ n.seq = Len(log) + 1 /\ n.event = v /\ Unheard(n)
  <2>1. <<"copy">> \in Seq(Steps) \ {<<>>} /\ Head(<<"copy">>) = "copy"
    BY DEF Steps
  <2>2. QED
    BY <1>2, <2>1 DEF Emissions, Unheard
<1> HIDE DEF n
<1>4. pc # "idle" /\ run # 0
  BY <1>1 DEF Emitting, Beginnings, Types
<1>5. Types' /\ Beginnings'
  BY <1>1, <1>2, <1>3, <1>4 DEF Types, Beginnings
<1>6. Learned' /\ Unbounded'
  BY <1>1, <1>2 DEF Learned, Unbounded
<1>7. Origins'
  <2>1. \A d \in inflight' : \/ d.from = run /\ d.seq \in DOMAIN log' /\ log'[d.seq] = d.event
                             \/ d.from < run /\ (cfg.reused \/ shutdownFailed)
    BY <1>1, <1>2, <1>3 DEF Origins
  <2>2. QED
    BY <1>1, <1>2, <2>1 DEF Origins
<1>8. Heard'
  <2> SUFFICES ASSUME pc \in Listening, cfg.monitor PROVE Heard'
    BY <1>1 DEF Heard
  <2>1. ASSUME NEW i \in DOMAIN log', i > begun.since, log'[i] = "bad"
        PROVE  run \in monitorErrors \/ \E d \in inflight' : d.from = run /\ d.seq = i /\ Unheard(d)
    BY <1>1, <1>2, <1>3, <2>1 DEF Heard
  <2>2. QED
    BY <1>1, <2>1 DEF Heard
<1>9. CauseIsTrue' /\ Quiet' /\ NoVerdictYet'
  BY <1>1 DEF Emitting, CauseIsTrue, Quiet, NoVerdictYet
<1>10. VerdictIsEarned'
  BY <1>1, VerdictStaysEarned DEF VerdictStands
<1>11. QED
  BY <1>5, <1>6, <1>7, <1>8, <1>9, <1>10

(* The steps of an emission: what is said of the others stays, and of it    *)
(* while it is under way.                                                   *)
LEMMA BecomesKeeps ==
  ASSUME Types, Origins, NEW d \in inflight, NEW r \in Nat,
         NEW t \in Seq(Steps), Becomes(d, r, t)
  PROVE  /\ inflight' \subseteq Emissions
         /\ \A x \in inflight' : \E y \in inflight : x.from = y.from /\ x.seq = y.seq /\ x.event = y.event
         /\ \A y \in inflight : y # d => y \in inflight'
         /\ t # <<>> => \E x \in inflight' : x.from = d.from /\ x.seq = d.seq /\ x.todo = t
<1> DEFINE n == [d EXCEPT !.of = r, !.todo = t]
<1>1. d \in Emissions
  BY DEF Types
<1>2. t # <<>> => /\ n \in Emissions /\ n.from = d.from /\ n.seq = d.seq /\ n.event = d.event
                  /\ n.todo = t
  BY <1>1 DEF Emissions
<1>3. inflight' = (inflight \ {d}) \cup (IF t = <<>> THEN {} ELSE {n})
  BY DEF Becomes
<1> HIDE DEF n
<1>4. CASE t = <<>>
  BY <1>3, <1>4 DEF Types
<1>5. CASE t # <<>>
  <2>1. inflight' = (inflight \ {d}) \cup {n}
    BY <1>3, <1>5
  <2>2. /\ n \in Emissions /\ n.from = d.from /\ n.seq = d.seq /\ n.event = d.event /\ n.todo = t
    BY <1>2, <1>5
  <2>3. inflight' \subseteq Emissions /\ \A y \in inflight : y # d => y \in inflight'
    BY <2>1, <2>2 DEF Types
  <2>4. ASSUME NEW x \in inflight'
        PROVE  \E y \in inflight : x.from = y.from /\ x.seq = y.seq /\ x.event = y.event
    BY <2>1, <2>2
  <2>5. \E x \in inflight' : x.from = d.from /\ x.seq = d.seq /\ x.todo = t
    BY <2>1, <2>2
  <2>6. QED
    BY <2>3, <2>4, <2>5
<1>6. QED
  BY <1>4, <1>5

(* The subscribers an emission copies begin with the monitor.               *)
LEMMA CopyEarns == ASSUME IInv, JInv, NEW d \in inflight, CopySubscribers(d) PROVE JInv'
<1> USE DEF JInv
<1>1. /\ Becomes(d, run, subs) /\ d.todo = <<"copy">>
      /\ UNCHANGED <<cfg, run, pc, log, subs, registered, always, eventually, terminateWhen, twFired,
                    timedOut, bo, cause, monitorErrors, supervisorErr, stopErr, shutdownFailed,
                    result, reason, seen, begun, judged>>
  BY DEF CopySubscribers, expectationVars, signalVars, healthVars, verdictVars
<1>2. /\ inflight' \subseteq Emissions
      /\ \A x \in inflight' : \E y \in inflight : x.from = y.from /\ x.seq = y.seq /\ x.event = y.event
      /\ \A y \in inflight : y # d => y \in inflight'
      /\ subs # <<>> => \E x \in inflight' : x.from = d.from /\ x.seq = d.seq /\ x.todo = subs
  <2>1. subs \in Seq(Steps) /\ run \in Nat
    BY DEF Types, Steps
  <2>2. QED
    BY <1>1, <2>1, BecomesKeeps
<1>3. Types' /\ Beginnings' /\ Unbounded'
  BY <1>1, <1>2 DEF Types, Beginnings, Unbounded
<1>4. Learned'
  BY <1>1, Zenon DEF Learned
<1>5. Origins'
  <2>1. \A x \in inflight' : \/ x.from = run /\ x.seq \in DOMAIN log /\ log[x.seq] = x.event
                             \/ x.from < run /\ (cfg.reused \/ shutdownFailed)
    BY <1>2 DEF Origins
  <2>2. QED
    BY <1>1, <2>1 DEF Origins
<1>6. Heard'
  <2> SUFFICES ASSUME pc \in Listening, cfg.monitor PROVE Heard'
    BY <1>1 DEF Heard
  <2>1. subs # <<>> /\ Head(subs) = "monitor"
    BY DEF Heard
  <2>2. PICK n \in inflight' : n.from = d.from /\ n.seq = d.seq /\ n.todo = subs
    BY <1>2, <2>1
  <2>3. Unheard(n)
    BY <2>1, <2>2 DEF Unheard
  <2>4. ASSUME NEW i \in DOMAIN log, i > begun.since, log[i] = "bad"
        PROVE  run \in monitorErrors \/ \E x \in inflight' : x.from = run /\ x.seq = i /\ Unheard(x)
    BY <1>2, <2>2, <2>3, <2>4 DEF Heard
  <2>5. QED
    BY <1>1, <2>1, <2>4 DEF Heard
<1>7. CauseIsTrue' /\ Quiet' /\ NoVerdictYet'
  BY <1>1, <1>2 DEF CauseIsTrue, Quiet, NoVerdictYet
<1>8. VerdictIsEarned'
  BY <1>1, VerdictStaysEarned DEF VerdictStands
<1>9. QED
  BY <1>3, <1>4, <1>5, <1>6, <1>7, <1>8

(* A subscriber finds what it finds in the log of the run, or, if it is a   *)
(* monitor, in the event it was given.                                      *)
LEMMA DispatchEarns == ASSUME IInv, JInv, NEW d \in inflight, Dispatch(d) PROVE JInv'
<1> USE DEF JInv
<1>1. /\ Becomes(d, d.of, Tail(d.todo))
      /\ UNCHANGED <<cfg, run, pc, log, subs, timedOut, bo, cause, supervisorErr, stopErr,
                    shutdownFailed, result, reason, seen, begun, judged>>
  BY DEF Dispatch, healthVars, verdictVars
<1>2. /\ registered' = registered /\ eventually' = eventually
      /\ always' = always \/ ("always" \in registered /\ always' = EvaluateAlways(always, log))
  BY DEF Dispatch, NotifyMonitor, NotifyAlways, NotifyTerminateWhen, expectationVars
<1>3. /\ d \in Emissions /\ d.todo # <<>> /\ Tail(d.todo) \in Seq(Steps)
  BY DEF Types, Emissions
<1>4. /\ inflight' \subseteq Emissions
      /\ \A x \in inflight' : \E y \in inflight : x.from = y.from /\ x.seq = y.seq /\ x.event = y.event
      /\ \A y \in inflight : y # d => y \in inflight'
  <2>1. d.of \in Nat
    BY <1>3 DEF Emissions
  <2>2. QED
    BY <1>1, <1>3, <2>1, BecomesKeeps
<1>5. /\ always'.violated => always.violated \/ ("always" \in registered /\ "bad" \in Range(log))
      /\ cfg.to = "none" /\ ~always.ended => ~always'.ended
  BY <1>2, EvaluateLearns DEF IInv, Shape, Types
<1>6. /\ monitorErrors \subseteq monitorErrors'
      /\ monitorErrors' \subseteq monitorErrors \cup (IF d.event = "bad" THEN {d.from} ELSE {})
      /\ Head(d.todo) = "monitor" /\ d.event = "bad" => d.from \in monitorErrors'
      /\ Head(d.todo) \in {"monitor", "always", "terminate"}
  <2>1. CASE Head(d.todo) = "monitor"
    BY <2>1 DEF Dispatch, NotifyMonitor
  <2>2. CASE Head(d.todo) \in {"always", "terminate"}
    BY <2>2 DEF Dispatch, NotifyAlways, NotifyTerminateWhen
  <2>3. QED
    BY <2>1, <2>2 DEF Dispatch
<1>7. /\ terminateWhen' \in BOOLEAN /\ (twFired => twFired')
      /\ terminateWhen' \/ twFired' => terminateWhen \/ twFired \/ "stop" \in Range(log)
  <2>1. terminateWhen \in BOOLEAN /\ twFired \in BOOLEAN
    BY DEF Types, IInv, Shape
  <2>2. CASE NotifyMonitor(d)
    BY <2>1, <2>2 DEF NotifyMonitor, expectationVars, signalVars
  <2>3. CASE NotifyAlways(d)
    BY <2>1, <2>3 DEF NotifyAlways
  <2>4. CASE NotifyTerminateWhen(d)
    BY <2>1, <2>4, Zenon DEF NotifyTerminateWhen, EvaluateTerminateWhen, Matched
  <2>5. QED
    BY <2>2, <2>3, <2>4 DEF Dispatch
<1>8. Types' /\ Beginnings'
  <2>1. d.from \in Nat
    BY <1>3 DEF Emissions
  <2>2. monitorErrors' \subseteq Nat
    BY <1>6, <2>1 DEF Types
  <2>3. Types'
    BY <1>1, <1>2, <1>4, <1>7, <2>2 DEF Types
  <2>4. run # 0 /\ pc # "idle"
    BY DEF Beginnings
  <2>5. pc = "starting" => always' = always
    BY <1>2 DEF Beginnings
  <2>6. QED
    BY <1>1, <1>2, <2>3, <2>4, <2>5 DEF Beginnings
<1>9. Learned' /\ Unbounded'
  BY <1>1, <1>2, <1>5, <1>7 DEF Learned, Unbounded
<1>10. Origins'
  <2>1. \A x \in inflight' : \/ x.from = run /\ x.seq \in DOMAIN log /\ log[x.seq] = x.event
                             \/ x.from < run /\ (cfg.reused \/ shutdownFailed)
    BY <1>4 DEF Origins
  <2>2. d.event = "bad" => \/ d.from = run /\ "bad" \in Range(log)
                           \/ d.from < run /\ (cfg.reused \/ shutdownFailed)
    BY DEF Origins, Range
  <2>3. QED
    BY <1>1, <1>6, <2>1, <2>2 DEF Origins
<1>11. Heard'
  <2> SUFFICES ASSUME pc \in Listening, cfg.monitor PROVE Heard'
    BY <1>1 DEF Heard
  <2>1. ASSUME NEW i \in DOMAIN log, i > begun.since, log[i] = "bad"
        PROVE  run \in monitorErrors' \/ \E x \in inflight' : x.from = run /\ x.seq = i /\ Unheard(x)
    <3>1. CASE run \in monitorErrors
      BY <1>6, <3>1
    <3>2. CASE run \notin monitorErrors
      <4>1. PICK y \in inflight : y.from = run /\ y.seq = i /\ Unheard(y)
        BY <2>1, <3>2 DEF Heard
      <4>2. CASE y # d
        BY <1>4, <4>1, <4>2
      <4>3. CASE y = d
        <5>1. d.event = "bad"
          BY <2>1, <4>1, <4>3 DEF Origins, Types
        <5>2. Head(d.todo) = "monitor"
          BY <1>6, <4>1, <4>3 DEF Unheard
        <5>3. QED
          BY <1>6, <4>1, <4>3, <5>1, <5>2
      <4>4. QED
        BY <4>2, <4>3
    <3>3. QED
      BY <3>1, <3>2
  <2>2. QED
    BY <1>1, <2>1 DEF Heard
<1>12. CauseIsTrue' /\ Quiet' /\ NoVerdictYet'
  BY <1>1, <1>4, <1>7 DEF CauseIsTrue, Quiet, NoVerdictYet
<1>13. VerdictIsEarned'
  BY <1>1, <1>2, VerdictStaysEarned DEF VerdictStands
<1>14. QED
  BY <1>8, <1>9, <1>10, <1>11, <1>12, <1>13

(* The body declares a fresh object; a declaration of one of the two kinds  *)
(* leaves the other alone.                                                  *)
LEMMA DeclareEarns == ASSUME IInv, JInv, NEW k \in Kinds, Declare(k) PROVE JInv'
<1> USE DEF JInv
<1>1. /\ pc \in {"select", "exitWait", "bodyEnd", "stopping"}
      /\ registered' = registered \cup {k}
      /\ always' = IF k = "always" THEN NewAlways ELSE always
      /\ eventually' = IF k = "eventually" THEN FALSE ELSE eventually
      /\ UNCHANGED <<cfg, run, pc, log, subs, inflight, terminateWhen, twFired, timedOut, bo, cause,
                    monitorErrors, stopErr, shutdownFailed, result, reason, seen, begun>>
  BY DEF Declare, signalVars, healthVars, verdictVars
<1>2. Types' /\ Beginnings'
  <2>1. Types'
    BY <1>1, Zenon DEF Types
  <2>2. QED
    BY <1>1, <2>1 DEF Beginnings
<1>3. Learned'
  BY <1>1 DEF Learned, NewAlways, Kinds
<1>4. Unbounded' /\ CauseIsTrue' /\ Quiet' /\ NoVerdictYet' /\ pc' # "done"
  BY <1>1 DEF Unbounded, CauseIsTrue, Quiet, NoVerdictYet, NewAlways
<1>5. Origins' /\ Heard'
  BY <1>1 DEF Origins, Heard
<1>6. QED
  BY <1>2, <1>3, <1>4, <1>5, NoVerdictNoBlame

(* A step that only moves the body, the clock or a supervisor.              *)
LEMMA IdleEarns ==
  ASSUME JInv, timedOut => timedOut', timedOut' \in BOOLEAN,
         pc = "done" => timedOut' = timedOut,
         UNCHANGED <<cfg, run, pc, log, subs, inflight, registered, always, eventually,
                     terminateWhen, twFired, bo, cause, monitorErrors, supervisorErr, stopErr,
                     shutdownFailed, result, reason, seen, begun, judged>>
  PROVE  JInv'
<1>1. Types'
  BY DEF JInv, Types
<1>2. Beginnings' /\ Unbounded' /\ Quiet' /\ NoVerdictYet'
  BY DEF JInv, Beginnings, Unbounded, Quiet, NoVerdictYet
<1>3. CauseIsTrue' /\ Learned'
  BY DEF JInv, CauseIsTrue, Learned
<1>4. Origins' /\ Heard'
  BY DEF JInv, Origins, Heard
<1>5. VerdictIsEarned'
  <2>1. CASE pc = "done"
    BY <2>1, VerdictStaysEarned DEF JInv, VerdictStands
  <2>2. CASE pc # "done"
    BY <1>2, <2>2, NoVerdictNoBlame
  <2>3. QED
    BY <2>1, <2>2
<1>6. QED
  BY <1>1, <1>2, <1>3, <1>4, <1>5 DEF JInv

(* The world, step by step.                                                 *)
LEMMA WorldEarns == ASSUME IInv, JInv, WorldNext PROVE JInv'
<1>1. ASSUME NEW v \in cfg.events, Emit(v) PROVE JInv'
  <2>1. v \in Events
    BY ConfigAssumption DEF JInv, Types, ConfigType, Events
  <2>2. QED
    BY <1>1, <2>1, EmitEarns
<1>2. ASSUME NEW d \in inflight, CopySubscribers(d) \/ Dispatch(d) PROVE JInv'
  BY <1>2, CopyEarns, DispatchEarns
<1>3. ASSUME NEW k \in Kinds, Declare(k) PROVE JInv'
  BY <1>3, DeclareEarns
<1>4. timedOut \in BOOLEAN
  BY DEF JInv, Types
<1>5. ASSUME NEW o \in Finished, FinishBody(o) PROVE JInv'
  BY <1>4, <1>5, IdleEarns DEF FinishBody, expectationVars, signalVars, healthVars, verdictVars
<1>6. CASE Deadline
  BY <1>6, IdleEarns DEF Deadline, expectationVars, signalVars, healthVars, verdictVars
<1>7. CASE SupervisorDies
  BY <1>4, <1>7, IdleEarns DEF SupervisorDies, expectationVars, signalVars, verdictVars
<1>8. QED
  BY <1>1, <1>2, <1>3, <1>5, <1>6, <1>7 DEF WorldNext

(* Leaving the select: the cause that is chosen has its signal.             *)
LEMMA SelectEarns ==
  ASSUME IInv, JInv, BodyDoneArm \/ AlwaysFiredArm \/ TwFiredArm \/ BodyCtxArm
  PROVE  JInv'
<1> USE DEF JInv
<1>1. /\ pc = "select" /\ seen' = [seen EXCEPT !.violation = alwaysFired]
      /\ UNCHANGED <<cfg, run, log, subs, inflight, registered, always, eventually, terminateWhen,
                    twFired, timedOut, monitorErrors, stopErr, shutdownFailed, result, reason,
                    begun>>
  BY DEF BodyDoneArm, AlwaysFiredArm, TwFiredArm, BodyCtxArm, AwaitExit, expectationVars,
         signalVars, healthVars
<1>2. seen'.violation = alwaysFired
  BY <1>1 DEF IInv, Shape
<1>3. \/ pc' = "bodyEnd" /\ bo' \in Finished /\ cause' \in Drained("natural")
      \/ pc' = "exitWait" /\ bo' = bo /\ (cause' = "immediateFail" => alwaysFired)
         /\ cause' \in {"immediateFail", "terminateWhen", "timeout"}
         /\ (cause' = "terminateWhen" => twFired) /\ (cause' = "timeout" => BodyCtxDone)
         /\ (cause' = "timeout" => ~alwaysFired /\ ~twFired)
  <2>1. CASE BodyDoneArm
    BY <2>1 DEF BodyDoneArm
  <2>2. CASE AlwaysFiredArm
    BY <2>2 DEF AlwaysFiredArm, AwaitExit
  <2>3. CASE TwFiredArm
    BY <2>3 DEF TwFiredArm, AwaitExit
  <2>4. CASE BodyCtxArm
    BY <2>4 DEF BodyCtxArm, AwaitExit, Drained
  <2>5. QED
    BY <2>1, <2>2, <2>3, <2>4
<1>4. /\ bo' \in Finished \cup {"none", "leaked"} /\ cause' \in Causes
      /\ pc' = "bodyEnd" => bo' \in Finished
  BY <1>3 DEF Types, Causes, Drained
<1>5. CauseIsTrue'
  <2>1. (cause' = "terminateWhen" => twFired) /\ (cause' = "timeout" => timedOut)
    BY <1>3 DEF Drained, BodyCtxDone
  <2>2. pc' = "exitWait" => cause' \in {"terminateWhen", "timeout"} \/ seen'.violation
    BY <1>2, <1>3
  <2>3. QED
    BY <1>1, <1>3, <1>4, <2>1, <2>2 DEF CauseIsTrue, Finished
<1>6. Types' /\ Beginnings'
  <2>1. Types'
    BY <1>1, <1>4 DEF Types
  <2>2. QED
    BY <1>1, <1>3, <2>1 DEF Beginnings
<1>7. Learned' /\ Origins'
  BY <1>1 DEF Learned, Origins
<1>8. Heard'
  BY <1>1 DEF Heard, Listening
<1>9. Unbounded' /\ Quiet' /\ NoVerdictYet' /\ pc' # "done"
  BY <1>1, <1>3 DEF Unbounded, Quiet, NoVerdictYet
<1>10. QED
  BY <1>5, <1>6, <1>7, <1>8, <1>9, NoVerdictNoBlame

(* The way from the body's end to the decision.                             *)
LEMMA TeardownEarns ==
  ASSUME IInv, JInv, WaitBodyExit \/ EndBody \/ StopServices PROVE JInv'
<1> USE DEF JInv
<1>1. /\ pc \in {"exitWait", "bodyEnd", "stopping"} /\ pc' \in {"bodyEnd", "stopping", "decide"}
      /\ UNCHANGED <<cfg, run, log, subs, inflight, registered, eventually, terminateWhen, twFired,
                    timedOut, monitorErrors, result, reason, begun>>
  BY DEF WaitBodyExit, EndBody, StopServices, expectationVars, signalVars, verdictVars
<1>2. /\ always'.violated = always.violated
      /\ cfg.to = "none" => always'.ended = always.ended
      /\ seen'.violation = seen.violation
  BY DEF WaitBodyExit, EndBody, StopServices, expectationVars, verdictVars, SignalBodyEnd, IInv, Shape
<1>3. /\ bo' \in Finished \cup {"leaked"} /\ cause' \in Causes
      /\ cause' # cause => cause' = "immediateFail" /\ bo # "leaked"
      /\ bo' # bo => pc = "exitWait" /\ cause' = cause
  <2>1. CASE WaitBodyExit
    BY <2>1 DEF WaitBodyExit, Types
  <2>2. CASE EndBody
    BY <2>2 DEF EndBody, Types, Causes, CauseIsTrue
  <2>3. CASE StopServices
    BY <2>3 DEF StopServices, Types, CauseIsTrue
  <2>4. QED
    BY <2>1, <2>2, <2>3
<1>4. Types' /\ Beginnings'
  <2>1. Types'
    BY <1>1, <1>3 DEF Types
  <2>2. QED
    BY <1>1, <2>1 DEF Beginnings
<1>5. CauseIsTrue'
  <2>1. bo' = "leaked" => cause' = cause
    BY <1>3
  <2>2. bo' = "leaked" => cause \in {"terminateWhen", "timeout"} \/ seen.violation
    BY <1>1, <1>3 DEF CauseIsTrue, Leaving
  <2>3. (cause' = "terminateWhen" => twFired) /\ (cause' = "timeout" => timedOut)
    BY <1>3 DEF CauseIsTrue
  <2>4. bo' # "none"
    BY <1>3 DEF Finished
  <2>5. QED
    BY <1>1, <1>2, <2>1, <2>2, <2>3, <2>4 DEF CauseIsTrue
<1>6. Learned'
  BY <1>1, <1>2 DEF Learned
<1>7. Quiet' /\ (shutdownFailed => shutdownFailed')
  BY <1>1 DEF WaitBodyExit, EndBody, StopServices, TearDown, Quiet, healthVars
<1>8. Origins'
  BY <1>1, <1>7 DEF Origins
<1>9. Heard'
  BY <1>1 DEF Heard, Listening
<1>10. Unbounded' /\ NoVerdictYet' /\ pc' # "done"
  BY <1>1, <1>2 DEF Unbounded, NoVerdictYet
<1>11. QED
  BY <1>4, <1>5, <1>6, <1>7, <1>8, <1>9, <1>10, NoVerdictNoBlame

(* What each verdict says of the checks before it.                          *)
LEMMA ExpectationMeans ==
  ASSUME NEW a, NEW e \in BOOLEAN, a.violated \in BOOLEAN, NEW v \in ExpectationVerdict(a, e),
         registered \subseteq Kinds
  PROVE  /\ \/ v = <<"fail", "always">> /\ "always" \in registered /\ a.violated
            \/ v = <<"fail", "eventually">> /\ "eventually" \in registered /\ ~e
               /\ cause # "timeout"
            \/ v = <<"inconclusive", "timeout">> /\ cause = "timeout"
            \/ /\ v = <<"pass", "none">> /\ cause # "timeout"
               /\ "always" \in registered => ~a.violated
               /\ "eventually" \in registered => e
<1>1. /\ <<"always", "fail">> \in FinalVerdicts(a, e) <=>
            "always" \in registered /\ FinalizeAlways(a, cause) = "fail"
      /\ <<"eventually", "fail">> \in FinalVerdicts(a, e) <=>
            "eventually" \in registered /\ FinalizeEventually(e, cause) = "fail"
      /\ <<"always", "pending">> \in FinalVerdicts(a, e) <=>
            "always" \in registered /\ FinalizeAlways(a, cause) = "pending"
      /\ <<"eventually", "pending">> \in FinalVerdicts(a, e) <=>
            "eventually" \in registered /\ FinalizeEventually(e, cause) = "pending"
  BY DEF FinalVerdicts
<1>2. /\ FinalizeAlways(a, cause) = "fail" <=> a.violated
      /\ FinalizeAlways(a, cause) = "pending" => cause = "timeout"
      /\ FinalizeEventually(e, cause) = "fail" <=> ~e /\ cause # "timeout"
      /\ FinalizeEventually(e, cause) = "pending" => cause = "timeout"
  BY DEF FinalizeAlways, FinalizeEventually
<1>3. CASE \E k \in Kinds : <<k, "fail">> \in FinalVerdicts(a, e)
  <2>1. ExpectationVerdict(a, e) =
           {<<"fail", k>> : k \in {x \in Kinds : <<x, "fail">> \in FinalVerdicts(a, e)}}
    BY <1>3, Zenon DEF ExpectationVerdict
  <2>2. PICK k \in Kinds : <<k, "fail">> \in FinalVerdicts(a, e) /\ v = <<"fail", k>>
    BY <2>1, Zenon
  <2>3. QED
    BY <1>1, <1>2, <2>2 DEF Kinds
<1>4. CASE ~(\E k \in Kinds : <<k, "fail">> \in FinalVerdicts(a, e))
  <2>1. ("always" \in registered => ~a.violated) /\ ("eventually" \in registered => e \/ cause = "timeout")
    BY <1>1, <1>2, <1>4 DEF Kinds
  <2>2. (\E k \in Kinds : <<k, "pending">> \in FinalVerdicts(a, e)) => cause = "timeout"
    BY <1>1, <1>2 DEF Kinds
  <2>3. v = IF cause = "timeout" THEN <<"inconclusive", "timeout">> ELSE <<"pass", "none">>
    BY <1>4, <2>2 DEF ExpectationVerdict
  <2>4. QED
    BY <2>1, <2>3
<1>5. QED
  BY <1>3, <1>4

(* A run that passes its monitors was heard by them to the end, when its    *)
(* services ended with it.                                                  *)
LEMMA AllHeard ==
  ASSUME Types, Heard, Quiet, pc = "decide", ~stopErr, cfg.monitor, ~cfg.reused, monitorErrors = {}
  PROVE  \A i \in DOMAIN log : i > begun.since => log[i] # "bad"
<1>1. inflight = {} /\ run \notin monitorErrors
  BY DEF Quiet
<1>2. QED
  BY <1>1 DEF Heard, Listening

(* The decision: each check that may give the verdict gives it for a cause, *)
(* and the one that passes the run comes after all of them.                 *)
LEMMA DecideEarns == ASSUME IInv, JInv, Decide PROVE JInv'
<1> USE DEF JInv
<1> DEFINE a == EvaluateAlways(always, log)
           e == EvaluateEventually(eventually, log)
           aa == IF "always" \in registered THEN a ELSE always
           ee == IF "eventually" \in registered THEN e ELSE eventually
           AlwaysType == [started : BOOLEAN, ended : BOOLEAN, violated : BOOLEAN]
<1>1. PICK v \in Verdict(aa, ee) :
         /\ result' = IF stopErr THEN "fail" ELSE v[1]
         /\ reason' = IF stopErr THEN "teardown" ELSE v[2]
         /\ always' \in {aa, always} /\ eventually' \in {ee, eventually}
  BY DEF Decide
<1>2. /\ pc = "decide" /\ pc' = "done" /\ subs' = <<>>
      /\ judged'.log = log /\ judged'.errors = monitorErrors
      /\ UNCHANGED <<cfg, run, log, inflight, registered, terminateWhen, twFired, timedOut, bo,
                    cause, monitorErrors, supervisorErr, stopErr, shutdownFailed, seen, begun>>
  BY DEF Decide, signalVars, healthVars
<1>3. /\ aa \in AlwaysType /\ ee \in BOOLEAN
      /\ aa.violated => always.violated \/ "bad" \in Range(log)
      /\ cfg.to = "none" => ~aa.ended
      /\ "eventually" \in registered => (ee <=> eventually \/ Holds("good", log))
      /\ "always" \in registered /\ cfg.to = "none" /\ cfg.from = "start" /\ Holds("bad", log)
            => aa.violated
  <2>1. always \in AlwaysType /\ log \in Seq(Events) /\ eventually \in BOOLEAN
    BY DEF IInv, Shape, Types
  <2>2. /\ a \in AlwaysType
        /\ a.violated => always.violated \/ "bad" \in Range(log)
        /\ cfg.to = "none" => ~a.ended
        /\ cfg.to = "none" /\ cfg.from = "start" /\ Holds("bad", log) => a.violated
    BY <2>1, EvaluateSticks, EvaluateLearns DEF Unbounded
  <2>3. e \in BOOLEAN /\ (e <=> eventually \/ Holds("good", log))
    BY <2>1 DEF EvaluateEventually
  <2>4. /\ aa \in {a, always} /\ ee \in {e, eventually}
        /\ "always" \in registered => aa = a
        /\ "eventually" \in registered => ee = e
    OBVIOUS
  <2> HIDE DEF a, e, aa, ee
  <2>5. /\ aa \in AlwaysType /\ (aa.violated => always.violated \/ "bad" \in Range(log))
        /\ cfg.to = "none" => ~aa.ended
    BY <2>1, <2>2, <2>4 DEF Unbounded
  <2>6. ee \in BOOLEAN
    BY <2>1, <2>3, <2>4
  <2>7. "eventually" \in registered => (ee <=> eventually \/ Holds("good", log))
    BY <2>3, <2>4
  <2>8. QED
    BY <2>2, <2>4, <2>5, <2>6, <2>7
<1>4. Types' /\ Beginnings' /\ Unbounded'
  <2>1. subs' \in Seq(Watchers)
    BY <1>2
  <2>2. Types'
    BY <1>1, <1>2, <1>3, <2>1 DEF Types
  <2>3. Unbounded'
    BY <1>1, <1>2, <1>3 DEF Unbounded
  <2>4. QED
    BY <1>2, <2>2, <2>3 DEF Beginnings
<1>5. CauseIsTrue' /\ Quiet' /\ NoVerdictYet' /\ Origins' /\ Heard'
  BY <1>2 DEF CauseIsTrue, Leaving, Quiet, NoVerdictYet, Origins, Heard, Listening
<1>6. \A w, l : Holds(w, l)' <=> Holds(w, l)
  BY <1>2 DEF Holds
<1>7. "always" \in registered /\ (aa.violated \/ always.violated) =>
         "bad" \in Range(log) \/ (cfg.expect = "always" /\ begun.violated)
  BY <1>3 DEF Learned
<1>8. Learned'
  BY <1>1, <1>2, <1>7 DEF Learned
<1>9. \/ v \in {<<"error", "supervisor">>, <<"fail", "diagnostics">>}
      \/ v[1] \in {"halted", "error", "fail"} /\ v[2] = "body" /\ bo \in BodyErrors
      \/ v = <<"fail", "monitor">> /\ monitorErrors # {}
      \/ v \in ExpectationVerdict(aa, ee) /\ ~supervisorErr /\ ~BodyFailed /\ monitorErrors = {}
  <2>1. BodyVerdict[1] \in {"halted", "error", "fail"} /\ BodyVerdict[2] = "body"
    BY DEF BodyVerdict
  <2>2. QED
    BY <2>1 DEF Verdict, BodyFailed
<1> HIDE DEF a, e, aa, ee
<1>10. VerdictHasCause'
  <2>1. "eventually" \in registered /\ ~ee => ~Holds("good", log)
    BY <1>3
  <2>2. CASE v \in ExpectationVerdict(aa, ee)
    <3>1. /\ v[2] \in {"always", "eventually", "timeout", "none"}
          /\ v[2] = "always" => "always" \in registered /\ aa.violated
          /\ v[2] = "eventually" => "eventually" \in registered /\ ~ee /\ cause # "timeout"
          /\ v[1] = "inconclusive" => cause = "timeout"
          /\ v[1] = "pass" => cause # "timeout"
      <4>1. ee \in BOOLEAN /\ aa.violated \in BOOLEAN /\ registered \subseteq Kinds
        BY <1>3 DEF Types
      <4>2. \/ v = <<"fail", "always">> /\ "always" \in registered /\ aa.violated
            \/ v = <<"fail", "eventually">> /\ "eventually" \in registered /\ ~ee
               /\ cause # "timeout"
            \/ v = <<"inconclusive", "timeout">> /\ cause = "timeout"
            \/ v = <<"pass", "none">> /\ cause # "timeout"
        BY <2>2, <4>1, ExpectationMeans, Zenon
      <4>3. QED
        BY ONLY <4>2
    <3>2. QED
      BY <1>1, <1>2, <1>6, <1>7, <2>1, <3>1 DEF VerdictHasCause, CauseIsTrue
  <2>3. CASE v \notin ExpectationVerdict(aa, ee)
    <3>1. /\ v[1] \in {"halted", "error", "fail"}
          /\ v[2] \in {"supervisor", "diagnostics", "body", "monitor"}
          /\ v[2] = "body" => bo \in BodyErrors
          /\ v[2] = "monitor" => monitorErrors # {}
      BY <1>9, <2>3
    <3>2. ASSUME monitorErrors # {}, ~stopErr
          PROVE  "bad" \in Range(log) \/ (cfg.reused /\ \E r \in monitorErrors : r < run)
      <4>1. ~shutdownFailed
        BY <1>2, <3>2 DEF Quiet
      <4>2. QED
        BY <3>2, <4>1 DEF Origins
    <3>3. QED
      BY <1>1, <1>2, <3>1, <3>2 DEF VerdictHasCause
  <2>4. QED
    BY <2>2, <2>3
<1>11. PassIsEarned'
  <2> SUFFICES ASSUME result' = "pass" PROVE PassIsEarned'
    BY DEF PassIsEarned
  <2>1. v[1] = "pass" /\ ~stopErr
    BY <1>1
  <2>2. v \in ExpectationVerdict(aa, ee) /\ ~supervisorErr /\ ~BodyFailed /\ monitorErrors = {}
    BY <1>9, <2>1
  <2>3. /\ cause # "timeout" /\ ("always" \in registered => ~aa.violated)
        /\ "eventually" \in registered => ee
    BY <1>3, <2>1, <2>2, ExpectationMeans DEF Types
  <2>4. \/ bo = "returned"
        \/ cause = "terminateWhen" /\ ("stop" \in Range(log) \/ begun.terminated)
    <3>1. bo \in {"returned", "leaked"} \/ cause = "terminateWhen"
      BY <1>2, <2>2, <2>3 DEF BodyFailed, BodyErrors, Types, Finished, CauseIsTrue
    <3>2. ~seen.violation
      <4>1. seen.violation => "always" \in registered /\ always.violated
        BY <1>2 DEF IInv, CauseIsKept, SignalIsTrue, Leaving
      <4>2. "always" \in registered /\ always.violated => aa.violated
        BY EvaluateSticks DEF IInv, Shape, a, aa
      <4>3. QED
        BY <2>3, <4>1, <4>2
    <3>3. bo = "leaked" => cause = "terminateWhen"
      BY <1>2, <2>3, <3>2 DEF CauseIsTrue, Leaving
    <3>4. QED
      BY <3>1, <3>3 DEF CauseIsTrue, Learned
  <2>5. "always" \in registered /\ cfg.to = "none" /\ cfg.from = "start" => ~Holds("bad", log)
    BY <1>3, <2>3
  <2>6. "eventually" \in registered =>
           Holds("good", log) \/ (cfg.expect = "eventually" /\ begun.satisfied)
    BY <1>2, <1>3, <2>3 DEF Learned
  <2>7. cfg.monitor /\ ~cfg.reused => \A i \in DOMAIN log : i > begun.since => log[i] # "bad"
    BY <1>2, <2>1, <2>2, AllHeard
  <2>8. QED
    BY <1>2, <1>6, <2>1, <2>2, <2>4, <2>5, <2>6, <2>7 DEF PassIsEarned
<1>12. QED
  BY <1>4, <1>5, <1>8, <1>10, <1>11 DEF VerdictIsEarned

(* The verdict of a run is earned: a pass refutes nothing that was declared *)
(* and no monitor's complaint about an event since it subscribed, and what  *)
(* a failure, an error or an "inconclusive" blames did happen, in the run   *)
(* or, through an object or a service that outlives runs, in an earlier one *)
(* (runTestImpl's chain of checks and the expectations' Finalize).          *)
THEOREM VerdictsAreEarned == Spec => []VerdictIsEarned
<1>1. Init => IInv /\ JInv
  <2> SUFFICES ASSUME Init PROVE JInv
    BY InitHolds
  <2>1. /\ cfg \in Configs /\ run = 0 /\ pc = "idle" /\ log = <<>> /\ subs = <<>> /\ inflight = {}
        /\ registered = {} /\ eventually = FALSE /\ terminateWhen = FALSE /\ twFired = FALSE
        /\ timedOut = FALSE /\ bo = "none" /\ cause = "natural" /\ monitorErrors = {}
        /\ result = "none" /\ reason = "none"
        /\ always.ended = FALSE /\ always.violated = FALSE
    BY DEF Init, NewAlways
  <2>2. begun \in [violated : BOOLEAN, satisfied : BOOLEAN, terminated : BOOLEAN, since : Nat]
    BY DEF Init, FirstRun
  <2>3. Types
    <3>1. eventually \in BOOLEAN /\ terminateWhen \in BOOLEAN /\ timedOut \in BOOLEAN
      BY <2>1, Zenon
    <3>2. QED
      BY <2>1, <2>2, <3>1 DEF Types, Causes
  <2>4. Beginnings /\ Learned /\ Unbounded /\ Origins /\ Heard /\ CauseIsTrue /\ Quiet /\ NoVerdictYet
    BY <2>1, Zenon DEF Beginnings, Learned, Unbounded, Origins, Heard, Listening, CauseIsTrue, Quiet,
                NoVerdictYet, Leaving
  <2>5. PassIsEarned /\ VerdictHasCause
    <3>1. result # "pass" /\ reason \notin {"always", "monitor", "eventually", "body"} /\ pc # "done"
      BY <2>1
    <3>2. QED
      BY <3>1 DEF PassIsEarned, VerdictHasCause
  <2>6. QED
    BY <2>3, <2>4, <2>5 DEF JInv, VerdictIsEarned
<1>2. IInv /\ JInv /\ [Next]_vars => IInv' /\ JInv'
  <2> SUFFICES ASSUME IInv, JInv, [Next]_vars PROVE JInv'
    BY StepHolds
  <2>1. CASE UNCHANGED vars
    <3>1. timedOut \in BOOLEAN
      BY DEF JInv, Types
    <3>2. QED
      BY <2>1, <3>1, IdleEarns DEF vars
  <2>2. QED
    BY <2>1, RefuseEarns, ResetEarns, EarlyEarns, SubscribeEarns, StartEarns, WorldEarns, SelectEarns,
       TeardownEarns, DecideEarns DEF Next, TestNext, Terminated
<1>3. JInv => VerdictIsEarned
  BY DEF JInv
<1>4. QED
  BY <1>1, <1>2, <1>3, PTL DEF Spec

----------------------------------------------------------------------------
(* The final cleanup leaves nothing, for every list of services, every      *)
(* specification of them and every number of tests and faults (Services).   *)

CONSTANTS Order, DependsOn, Setups, MaxTests, MaxFaults

VARIABLES setup, vpc, at, stage, vtest, session, recorded, proc, inst, orphans, data, proxy, env,
          ctxDone, poisoned, faults, panicked

V == INSTANCE Services WITH pc <- vpc, test <- vtest

(* The part of the state cleanup is about.                                  *)
Known ==
    /\ inst \in [V!Names -> Nat] /\ proxy \in [V!Names -> Nat]
    /\ proc \in [V!Names -> {"none", "up", "dead"}]
    /\ session \subseteq V!Names /\ recorded \subseteq V!Names

Place == at \in 0..Len(Order) /\ (vpc = "starting" => at # 0) /\ vtest \in Nat

ServicesShape == Known /\ Place

(* Nothing the runtime knows of service s is left.                          *)
Clean(s) ==
    /\ s \notin session /\ s \notin recorded /\ proxy[s] = 0
    /\ s \in V!Managed => proc[s] = "none"

(* Cleanup walks down the order and leaves what it has passed clean.        *)
Passed ==
    /\ vpc = "cleanup" /\ ~poisoned => \A i \in 1..Len(Order) : i > at => Clean(Order[i])
    /\ vpc = "done" /\ ~poisoned => \A i \in 1..Len(Order) : Clean(Order[i])

(* The inductive invariant.                                                 *)
ServicesInv == ServicesShape /\ Passed

(* The places of the order are the services.                                *)
LEMMA OrderCovers ==
  ASSUME V!ServicesConstants
  PROVE  /\ Len(Order) \in Nat \ {0} /\ \A i \in 1..Len(Order) : Order[i] \in V!Names
         /\ \A s \in V!Names : \E i \in 1..Len(Order) : Order[i] = s
<1>1. Order \in Seq(V!Names) /\ Order # <<>>
  BY DEF V!ServicesConstants
<1>2. DOMAIN Order = 1..Len(Order) /\ Len(Order) \in Nat \ {0}
  BY <1>1
<1>3. QED
  BY <1>2 DEF V!Names, V!Range

(* A stop, whether it works or not, keeps the state in shape.               *)
LEMMA StopKeepsKnown == ASSUME Known, NEW s \in V!Names, V!StopOneService(s) PROVE Known'
BY DEF Known, V!StopOneService

(* Starting, running and stopping a test are not cleanup: only the shape    *)
(* matters.                                                                 *)
LEMMA TestStepsPreserve ==
  ASSUME V!ServicesConstants, ServicesInv,
         V!Panic \/ V!ContextEnds \/ V!BeginTest \/ V!ReuseService \/ V!Launch \/ V!Handshake
           \/ V!Healthcheck \/ V!Seed \/ V!PreStartProxies \/ V!Body \/ V!StopNext \/ V!Stopped,
         UNCHANGED setup
  PROVE  ServicesInv'
<1> USE DEF ServicesInv, V!world
<1>0. PICK n \in Nat \ {0} : n = Len(Order) /\ \A i \in 1..n : Order[i] \in V!Names
  BY OrderCovers
<1>1. vpc' \notin {"cleanup", "done"}
  BY Zenon DEF V!Panic, V!ContextEnds, V!BeginTest, V!ReuseService, V!Launch, V!Handshake, V!Healthcheck,
         V!Seed, V!PreStartProxies, V!Body, V!StopNext, V!Stopped, V!Advance, V!StartFails
<1>2. Place'
  <2>1. CASE V!Panic \/ V!ContextEnds \/ V!BeginTest \/ V!Body \/ V!Stopped \/ V!StopNext
    <3>1. CASE V!Panic \/ V!ContextEnds
      BY <2>1, <3>1 DEF V!Panic, V!ContextEnds, ServicesShape, Place
    <3>2. CASE V!BeginTest \/ V!Body
      <4>1. CASE V!BeginTest
        BY <1>0, <4>1 DEF V!BeginTest, ServicesShape, Place
      <4>2. CASE V!Body
        BY <1>0, <4>2 DEF V!Body, ServicesShape, Place
      <4>3. QED
        BY ONLY <3>2, <4>1, <4>2, Zenon
    <3>3. CASE V!Stopped \/ V!StopNext
      <4>1. CASE V!Stopped
        BY <1>0, <4>1 DEF V!Stopped, ServicesShape, Place
      <4>2. CASE V!StopNext
        <5>1. at' = at - 1 /\ at > 0 /\ vpc' = "stopping" /\ vtest' = vtest
          BY <4>2 DEF V!StopNext
        <5>2. QED
          BY <1>0, <5>1 DEF ServicesShape, Place
      <4>3. QED
        BY ONLY <3>3, <4>1, <4>2, Zenon
    <3>4. QED
      BY ONLY <2>1, <3>1, <3>2, <3>3, Zenon
  <2>2. CASE V!ReuseService \/ V!Launch \/ V!Handshake \/ V!Healthcheck \/ V!Seed \/ V!PreStartProxies
    <3>1. vpc = "starting" /\ vtest' = vtest
      BY <2>2, Zenon DEF V!ReuseService, V!Launch, V!Handshake, V!Healthcheck, V!Seed, V!PreStartProxies
    <3>2. V!Advance \/ V!StartFails \/ UNCHANGED <<vpc, at>>
      BY <2>2, Zenon DEF V!ReuseService, V!Launch, V!Handshake, V!Healthcheck, V!Seed, V!PreStartProxies
    <3>3. Place
      BY Zenon DEF ServicesShape
    <3>4. at \in 1..n /\ vtest' \in Nat
      BY ONLY <1>0, <3>1, <3>3 DEF Place
    <3>5. at' \in 1..n
      BY ONLY <1>0, <3>2, <3>4 DEF V!Advance, V!StartFails
    <3>6. QED
      BY ONLY <1>0, <3>4, <3>5 DEF Place
  <2>3. QED
    BY <2>1, <2>2, Zenon
<1>3. Known'
  <2>1. CASE V!Panic \/ V!ContextEnds \/ V!BeginTest \/ V!Body \/ V!Stopped
    <3>1. UNCHANGED <<inst, proxy, proc, session, recorded>>
      BY <2>1, Zenon DEF V!Panic, V!ContextEnds, V!BeginTest, V!Body, V!Stopped
    <3>2. QED
      BY <3>1, Zenon DEF ServicesShape, Known
  <2>2. CASE V!ReuseService \/ V!Healthcheck \/ V!Seed
    BY <2>2 DEF V!ReuseService, V!Healthcheck, V!Seed, ServicesShape, Known
  <2>3. at # 0 => V!current \in V!Names
    <3>1. Place
      BY Zenon DEF ServicesShape
    <3>2. QED
      BY ONLY <1>0, <3>1 DEF Place, V!current
  <2>4. CASE V!Launch
    <3>1. V!current \in V!Names
      BY <2>3, <2>4 DEF V!Launch, ServicesShape, Place
    <3>2. CASE UNCHANGED V!world
      BY <3>2 DEF ServicesShape, Known
    <3>3. CASE V!Launched(V!current) /\ UNCHANGED <<recorded, proxy>>
               /\ session' \in {session, session \cup {V!current}}
      BY <3>1, <3>3 DEF V!Launched, ServicesShape, Place, Known
    <3>4. QED
      BY <2>4, <3>2, <3>3 DEF V!Launch
  <2>5. CASE V!Handshake
    <3>1. V!current \in V!Names
      BY <2>3, <2>5 DEF V!Handshake, ServicesShape, Place
    <3>2. /\ session' \in {session, session \cup {V!current}}
          /\ recorded' \in {recorded, recorded \cup {V!current}}
          /\ inst' \in {inst, [inst EXCEPT ![V!current] = 0]} /\ proxy' = proxy
          /\ proc' \in {proc, [proc EXCEPT ![V!current] = "none"], [proc EXCEPT ![V!current] = "up"]}
      BY <2>5 DEF V!Handshake
    <3>3. session' \subseteq V!Names /\ recorded' \subseteq V!Names /\ proxy' \in [V!Names -> Nat]
      BY <3>1, <3>2 DEF ServicesShape, Known
    <3>4. inst' \in [V!Names -> Nat]
      <4>1. inst \in [V!Names -> Nat]
        BY DEF ServicesShape, Known
      <4>2. [inst EXCEPT ![V!current] = 0] \in [V!Names -> Nat]
        BY ONLY <4>1, Zenon
      <4>3. QED
        BY ONLY <3>2, <4>1, <4>2, Zenon
    <3>5. proc' \in [V!Names -> {"none", "up", "dead"}]
      <4>1. proc \in [V!Names -> {"none", "up", "dead"}]
        BY DEF ServicesShape, Known
      <4>2. /\ [proc EXCEPT ![V!current] = "none"] \in [V!Names -> {"none", "up", "dead"}]
            /\ [proc EXCEPT ![V!current] = "up"] \in [V!Names -> {"none", "up", "dead"}]
        BY ONLY <4>1, Zenon
      <4>3. QED
        BY ONLY <3>2, <4>1, <4>2, Zenon
    <3>6. QED
      BY <3>3, <3>4, <3>5 DEF Known
  <2>6. CASE V!PreStartProxies
    <3>1. V!current \in V!Names
      BY <2>3, <2>6 DEF V!PreStartProxies, ServicesShape, Place
    <3>2. /\ proxy' \in {proxy, [proxy EXCEPT ![V!current] = inst[V!current]]}
          /\ UNCHANGED <<inst, proc, session, recorded>>
      <4>1. CASE proxy' = [proxy EXCEPT ![V!current] = IF @ # 0 THEN @ ELSE inst[V!current]]
        <5>1. proxy \in [V!Names -> Nat]
          BY DEF ServicesShape, Known
        <5>2. proxy' = proxy \/ proxy' = [proxy EXCEPT ![V!current] = inst[V!current]]
          BY ONLY <3>1, <4>1, <5>1, Zenon
        <5>3. QED
          BY <2>6, <5>2, Zenon DEF V!PreStartProxies
      <4>2. CASE proxy' = proxy
        BY <2>6, <4>2, Zenon DEF V!PreStartProxies
      <4>3. QED
        BY <2>6, <4>1, <4>2, Zenon DEF V!PreStartProxies
    <3>3. [proxy EXCEPT ![V!current] = inst[V!current]] \in [V!Names -> Nat]
      BY <3>1 DEF ServicesShape, Known
    <3>4. QED
      BY <3>2, <3>3, Zenon DEF ServicesShape, Known
  <2>7. CASE V!StopNext
    <3>1. Known
      BY Zenon DEF ServicesShape
    <3>2. at # 0
      BY <2>7 DEF V!StopNext
    <3>3. CASE V!StopOneService(V!current)
      BY ONLY <2>3, <3>1, <3>2, <3>3, StopKeepsKnown, Zenon
    <3>4. CASE UNCHANGED V!world
      BY ONLY <3>1, <3>4, Zenon DEF V!world, Known
    <3>5. QED
      BY <2>7, <3>3, <3>4, Zenon DEF V!StopNext
  <2>8. QED
    BY <2>1, <2>2, <2>4, <2>5, <2>6, <2>7, Zenon
<1>4. Passed'
  BY <1>1, Zenon DEF Passed
<1>5. QED
  BY ONLY <1>2, <1>3, <1>4, Zenon DEF ServicesInv, ServicesShape

(* A process that dies during cleanup was up, so not of a clean service.    *)
LEMMA DeathPreserves ==
  ASSUME V!ServicesConstants, ServicesInv, NEW s \in V!Names, V!ProcessDies(s), UNCHANGED setup
  PROVE  ServicesInv'
<1> USE OrderCovers DEF ServicesInv
<1>1. ServicesShape'
  BY DEF V!ProcessDies, ServicesShape, Known, Place
<1>2. \A t \in V!Names : Clean(t) => Clean(t)'
  BY DEF V!ProcessDies, ServicesShape, Known, Clean, V!Managed, V!Kind
<1>3. QED
  BY <1>1, <1>2 DEF V!ProcessDies, Passed

(* A stop that works makes its service clean and no other dirty.            *)
LEMMA StopCleans ==
  ASSUME ServicesShape, NEW s \in V!Names, V!StopOneService(s), UNCHANGED setup, ~poisoned'
  PROVE  Clean(s)' /\ \A t \in V!Names : Clean(t) => Clean(t)'
BY DEF ServicesShape, Known, V!StopOneService, Clean, V!Managed, V!Kind

(* Cleanup itself.                                                          *)
LEMMA CleanupPreserves ==
  ASSUME V!ServicesConstants, ServicesInv, V!Cleanup \/ V!CleanupNext, UNCHANGED setup
  PROVE  ServicesInv'
<1> USE OrderCovers DEF ServicesInv, V!world
<1>1. CASE V!Cleanup
  <2>1. Known' /\ Place'
    BY <1>1 DEF V!Cleanup, ServicesShape, Known, Place
  <2>2. Passed'
    BY <1>1 DEF V!Cleanup, Passed
  <2>3. QED
    BY ONLY <2>1, <2>2, Zenon DEF ServicesInv, ServicesShape
<1>2. CASE V!CleanupNext /\ at = 0
  <2>1. /\ vpc = "cleanup" /\ vpc' = "done" /\ at' = at /\ vtest' = vtest /\ poisoned' = poisoned
        /\ UNCHANGED <<session, recorded, proc, inst, proxy>>
    BY <1>2 DEF V!CleanupNext
  <2>2. Known' /\ Place'
    BY <2>1 DEF ServicesShape, Known, Place
  <2>3. \A s \in V!Names : Clean(s) => Clean(s)'
    BY <2>1 DEF Clean, V!Managed, V!Kind
  <2>4. \A i \in 1..Len(Order) : i > at
    BY <1>2
  <2>5. Passed'
    BY <2>1, <2>3, <2>4 DEF Passed
  <2>6. QED
    BY ONLY <2>2, <2>5, Zenon DEF ServicesInv, ServicesShape
<1>3. CASE V!CleanupNext /\ at # 0
  <2>1. /\ at \in 1..Len(Order) /\ at' = at - 1 /\ vpc' = "cleanup" /\ vpc = "cleanup"
        /\ V!current \in V!Names /\ V!StopOneService(V!current) /\ vtest' = vtest
    BY <1>3 DEF V!CleanupNext, ServicesShape, Place, V!current
  <2>2. ServicesShape'
    BY <2>1, StopKeepsKnown DEF ServicesShape, Place
  <2>3. ASSUME ~poisoned', NEW i \in 1..Len(Order), i > at' PROVE Clean(Order[i])'
    <3>1. ~poisoned
      BY <2>1, <2>3 DEF V!StopOneService
    <3>2. i = at \/ Clean(Order[i])
      BY <2>1, <2>3, <3>1 DEF Passed
    <3>3. QED
      BY <2>1, <2>3, <3>2, StopCleans DEF V!current
  <2>4. QED
    BY <2>1, <2>2, <2>3 DEF Passed
<1>4. QED
  BY <1>1, <1>2, <1>3

(* Whatever panicked, crashed, timed out or failed to start before it, the  *)
(* cleanup after the last test leaves no session, recorded container, proxy *)
(* or managed process, unless a shutdown failed (runtime.go:3302-3330).     *)
THEOREM CleanupLeavesNothing == V!ServicesConstants => (V!Spec => []V!NothingLeft)
<1> SUFFICES ASSUME V!ServicesConstants PROVE V!Spec => []V!NothingLeft
  OBVIOUS
<1>1. V!Init => ServicesInv
  <2> SUFFICES ASSUME V!Init PROVE ServicesInv
    OBVIOUS
  <2>1. Known
    BY DEF V!Init, Known
  <2>2. Place
    BY OrderCovers DEF V!Init, Place
  <2>3. Passed
    BY DEF V!Init, Passed
  <2>4. QED
    BY ONLY <2>1, <2>2, <2>3, Zenon DEF ServicesInv, ServicesShape
<1>2. ServicesInv /\ [V!Next]_(V!vars) => ServicesInv'
  <2> SUFFICES ASSUME ServicesInv, [V!Next]_(V!vars) PROVE ServicesInv'
    OBVIOUS
  <2>1. CASE UNCHANGED V!vars
    BY <2>1 DEF V!vars, ServicesInv, ServicesShape, Known, Place, Passed, Clean, V!Managed, V!Kind
  <2>2. QED
    BY <2>1, TestStepsPreserve, DeathPreserves, CleanupPreserves DEF V!Next, V!Done
<1>3. ServicesInv => V!NothingLeft
  <2> SUFFICES ASSUME ServicesInv, vpc = "done", ~poisoned
               PROVE  /\ session = {} /\ recorded = {}
                      /\ \A s \in V!Names : proxy[s] = 0 /\ (s \in V!Managed => proc[s] = "none")
    BY DEF V!NothingLeft
  <2>1. \A s \in V!Names : Clean(s)
    BY OrderCovers DEF ServicesInv, Passed
  <2>2. QED
    BY <2>1 DEF ServicesInv, ServicesShape, Known, Clean
<1>4. QED
  BY <1>1, <1>2, <1>3, PTL DEF V!Spec

----------------------------------------------------------------------------
(* What a supervised session leaves behind and reports, for any number of   *)
(* intercepted calls and any set of modes (Supervisor).                     *)

CONSTANTS Calls, Modes

VARIABLES mode, target, sigkill, call, handler, loop, why, term, waitDone, cancelled, stopNotif,
          fdOpen, main, supervisorFailed

P == INSTANCE Supervisor WITH ctxDone <- cancelled

(* Past its deferred wg.Wait the loop has no handler left.                  *)
LoopIsDrained == loop \in {"grace", "noting", "ended"} => P!InFlight = {}

(* Each stage of the launch has what the stage before it waited for.        *)
Stages ==
    /\ waitDone => target = "dead" \/ (mode = "external" /\ cancelled)
    /\ main = "waiting" \/ (~fdOpen /\ stopNotif)
    /\ main # "waiting" /\ mode = "binary" => waitDone /\ term = "done"
    /\ main = "returned" => loop = "ended"
    /\ fdOpen \/ stopNotif

(* The reason a loop gave for returning stays true.                         *)
Reasons ==
    /\ why = "ctx" => cancelled
    /\ why = "stop" => stopNotif
    /\ why = "closed" => target = "dead" \/ ~fdOpen
    /\ loop = "noting" => why = "error"
    /\ supervisorFailed => why = "error"

(* The inductive invariant.                                                 *)
SessionInv == P!TypeOK /\ LoopIsDrained /\ Stages /\ Reasons

(* No step but Receive starts a handler.                                    *)
LEMMA HandlersOnlyEnd ==
  ASSUME P!TypeOK, NEW c \in Calls, handler' = [handler EXCEPT ![c] = "done"]
  PROVE  P!InFlight' \subseteq P!InFlight
BY DEF P!TypeOK, P!InFlight

(* Initially nothing runs but the loop and the waiters.                     *)
LEMMA SessionStarts == P!Init => SessionInv
BY Zenon DEF P!Init, SessionInv, P!TypeOK, LoopIsDrained, Stages, Reasons, P!InFlight

(* Steps of the target and the kernel touch neither handlers nor launch.    *)
LEMMA TargetPreserves == SessionInv /\ P!TargetNext => SessionInv'
<1> SUFFICES ASSUME SessionInv, P!TargetNext PROVE SessionInv'
  OBVIOUS
<1> USE DEF SessionInv, P!process, P!launchVars
<1>1. CASE P!TargetExit
  <2>1. P!TypeOK'
    BY <1>1 DEF P!TargetExit, P!TypeOK
  <2>2. LoopIsDrained' /\ Reasons'
    BY <1>1 DEF P!TargetExit, LoopIsDrained, Reasons, P!InFlight
  <2>3. Stages'
    BY <1>1 DEF P!TargetExit, Stages
  <2>4. QED
    BY ONLY <2>1, <2>2, <2>3, Zenon DEF SessionInv
<1>2. ASSUME NEW c \in Calls, P!TargetCall(c) PROVE SessionInv'
  <2>1. P!TypeOK'
    BY <1>2 DEF P!TargetCall, P!TypeOK
  <2>2. LoopIsDrained' /\ Reasons'
    BY <1>2 DEF P!TargetCall, LoopIsDrained, Reasons, P!InFlight
  <2>3. Stages'
    BY <1>2 DEF P!TargetCall, Stages
  <2>4. QED
    BY ONLY <2>1, <2>2, <2>3, Zenon DEF SessionInv
<1>3. ASSUME NEW c \in Calls, P!Interrupted(c) PROVE SessionInv'
  <2>1. P!TypeOK'
    BY <1>3 DEF P!Interrupted, P!TypeOK
  <2>2. LoopIsDrained' /\ Reasons'
    BY <1>3 DEF P!Interrupted, LoopIsDrained, Reasons, P!InFlight
  <2>3. Stages'
    BY <1>3 DEF P!Interrupted, Stages
  <2>4. QED
    BY ONLY <2>1, <2>2, <2>3, Zenon DEF SessionInv
<1>4. QED
  BY <1>1, <1>2, <1>3 DEF P!TargetNext

(* A handler only ever answers and ends.                                    *)
LEMMA HandlerPreserves == SessionInv /\ P!HandlerNext => SessionInv'
<1> SUFFICES ASSUME SessionInv, NEW c \in Calls,
                    P!HandlerAnswers(c) \/ P!HoldReleased(c) \/ P!HoldShutdown(c)
             PROVE  SessionInv'
  BY DEF P!HandlerNext
<1> USE DEF P!launchVars
<1>1. P!Respond(c)
  BY DEF P!HandlerAnswers, P!HoldReleased, P!HoldShutdown
<1>2. P!TypeOK'
  BY <1>1 DEF SessionInv, P!TypeOK, P!Respond
<1>3. LoopIsDrained'
  <2>1. P!InFlight' \subseteq P!InFlight
    BY <1>1, HandlersOnlyEnd, Zenon DEF SessionInv, P!Respond
  <2>2. QED
    BY <1>1, <2>1 DEF SessionInv, LoopIsDrained, P!Respond
<1>4. Stages' /\ Reasons'
  BY <1>1 DEF SessionInv, Stages, Reasons, P!Respond
<1>5. QED
  BY <1>2, <1>3, <1>4 DEF SessionInv

(* The loop moves on only as its reasons and its handlers allow.            *)
LEMMA LoopPreserves == SessionInv /\ P!LoopNext => SessionInv'
<1> SUFFICES ASSUME SessionInv, P!LoopNext PROVE SessionInv'
  OBVIOUS
<1> USE DEF SessionInv, P!process, P!launchVars
<1>1. CASE P!LoopAsked \/ P!LoopClosed \/ P!LoopFails
  <2>1. PICK r \in {"ctx", "stop", "closed", "error"} :
          /\ P!LoopReturns(r)
          /\ r = "ctx" => cancelled
          /\ r = "stop" => stopNotif
          /\ r = "closed" => target = "dead" \/ ~fdOpen
    BY <1>1 DEF P!LoopAsked, P!LoopClosed, P!LoopFails, P!TypeOK
  <2>2. P!TypeOK'
    BY <2>1 DEF P!LoopReturns, P!TypeOK
  <2>3. LoopIsDrained' /\ Stages'
    BY <1>1, <2>1 DEF P!LoopAsked, P!LoopClosed, P!LoopFails, P!LoopReturns, LoopIsDrained, Stages, P!InFlight
  <2>4. ~supervisorFailed
    \* A loop that is polling has given no reason yet.
    BY <1>1 DEF P!LoopAsked, P!LoopClosed, P!LoopFails, P!TypeOK, Reasons
  <2>5. Reasons'
    BY <2>1, <2>4 DEF P!LoopReturns, Reasons
  <2>6. QED
    BY ONLY <2>2, <2>3, <2>5, Zenon DEF SessionInv
<1>2. CASE P!LoopDrained
  <2>1. P!TypeOK'
    BY <1>2 DEF P!LoopDrained, P!TypeOK
  <2>2. LoopIsDrained' /\ Reasons'
    BY <1>2 DEF P!LoopDrained, LoopIsDrained, Reasons, P!InFlight
  <2>3. Stages'
    BY <1>2 DEF P!LoopDrained, Stages
  <2>4. QED
    BY ONLY <2>1, <2>2, <2>3, Zenon DEF SessionInv
<1>3. CASE P!GraceOver
  <2>1. P!TypeOK'
    BY <1>3 DEF P!GraceOver, P!TypeOK
  <2>2. LoopIsDrained' /\ Reasons'
    BY <1>3 DEF P!GraceOver, LoopIsDrained, Reasons, P!InFlight
  <2>3. Stages'
    BY <1>3 DEF P!GraceOver, Stages
  <2>4. QED
    BY ONLY <2>1, <2>2, <2>3, Zenon DEF SessionInv
<1>4. CASE P!GraceExpires
  <2>1. why = "error"
    \* Every other reason would have ended the grace period.
    BY <1>4 DEF P!GraceExpires, P!TypeOK, Stages, Reasons
  <2>2. QED
    BY <1>4, <2>1 DEF P!GraceExpires, P!TypeOK, LoopIsDrained, Stages, Reasons, P!InFlight
<1>5. CASE P!NoteSupervisorExit
  <2>1. P!TypeOK'
    BY <1>5 DEF P!NoteSupervisorExit, P!TypeOK
  <2>2. LoopIsDrained' /\ Reasons'
    BY <1>5 DEF P!NoteSupervisorExit, LoopIsDrained, Reasons, P!InFlight
  <2>3. Stages'
    BY <1>5 DEF P!NoteSupervisorExit, Stages
  <2>4. QED
    BY ONLY <2>1, <2>2, <2>3, Zenon DEF SessionInv
<1>6. ASSUME NEW c \in Calls, P!Receive(c) PROVE SessionInv'
  BY <1>6 DEF P!Receive, P!TypeOK, LoopIsDrained, Stages, Reasons
<1>7. ASSUME NEW c \in Calls, P!ReceiveDropped(c) PROVE SessionInv'
  BY <1>7 DEF P!ReceiveDropped, P!TypeOK, LoopIsDrained, Stages, Reasons
<1>8. QED
  BY <1>1, <1>2, <1>3, <1>4, <1>5, <1>6, <1>7 DEF P!LoopNext

(* The launch and its two goroutines wait for each other in order.          *)
LEMMA LaunchPreserves == SessionInv /\ (P!EndTest \/ P!LaunchNext) => SessionInv'
<1> SUFFICES ASSUME SessionInv, P!EndTest \/ P!LaunchNext PROVE SessionInv'
  OBVIOUS
<1> USE DEF SessionInv, P!process, P!launchVars
<1>1. CASE P!EndTest
  <2>1. P!TypeOK'
    BY <1>1 DEF P!EndTest, P!TypeOK
  <2>2. LoopIsDrained' /\ Reasons'
    BY <1>1 DEF P!EndTest, LoopIsDrained, Reasons, P!InFlight
  <2>3. Stages'
    BY <1>1 DEF P!EndTest, Stages
  <2>4. QED
    BY ONLY <2>1, <2>2, <2>3, Zenon DEF SessionInv
<1>2. CASE P!Terminate \/ P!KillAfterGrace \/ P!TerminationOver
  <2>1. P!TypeOK'
    <3>1. CASE P!Terminate
      <4>1. term' \in {"termed", "done"} /\ sigkill' \in BOOLEAN
        BY <3>1, Zenon DEF P!Terminate, P!TypeOK
      <4>2. UNCHANGED <<mode, target, call, handler, loop, why, waitDone, cancelled, stopNotif,
                       fdOpen, main, supervisorFailed>>
        BY <3>1, Zenon DEF P!Terminate
      <4>3. QED
        BY <4>1, <4>2 DEF P!TypeOK
    <3>2. CASE P!KillAfterGrace
      BY <3>2 DEF P!KillAfterGrace, P!TypeOK
    <3>3. CASE P!TerminationOver
      BY <3>3 DEF P!TerminationOver, P!TypeOK
    <3>4. QED
      BY <1>2, <3>1, <3>2, <3>3
  <2>2. LoopIsDrained' /\ Reasons'
    BY <1>2 DEF P!Terminate, P!KillAfterGrace, P!TerminationOver, LoopIsDrained, Reasons, P!InFlight
  <2>3. Stages'
    BY <1>2 DEF P!Terminate, P!KillAfterGrace, P!TerminationOver, P!TypeOK, Stages
  <2>4. QED
    BY <2>1, <2>2, <2>3
<1>3. CASE P!Wait
  <2>1. P!TypeOK'
    BY <1>3 DEF P!Wait, P!TypeOK
  <2>2. LoopIsDrained' /\ Reasons'
    BY <1>3 DEF P!Wait, LoopIsDrained, Reasons, P!InFlight
  <2>3. Stages'
    BY <1>3 DEF P!Wait, Stages
  <2>4. QED
    BY ONLY <2>1, <2>2, <2>3, Zenon DEF SessionInv
<1>4. CASE P!Shutdown
  <2>1. P!TypeOK'
    <3>1. call' \in [Calls -> {"idle", "pending", "received", "answered", "dropped"}]
      BY <1>4 DEF P!Shutdown, P!TypeOK
    <3>2. /\ main' = "closing" /\ stopNotif' \in BOOLEAN /\ fdOpen' \in BOOLEAN
          /\ UNCHANGED <<mode, target, sigkill, handler, loop, why, term, waitDone, cancelled,
                         supervisorFailed>>
      BY <1>4, Zenon DEF P!Shutdown
    <3>3. QED
      BY <3>1, <3>2 DEF P!TypeOK
  <2>2. LoopIsDrained' /\ Reasons'
    BY <1>4 DEF P!Shutdown, LoopIsDrained, Reasons, P!InFlight
  <2>3. Stages'
    BY <1>4 DEF P!Shutdown, P!TypeOK, Stages
  <2>4. QED
    BY <2>1, <2>2, <2>3
<1>5. CASE P!Return
  BY <1>5 DEF P!Return, P!TypeOK, LoopIsDrained, Stages, Reasons, P!InFlight
<1>6. QED
  BY <1>1, <1>2, <1>3, <1>4, <1>5 DEF P!LaunchNext

(* A step that changes nothing.                                             *)
LEMMA SessionStutters == SessionInv /\ UNCHANGED P!vars => SessionInv'
<1> SUFFICES ASSUME SessionInv, UNCHANGED P!vars PROVE SessionInv'
  OBVIOUS
<1>1. P!TypeOK'
  BY DEF SessionInv, P!vars, P!TypeOK
<1>2. LoopIsDrained' /\ Stages' /\ Reasons'
  BY DEF SessionInv, P!vars, LoopIsDrained, Stages, Reasons, P!InFlight
<1>3. QED
  BY <1>1, <1>2 DEF SessionInv

(* Every reachable state of a session satisfies the invariant.              *)
THEOREM SessionInvariant == P!Spec => []SessionInv
<1>1. P!Init => SessionInv
  BY SessionStarts
<1>2. SessionInv /\ [P!Next]_(P!vars) => SessionInv'
  BY TargetPreserves, HandlerPreserves, LoopPreserves, LaunchPreserves,
     SessionStutters DEF P!Next, P!Finished
<1>3. QED
  BY <1>1, <1>2, PTL DEF P!Spec

(* A session that has returned left no handler, loop, open listener or own *)
(* process, and only a loop that broke under a running target is reported  *)
(* (launch_linux.go 277-285, checkSupervisorExit).                          *)
THEOREM SessionsAreHonest == P!Spec => []P!SessionIsHonest
<1>1. SessionInv => P!SessionIsHonest
  BY DEF SessionInv, P!TypeOK, LoopIsDrained, Stages, Reasons, P!SessionIsHonest,
         P!NothingOutlivesSession, P!OnlyBrokenLoopsReported
<1>2. QED
  BY <1>1, SessionInvariant, PTL
=============================================================================
