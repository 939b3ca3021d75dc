------------------------------- MODULE Await -------------------------------
(***************************************************************************)
(* await_event and await_stable (star/await.go) against concurrent emitters *)
(* of the event log: an emit appends under one lock, copies the subscribers *)
(* under another and calls them under none (star/events.go).                *)
(***************************************************************************)
EXTENDS Naturals, Sequences, FiniteSets

CONSTANTS Emitters,    \* goroutines that emit, one event at a time
          EventWaits,  \* await_event() calls
          StableWaits, \* await_stable() calls
          MaxEvents,   \* bound: events in the log
          Window       \* the quiescence window, in ticks (positive)

VARIABLES
    log,       \* the events: "match" satisfies the matchers, "other" does not
    subs,      \* EventLog.subscribers, by the wait that subscribed
    emitting,  \* each emitter: its place, its event, the subscribers left to call
    wait,      \* each wait's place in its function
    chan,      \* hitCh and resetCh, one slot: is it full
    sent,      \* awaitEvent's sync.Once
    timer,     \* ticks until awaitStable's timer fires
    cancelled  \* the test's context is done

vars == <<log, subs, emitting, wait, chan, sent, timer, cancelled>>

Awaits == EventWaits \cup StableWaits
AwaitConstants ==
    EventWaits \cap StableWaits = {} /\ MaxEvents \in Nat /\ Window \in Nat \ {0}
Idle == [at |-> "idle", ev |-> "other", left |-> {}]
Matched == \E i \in DOMAIN log : log[i] = "match"

Init ==
    /\ log = <<>> /\ subs = {}
    /\ emitting = [e \in Emitters |-> Idle]
    /\ wait = [w \in Awaits |-> "called"]
    /\ chan = [w \in Awaits |-> FALSE]
    /\ sent = [w \in EventWaits |-> FALSE]
    /\ timer = [w \in StableWaits |-> Window]
    /\ cancelled = FALSE

----------------------------------------------------------------------------
(* emit *)

Append1(e, ev) ==
    /\ emitting[e].at = "idle" /\ Len(log) < MaxEvents
    /\ log' = Append(log, ev)
    /\ emitting' = [emitting EXCEPT ![e] = [at |-> "appended", ev |-> ev, left |-> {}]]
    /\ UNCHANGED <<subs, wait, chan, sent, timer, cancelled>>

CopySubscribers(e) ==
    /\ emitting[e].at = "appended"
    /\ emitting' = [emitting EXCEPT ![e] =
                      [at |-> "dispatching", ev |-> @.ev, left |-> subs]]
    /\ UNCHANGED <<log, subs, wait, chan, sent, timer, cancelled>>

(* One subscriber's callback: a non-blocking send, for awaitEvent only once *)
(* and only of a match, for awaitStable of any event.                       *)
Call(e, w) ==
    /\ emitting[e].at = "dispatching" /\ w \in emitting[e].left
    /\ emitting' = [emitting EXCEPT ![e] =
                      [at |-> "dispatching", ev |-> @.ev, left |-> @.left \ {w}]]
    /\ IF w \in EventWaits
       THEN LET hit == emitting[e].ev = "match" /\ ~sent[w]
            IN  /\ sent' = [sent EXCEPT ![w] = @ \/ hit]
                /\ chan' = [chan EXCEPT ![w] = @ \/ hit]
       ELSE chan' = [chan EXCEPT ![w] = TRUE] /\ UNCHANGED sent
    /\ UNCHANGED <<log, subs, wait, timer, cancelled>>

EmitReturns(e) ==
    /\ emitting[e].at = "dispatching" /\ emitting[e].left = {}
    /\ emitting' = [emitting EXCEPT ![e] = Idle]
    /\ UNCHANGED <<log, subs, wait, chan, sent, timer, cancelled>>

----------------------------------------------------------------------------
(* awaitEvent *)

Goes(w, from, to) ==
    /\ wait[w] = from
    /\ wait' = [wait EXCEPT ![w] = to]
    /\ UNCHANGED <<log, emitting, sent, cancelled>>

(* A return: the deferred Unsubscribe runs. *)
Returns(w, from, result) ==
    /\ Goes(w, from, result)
    /\ subs' = subs \ {w}

(* The eager check. *)
EagerCheck(w) ==
    /\ Goes(w, "called", IF Matched THEN "found" ELSE "missing")
    /\ UNCHANGED <<subs, chan, timer>>

Subscribe(w) ==
    /\ Goes(w, "missing", "subscribed")
    /\ subs' = subs \cup {w}
    /\ UNCHANGED <<chan, timer>>

(* A wait that trusts its first check. *)
RecheckSkipped(w) ==
    /\ Goes(w, "subscribed", "waiting")
    /\ UNCHANGED <<subs, chan, timer>>

(* The check under the subscription. *)
Recheck(w) ==
    /\ IF Matched THEN Returns(w, "subscribed", "found")
                  ELSE Goes(w, "subscribed", "waiting") /\ UNCHANGED subs
    /\ UNCHANGED <<chan, timer>>

Hit(w) ==
    /\ chan[w] /\ Returns(w, "waiting", "found")
    /\ chan' = [chan EXCEPT ![w] = FALSE]
    /\ UNCHANGED timer

----------------------------------------------------------------------------
(* awaitStable *)

SubscribeStable(w) ==
    /\ Goes(w, "called", "waiting")
    /\ subs' = subs \cup {w}
    /\ timer' = [timer EXCEPT ![w] = Window]
    /\ UNCHANGED chan

(* A reset that does not empty its channel. *)
ResetTimerKept(w) ==
    /\ wait[w] = "waiting" /\ chan[w]
    /\ timer' = [timer EXCEPT ![w] = Window]
    /\ UNCHANGED <<log, subs, emitting, wait, chan, sent, cancelled>>

(* resetCh is ready: the timer is stopped, drained and started again. *)
ResetTimer(w) ==
    /\ wait[w] = "waiting" /\ chan[w]
    /\ chan' = [chan EXCEPT ![w] = FALSE]
    /\ timer' = [timer EXCEPT ![w] = Window]
    /\ UNCHANGED <<log, subs, emitting, wait, sent, cancelled>>

(* The timer fired; select may take it although resetCh is ready too. *)
Stable(w) ==
    /\ timer[w] = 0 /\ Returns(w, "waiting", "stable")
    /\ UNCHANGED <<chan, timer>>

(* select sees the cancelled context. *)
GivesUp(w) ==
    /\ cancelled /\ Returns(w, "waiting", "cancelled")
    /\ UNCHANGED <<chan, timer>>

----------------------------------------------------------------------------
(* A tick of the clock the windows are measured with. *)
Tick ==
    /\ \E w \in StableWaits : wait[w] = "waiting" /\ timer[w] > 0
    /\ timer' = [w \in StableWaits |->
                    IF wait[w] = "waiting" /\ timer[w] > 0 THEN timer[w] - 1 ELSE timer[w]]
    /\ UNCHANGED <<log, subs, emitting, wait, chan, sent, cancelled>>

Cancel ==
    /\ ~cancelled /\ cancelled' = TRUE
    /\ UNCHANGED <<log, subs, emitting, wait, chan, sent, timer>>

EmitterNext(e) ==
    CopySubscribers(e) \/ EmitReturns(e) \/ \E w \in Awaits : Call(e, w)

EventWaitNext(w) == EagerCheck(w) \/ Subscribe(w) \/ Recheck(w) \/ Hit(w) \/ GivesUp(w)
StableWaitNext(w) == SubscribeStable(w) \/ ResetTimer(w) \/ Stable(w) \/ GivesUp(w)

Next ==
    \/ \E e \in Emitters : EmitterNext(e) \/ \E ev \in {"match", "other"} : Append1(e, ev)
    \/ \E w \in EventWaits : EventWaitNext(w)
    \/ \E w \in StableWaits : StableWaitNext(w)
    \/ Tick \/ Cancel

Spec == Init /\ [][Next]_vars

(* Emitters and waits run, time passes; nobody has to emit or to cancel. *)
RuntimeStep ==
    \/ Tick \/ \E e \in Emitters : EmitterNext(e)
    \/ \E w \in EventWaits : EventWaitNext(w)
    \/ \E w \in StableWaits : StableWaitNext(w)

----------------------------------------------------------------------------
(* The variables have their types; whoever waits is subscribed. *)
TypeOK ==
    /\ log \in Seq({"match", "other"}) /\ Len(log) <= MaxEvents
    /\ subs = {w \in Awaits : wait[w] \in {"subscribed", "waiting"}}
    /\ emitting \in [Emitters -> [at : {"idle", "appended", "dispatching"},
                                 ev : {"match", "other"}, left : SUBSET Awaits]]
    /\ wait \in [Awaits -> {"called", "missing", "subscribed", "waiting",
                           "found", "stable", "cancelled"}]
    /\ chan \in [Awaits -> BOOLEAN] /\ sent \in [EventWaits -> BOOLEAN]
    /\ timer \in [StableWaits -> 0..Window]
    /\ cancelled \in BOOLEAN

(* An emitter that will still call the wait about a match. *)
OnItsWay(w) ==
    \E e \in Emitters : /\ emitting[e].ev = "match"
                        /\ \/ emitting[e].at = "appended"
                           \/ emitting[e].at = "dispatching" /\ w \in emitting[e].left

(* await_event blocks only while no match is logged, or with the match in   *)
(* its channel or on its way: an event emitted between its first check and  *)
(* its subscription is not missed.                                          *)
NoMissedEvent ==
    \A w \in EventWaits : wait[w] = "waiting" /\ Matched => chan[w] \/ OnItsWay(w)

(* Once a match is logged every await_event returns, and once nothing is    *)
(* emitted any more every await_stable does.                                *)
AllAnswered ==
    /\ \A w \in EventWaits : Matched => wait[w] \in {"found", "cancelled"}
    /\ \A w \in StableWaits : wait[w] \in {"stable", "cancelled"}
=============================================================================
