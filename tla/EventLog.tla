------------------------------ MODULE EventLog ------------------------------
(***************************************************************************)
(* The event log and its vector clocks (star/events.go), written by the     *)
(* services' syscall callbacks and by the steps of a test, which also merge *)
(* clocks around each request (executeStep of star/runtime.go).             *)
(***************************************************************************)
EXTENDS Naturals, Sequences, FiniteSets

CONSTANTS Services,     \* the names that own a clock; the test driver is one
          Test,         \* the test driver's name
          NoService,    \* the service of an event without one
          Steps,        \* the steps of a test, each run once, concurrent under parallel()
          MaxEvents,    \* bound: events in the log
          MaxResets     \* bound: tests after the first

ASSUME NamesAssumption == Test \in Services /\ NoService \notin Services
ASSUME BoundsAssumption == MaxEvents \in Nat /\ MaxResets \in Nat

VARIABLES
    log,         \* EventLog.events; an event's seq is its index
    clocks,      \* EventLog.clocks, absent entries as zero
    generation,  \* EventLog.generation
    merging,     \* the services a network call of a service has still to merge
    step,        \* each step's place, its target and the index of its step_send
    past         \* history: the events in the causal past of a service

vars == <<log, clocks, generation, merging, step, past>>

Clock == [Services -> Nat]
Types == {"syscall", "network", "step_send", "step_recv", "meta"}
EventType == [svc : Services \cup {NoService}, type : Types, vc : Clock,
              cause : Nat, past : SUBSET Nat]
Zero == [k \in Services |-> 0]
Idle == [at |-> "idle", target |-> Test, sent |-> 0]

Init ==
    /\ log = <<>>
    /\ clocks = [s \in Services |-> Zero]
    /\ generation = 0
    /\ merging = [s \in Services |-> {}]
    /\ step = [t \in Steps |-> Idle]
    /\ past = [s \in Services |-> {}]

----------------------------------------------------------------------------
(* vcHappensBefore *)
HappensBefore(v, w) ==
    /\ \A k \in Services : v[k] <= w[k]
    /\ \E k \in Services : v[k] < w[k]

Larger(a, b) == IF a < b THEN b ELSE a

Tick(s) == [clocks[s] EXCEPT ![s] = @ + 1]

(* emit for an event of a service: the clock is advanced and a copy logged. *)
Emit(s, type, cause) ==
    /\ Len(log) < MaxEvents
    /\ clocks' = [clocks EXCEPT ![s] = Tick(s)]
    /\ log' = Append(log, [svc |-> s, type |-> type, vc |-> Tick(s),
                           cause |-> cause, past |-> past[s]])
    /\ past' = [past EXCEPT ![s] = @ \cup {Len(log) + 1}]

(* An event without a service that is stamped as if it advanced all clocks. *)
EmitUnownedAhead ==
    /\ Len(log) < MaxEvents
    /\ log' = Append(log, [svc |-> NoService, type |-> "meta",
                           vc |-> [k \in Services |-> clocks[k][k] + 1],
                           cause |-> 0, past |-> {}])
    /\ UNCHANGED <<clocks, generation, merging, step, past>>

(* emit for an event without a service: its clock compares as zero. *)
EmitUnowned ==
    /\ Len(log) < MaxEvents
    /\ log' = Append(log, [svc |-> NoService, type |-> "meta", vc |-> Zero,
                           cause |-> 0, past |-> {}])
    /\ UNCHANGED <<clocks, generation, merging, step, past>>

(* A merge that keeps the receiver's clock where it has an entry. *)
MergedStale(local, remote) ==
    [k \in Services |-> IF clocks[local][k] = 0 THEN clocks[remote][k] ELSE clocks[local][k]]

Merged(local, remote) ==
    [k \in Services |-> Larger(clocks[local][k], clocks[remote][k])]

MergeClock(local, remote) ==
    /\ clocks' = [clocks EXCEPT ![local] = Merged(local, remote)]
    /\ past' = [past EXCEPT ![local] = @ \cup past[remote]]

(* The next test starts with an empty log; steps and callbacks of the last  *)
(* may still be under way.                                                  *)
Reset ==
    /\ generation < MaxResets
    /\ generation' = generation + 1
    /\ log' = <<>>
    /\ clocks' = [s \in Services |-> Zero]
    /\ past' = [s \in Services |-> {}]
    /\ step' = [t \in Steps |-> [step[t] EXCEPT !.sent = 0]]
    /\ UNCHANGED merging

----------------------------------------------------------------------------
(* Syscall callbacks of the services *)

Others(s) == Services \ {s, Test}

(* A syscall that opens no connection. *)
Syscall(s) ==
    /\ Emit(s, "syscall", 0)
    /\ UNCHANGED <<generation, merging, step>>

(* connect or sendto: the event, then the clocks of all other services.     *)
(* Bound: one such call of a service at a time.                             *)
NetworkCall(s) ==
    /\ merging[s] = {}
    /\ Emit(s, "network", 0)
    /\ merging' = [merging EXCEPT ![s] = Others(s)]
    /\ UNCHANGED <<generation, step>>

(* mergeClocksForNetworkCall, one service at a time; the runtime's lock     *)
(* keeps two of its loops apart.                                            *)
MergeOther(s, r) ==
    /\ r \in merging[s]
    /\ \A t \in Services \ {s} : merging[t] \in {{}, Others(t)}
    /\ MergeClock(s, r)
    /\ merging' = [merging EXCEPT ![s] = @ \ {r}]
    /\ UNCHANGED <<log, generation, step>>

----------------------------------------------------------------------------
(* executeStep *)

At(t, from, to) ==
    /\ step[t].at = from
    /\ step' = [step EXCEPT ![t].at = to]
    /\ UNCHANGED <<generation, merging>>

(* The driver's clock is merged into the target's ... *)
StepMerges(t, s) ==
    /\ step[t].at = "idle"
    /\ MergeClock(s, Test)
    /\ step' = [step EXCEPT ![t] = [at |-> "merged", target |-> s, sent |-> 0]]
    /\ UNCHANGED <<log, generation, merging>>

(* ... and step_send is emitted. *)
StepSends(t) ==
    /\ step[t].at = "merged"
    /\ Emit(Test, "step_send", 0)
    /\ step' = [step EXCEPT ![t].at = "sent", ![t].sent = Len(log) + 1]
    /\ UNCHANGED <<generation, merging>>

(* The target makes a syscall because of the request. *)
Reacts(t) ==
    /\ step[t].at = "sent"
    /\ Emit(step[t].target, "syscall", step[t].sent)
    /\ UNCHANGED <<generation, merging, step>>

(* A step that does not learn from the answer. *)
StepMergesNothing(t) ==
    /\ At(t, "sent", "answered")
    /\ UNCHANGED <<log, clocks, past>>

(* The answer: the target's clock is merged into the driver's ... *)
StepMergesBack(t) ==
    /\ At(t, "sent", "answered")
    /\ MergeClock(Test, step[t].target)
    /\ UNCHANGED log

(* ... and step_recv is emitted.  A step that fails has none. *)
StepReceives(t) ==
    /\ At(t, "answered", "done")
    /\ Emit(Test, "step_recv", step[t].sent)

StepFails(t) ==
    /\ At(t, "sent", "done")
    /\ UNCHANGED <<log, clocks, past>>

ServiceNext ==
    \E s \in Services \ {Test} :
        Syscall(s) \/ NetworkCall(s) \/ \E r \in Services : MergeOther(s, r)

StepNext ==
    \E t \in Steps :
        \/ \E s \in Services \ {Test} : StepMerges(t, s)
        \/ StepSends(t) \/ Reacts(t) \/ StepMergesBack(t) \/ StepReceives(t) \/ StepFails(t)

Next == ServiceNext \/ StepNext \/ EmitUnowned \/ Reset

Spec == Init /\ [][Next]_vars

----------------------------------------------------------------------------
(* The variables have their types. *)
TypeOK ==
    /\ log \in Seq(EventType)
    /\ clocks \in [Services -> Clock]
    /\ generation \in Nat
    /\ merging \in [Services -> SUBSET Services]
    /\ step \in [Steps -> [at : {"idle", "merged", "sent", "answered", "done"},
                           target : Services, sent : Nat]]
    /\ past \in [Services -> SUBSET Nat]

Owned == {i \in DOMAIN log : log[i].svc # NoService}

(* happens_before answers exactly the causality of the run: the order of    *)
(* each service's own events and what the merges pass on.  And what a       *)
(* request made its target do happens before its step_recv.                 *)
ClocksAreCausality ==
    /\ \A i, j \in Owned :
          i # j => (HappensBefore(log[i].vc, log[j].vc) <=> i \in log[j].past)
    /\ \A i, j \in DOMAIN log :
          /\ log[j].type = "step_recv" /\ i < j
          /\ log[i].cause = log[j].cause /\ log[j].cause # 0
          => HappensBefore(log[i].vc, log[j].vc)

(* No event of a service happens before one that was logged earlier: the    *)
(* clocks never contradict the order of the log.                            *)
LogRespectsCausality ==
    \A i, j \in DOMAIN log :
        i < j /\ j \in Owned => ~HappensBefore(log[j].vc, log[i].vc)
=============================================================================
