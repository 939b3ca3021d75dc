------------------------------ MODULE MCEngine ------------------------------
(***************************************************************************)
(* The engine's parts on small instances, each on its own: a behaviour     *)
(* shows the hold queue, parallel() in explore mode, the walk over the     *)
(* leaves of a parallel() site, a launch, or the waits for events.         *)
(***************************************************************************)
EXTENDS HoldQueue

CONSTANTS NoQueue, MaxBranches, MaxN, MaxFaults, e1, e2, await, stable

VARIABLES part,
    queueOf, rules, queued, shut, syscall, found, gaveUp, par, todo, sched, schedQ, snapshot, order,
    branches, policy, leaf, seen,
    setup, child, step, filter, listenerFd, gate, registered, pipe, socket, host, waiter,
    listener, containers, stuck, ctxDone, result, faults,
    log, subs, emitting, waits, chan, sent, timer, ended

exploreVars == <<queueOf, rules, queued, shut, syscall, found, gaveUp, par, todo, sched, schedQ,
                 snapshot, order>>
walkVars == <<branches, policy, leaf, seen>>
launchVars == <<setup, child, step, filter, listenerFd, gate, registered, pipe, socket, host,
                waiter, listener, containers, stuck, ctxDone, result, faults>>
awaitVars == <<log, subs, emitting, waits, chan, sent, timer, ended>>
all == <<part, vars, exploreVars, walkVars, launchVars, awaitVars>>

(* Two services and two parallel() calls, one after the other.  All the     *)
(* traffic is at one service: two syscalls of the first call and a          *)
(* background one, so that a snapshot can hold three.                       *)
E == INSTANCE Explore WITH pending <- queued, closed <- shut, handler <- syscall,
        Services <- {"a", "b"}, Nondet <- {}, Parallels <- {"p1", "p2"},
        Syscalls <- {"s1", "s2", "s3"}, SvcOf <- [s \in {"s1", "s2", "s3"} |-> "a"],
        ParOf <- [s1 |-> "p1", s2 |-> "p1", s3 |-> NoQueue], PermIndex <- 3

ASSUME E!Topology

P == INSTANCE PlanWalk

(* Binaries with every gate and container launches. *)
Shape == INSTANCE Launch WITH Setups <- {}
LaunchSetups == {x \in Shape!SetupType : x.mode = "container" => x.gate = "none"}
L == INSTANCE Launch WITH Setups <- LaunchSetups

(* Two emitters, an await_event and an await_stable. *)
W == INSTANCE Await WITH wait <- waits, cancelled <- ended, Emitters <- {e1, e2},
        EventWaits <- {await}, StableWaits <- {stable}, MaxEvents <- 3, Window <- 2

ASSUME W!AwaitConstants

(* The variables of the parts a behaviour does not have. *)
NoExplore ==
  /\ queueOf = 0 /\ rules = 0 /\ queued = 0 /\ shut = 0 /\ syscall = 0 /\ found = 0 /\ gaveUp = 0
  /\ par = 0 /\ todo = 0 /\ sched = 0 /\ schedQ = 0 /\ snapshot = 0 /\ order = 0
NoWalk ==
  /\ branches = 0 /\ policy = 0 /\ leaf = 0 /\ seen = 0
NoLaunch ==
  /\ setup = 0 /\ child = 0 /\ step = 0 /\ filter = 0 /\ listenerFd = 0 /\ gate = 0 /\ registered = 0
  /\ pipe = 0 /\ socket = 0 /\ host = 0 /\ waiter = 0 /\ listener = 0 /\ containers = 0 /\ stuck = 0
  /\ ctxDone = 0 /\ result = 0 /\ faults = 0
NoAwait ==
  /\ log = 0 /\ subs = 0 /\ emitting = 0 /\ waits = 0 /\ chan = 0 /\ sent = 0 /\ timer = 0 /\ ended = 0

MCInit ==
  /\ Init
  /\ \/ part = "hold" /\ NoExplore /\ NoWalk /\ NoLaunch /\ NoAwait
     \/ part = "explore" /\ E!Init /\ NoWalk /\ NoLaunch /\ NoAwait
     \/ part = "walk" /\ NoExplore /\ P!Init /\ NoLaunch /\ NoAwait
     \/ part = "launch" /\ NoExplore /\ NoWalk /\ L!Init /\ NoAwait
     \/ part = "waits" /\ NoExplore /\ NoWalk /\ NoLaunch /\ W!Init

Hold(A) == part = "hold" /\ A /\ UNCHANGED <<part, exploreVars, walkVars, launchVars, awaitVars>>
Explored(A) == part = "explore" /\ A /\ UNCHANGED <<part, vars, walkVars, launchVars, awaitVars>>
Walk(A) == part = "walk" /\ A /\ UNCHANGED <<part, vars, exploreVars, launchVars, awaitVars>>
Launched(A) == part = "launch" /\ A /\ UNCHANGED <<part, vars, exploreVars, walkVars, awaitVars>>
Waited(A) == part = "waits" /\ A /\ UNCHANGED <<part, vars, exploreVars, walkVars, launchVars>>

MCNext == Hold(Next) \/ Explored(E!Next) \/ Walk(P!RunLeaf) \/ Launched(L!Next) \/ Waited(W!Next)

MCSpec ==
  /\ MCInit /\ [][MCNext]_all
  /\ WF_all(Hold(GoroutineStep) \/ Explored(E!SystemStep) \/ Launched(L!Work) \/ Waited(W!RuntimeStep))

(* A syscall held by parallel() stays in a queue that RemoveHoldRules will  *)
(* find and close, and the scheduler releases its snapshot in the order of  *)
(* the permutation (session.go:534, scheduler.go:28).                       *)
ExplorationIsExact == part = "explore" => E!ExplorationIsExact

(* Both index decoders give the k-th lexicographic permutation, and the     *)
(* leaves of a site are distinct and, under "all", complete                 *)
(* (interleavings.go:81, leaf.go:272).                                      *)
OrderingsAreExact == part = "walk" => P!OrderingsAreExact

(* The shim never traps itself, and what a launch reports is so             *)
(* (shim_linux.go, launch.go).                                              *)
LaunchIsHonest == part = "launch" => L!NoSelfTrap /\ L!LaunchIsHonest

(* await_event misses no match emitted between its first check and its      *)
(* subscription (await.go:127), and exactly the waits under way are         *)
(* subscribed (the deferred Unsubscribe).                                   *)
NoMissedEvent == part = "waits" => W!TypeOK /\ W!NoMissedEvent

(* Closing a queue ends every hold and every Wait, every parallel() call    *)
(* returns with nothing left held, and every launch returns.                *)
EngineSettles ==
  <>[](FreedByClose /\ (part = "explore" => E!Settled) /\ (part = "launch" => L!Ended))

(* Once a match is logged every await_event returns, and once nothing is    *)
(* emitted any more every await_stable does.                                *)
WaitsEnd == <>[](part = "waits" => W!AllAnswered)
=============================================================================
