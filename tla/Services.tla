----------------------------- MODULE Services ------------------------------
(***************************************************************************)
(* The services of a suite: started in dependency order for each test,     *)
(* stopped in reverse, kept across tests when declared reuse=True, and torn *)
(* down by the final cleanup (startServices, stopServices, cleanup in      *)
(* star/runtime.go, stopOneService in star/shutdown.go, Launch in          *)
(* container/launch.go).                                                   *)
(*                                                                         *)
(* Startup is split where the outside world can step in: a process dies,   *)
(* the test's context ends, a callback panics.                             *)
(***************************************************************************)
EXTENDS Naturals, Sequences, FiniteSets, Functions

CONSTANTS Order,      \* the services, dependencies first
          DependsOn,  \* each service's dependencies
          Setups,     \* the specifications to consider: see SetupType
          MaxTests,   \* bound: tests in the suite
          MaxFaults   \* bound: processes that die, contexts that end, panics

Names == Range(Order)

(* What a specification says of its services: their kind, which have        *)
(* reuse=True and which reset= (all have seed= and a healthcheck), and      *)
(* which containers are launched under the seccomp shim.                    *)
SetupType == [kind : [Names -> {"binary", "container", "mock", "remote"}],
              reuse : SUBSET Names, hasReset : SUBSET Names, shimmed : SUBSET Names]

ServicesConstants ==
    /\ Order \in Seq(Names) \ {<<>>} /\ MaxTests \in Nat /\ MaxFaults \in Nat
    /\ DependsOn \in [Names -> SUBSET Names]
    /\ \A i, j \in DOMAIN Order : Order[j] \in DependsOn[Order[i]] => j < i
    /\ \A x \in Setups :
          /\ x \in SetupType
          /\ \A s \in x.shimmed : x.kind[s] = "container"
          /\ \A s \in x.reuse : x.kind[s] # "remote"

VARIABLES
    setup,    \* the specification
    pc,       \* "idle", "starting", "body", "stopping", "cleanup" or "done"
    at,       \* the index in Order of the service being started or stopped
    stage,    \* of the start: "launch", "handshake", "health", "seed", "proxy"
    test,     \* the number of tests begun
    session,  \* rt.sessions: the services with an entry
    recorded, \* rt.containerIDs: the services with an entry
    proc,     \* each service's process: "none", "up" or "dead"
    inst,     \* the test that launched the process, 0 for none
    orphans,  \* containers that exist and are recorded nowhere
    data,     \* behind each service: "raw", "seeded" by a callback, "dirty" from a test
    proxy,    \* the instance a service's proxy forwards to, 0 for no proxy
    env,      \* the instance of each dependency a service was given the address of
    ctxDone,  \* the test's context has ended: timeout, or an interrupt
    poisoned, \* shutdownFailed
    faults,   \* how many of MaxFaults have happened
    panicked  \* history: a panic has been recovered

vars == <<setup, pc, at, stage, test, session, recorded, proc, inst, orphans, data, proxy, env,
          ctxDone, poisoned, faults, panicked>>
world == <<session, recorded, proc, inst, orphans, data, proxy, env>>

Kind == setup.kind
Reuse == setup.reuse
Managed == {s \in Names : Kind[s] # "remote"}
current == Order[at]

Init ==
    /\ setup \in Setups
    /\ pc = "idle" /\ at = 1 /\ stage = "launch" /\ test = 0
    /\ session = {} /\ recorded = {} /\ orphans = {}
    /\ proc = [s \in Names |-> IF s \in Managed THEN "none" ELSE "up"]
    /\ inst = [s \in Names |-> 0]
    /\ data = [s \in Names |-> "raw"]
    /\ proxy = [s \in Names |-> 0]
    /\ env = [s \in Names |-> [d \in DependsOn[s] |-> 0]]
    /\ ctxDone = FALSE /\ poisoned = FALSE /\ faults = 0 /\ panicked = FALSE

----------------------------------------------------------------------------
(* What the outside does *)

ProcessDies(s) ==
    /\ faults < MaxFaults /\ pc # "done"
    /\ Kind[s] \in {"binary", "container"} /\ proc[s] = "up"
    /\ proc' = [proc EXCEPT ![s] = "dead"]
    /\ faults' = faults + 1
    /\ UNCHANGED <<pc, at, stage, test, session, recorded, inst, orphans, data, proxy, env, ctxDone, poisoned>>

ContextEnds ==
    /\ faults < MaxFaults /\ pc \in {"starting", "body"} /\ ~ctxDone
    /\ ctxDone' = TRUE /\ faults' = faults + 1
    /\ UNCHANGED <<pc, at, stage, test, world, poisoned>>

(* runTestSafelyLeaf recovers a panic of a reset, seed or setup callback,   *)
(* which run on its goroutine; nobody stops the services.                   *)
Panic ==
    /\ faults < MaxFaults
    /\ \/ pc = "starting" /\ stage = "launch" /\ current \in session
       \/ pc = "starting" /\ stage = "seed"
       \/ pc = "body"
    /\ pc' = "idle" /\ faults' = faults + 1 /\ panicked' = TRUE
    /\ UNCHANGED <<at, stage, test, world, ctxDone, poisoned>>

----------------------------------------------------------------------------
(* startServices *)

BeginTest ==
    /\ pc = "idle" /\ test < MaxTests /\ ~poisoned
    /\ test' = test + 1 /\ ctxDone' = FALSE
    /\ pc' = "starting" /\ at' = 1 /\ stage' = "launch"
    /\ UNCHANGED <<world, poisoned, faults>>

Advance ==
    IF at = Len(Order)
    THEN pc' = "body" /\ UNCHANGED <<at, stage>>
    ELSE at' = at + 1 /\ stage' = "launch" /\ UNCHANGED pc

(* An error of startServices: runTestImpl stops the services. *)
StartFails ==
    pc' = "stopping" /\ at' = Len(Order) /\ UNCHANGED stage

(* A service with a session is taken as running. Its reset, or seed, runs;  *)
(* a reset restores what a seed made, it does not make it.                  *)
ReuseService ==
    /\ pc = "starting" /\ stage = "launch" /\ current \in session
    /\ \/ /\ data' = [data EXCEPT ![current] =
                         IF current \in setup.hasReset /\ @ = "raw" THEN "raw" ELSE "seeded"]
          /\ Advance
       \/ UNCHANGED data /\ StartFails
    /\ UNCHANGED <<test, session, recorded, proc, inst, orphans, proxy, env, ctxDone, poisoned, faults>>

(* The environment of the first launch is used again. *)
LaunchedCachedEnv(s) ==
    /\ proc' = [proc EXCEPT ![s] = "up"]
    /\ inst' = [inst EXCEPT ![s] = test]
    /\ data' = [data EXCEPT ![s] = IF s \in Managed THEN "raw" ELSE @]
    /\ env' = [env EXCEPT ![s] = [d \in DependsOn[s] |-> IF env[s][d] # 0 THEN env[s][d] ELSE inst[d]]]

Launched(s) ==
    /\ proc' = [proc EXCEPT ![s] = "up"]
    /\ inst' = [inst EXCEPT ![s] = test]
    /\ data' = [data EXCEPT ![s] = IF s \in Managed THEN "raw" ELSE @]
    /\ env' = [env EXCEPT ![s] = [d \in DependsOn[s] |-> IF proxy[d] # 0 THEN proxy[d] ELSE inst[d]]]

(* The port check, the environment, and the launch: a binary, a mock and a  *)
(* remote service get their session here, a container is only created. A    *)
(* container left under its name by an earlier test is in the way of the    *)
(* shim's; the launch without a shim removes it first.                      *)
Launch ==
    /\ pc = "starting" /\ stage = "launch" /\ current \notin session
    /\ \/ StartFails /\ UNCHANGED world
       \/ /\ Kind[current] = "container" /\ ~ctxDone
          /\ IF current \in setup.shimmed THEN current \notin orphans /\ UNCHANGED orphans
                                   ELSE orphans' = orphans \ {current}
          /\ Launched(current)
          /\ stage' = "handshake"
          /\ UNCHANGED <<pc, at, session, recorded, proxy>>
       \/ /\ Kind[current] # "container"
          /\ Launched(current)
          /\ session' = session \cup {current}
          /\ stage' = "health"
          /\ UNCHANGED <<pc, at, recorded, orphans, proxy>>
    /\ UNCHANGED <<test, ctxDone, poisoned, faults>>

(* The shim hands over its listener, or the container is replaced by one    *)
(* without the shim; a start that is given up removes its container, unless *)
(* the context it would use has ended. A container whose trace session does *)
(* not attach is recorded without a session.                                *)
Handshake ==
    /\ pc = "starting" /\ stage = "handshake"
    /\ \/ /\ ~ctxDone
          /\ recorded' = recorded \cup {current} /\ session' = session \cup {current}
          /\ proc' = [proc EXCEPT ![current] = "up"]
          /\ stage' = "health" /\ UNCHANGED <<pc, at, orphans, inst>>
       \/ /\ recorded' = recorded \cup {current} /\ UNCHANGED <<session, orphans, proc, inst>>
          /\ StartFails
       \/ /\ proc' = [proc EXCEPT ![current] = "none"] /\ inst' = [inst EXCEPT ![current] = 0]
          /\ orphans' = IF ctxDone THEN orphans \cup {current} ELSE orphans
          /\ StartFails /\ UNCHANGED <<recorded, session>>
    /\ UNCHANGED <<test, data, proxy, env, ctxDone, poisoned, faults>>

(* Readiness, raced against the process's exit. A remote service has its    *)
(* session only once it is ready.                                           *)
Healthcheck ==
    /\ pc = "starting" /\ stage = "health"
    /\ \/ proc[current] = "up" /\ ~ctxDone /\ stage' = "seed" /\ UNCHANGED <<pc, at, session>>
       \/ /\ session' = IF current \in Managed THEN session ELSE session \ {current}
          /\ StartFails
    /\ UNCHANGED <<test, recorded, proc, inst, orphans, data, proxy, env, ctxDone, poisoned, faults>>

Seed ==
    /\ pc = "starting" /\ stage = "seed"
    /\ \/ /\ data' = [data EXCEPT ![current] = "seeded"]
          /\ stage' = "proxy" /\ UNCHANGED <<pc, at>>
       \/ StartFails /\ UNCHANGED data
    /\ UNCHANGED <<test, session, recorded, proc, inst, orphans, proxy, env, ctxDone, poisoned, faults>>

(* A proxy that does not start is fatal for a mock, a warning otherwise. *)
PreStartProxies ==
    /\ pc = "starting" /\ stage = "proxy"
    /\ \/ /\ proxy' = [proxy EXCEPT ![current] = IF @ # 0 THEN @ ELSE inst[current]]
          /\ Advance
       \/ UNCHANGED proxy /\ IF Kind[current] = "mock" THEN StartFails ELSE Advance
    /\ UNCHANGED <<test, session, recorded, proc, inst, orphans, data, env, ctxDone, poisoned, faults>>

(* The setup and the body use the services, and end one way or another. *)
Body ==
    /\ pc = "body"
    /\ data' = [s \in Names |-> IF data[s] = "raw" THEN "raw" ELSE "dirty"]
    /\ pc' = "stopping" /\ at' = Len(Order)
    /\ UNCHANGED <<stage, test, session, recorded, proc, inst, orphans, proxy, env, ctxDone, poisoned, faults>>

----------------------------------------------------------------------------
(* stopServices, stopReusedServices *)

(* stopOneService: cancel, stop and remove the container, wait for the      *)
(* exit, stop the proxies. Each phase may fail or time out, which poisons   *)
(* the runtime; the container's record goes in any case.                    *)
StopOneService(s) ==
    /\ \/ /\ proc' = [proc EXCEPT ![s] = IF s \in Managed THEN "none" ELSE @]
          /\ inst' = [inst EXCEPT ![s] = 0]
          /\ UNCHANGED <<orphans, poisoned>>
       \/ /\ poisoned' = TRUE
          /\ orphans' \in {orphans, orphans \cup (recorded \cap {s})}
          /\ UNCHANGED <<proc, inst>>
    /\ recorded' = recorded \ {s} /\ session' = session \ {s}
    /\ proxy' = [proxy EXCEPT ![s] = 0]
    /\ UNCHANGED <<data, env>>

(* The loop runs forward. *)
StopNextForward ==
    /\ pc = "stopping" /\ at > 0
    /\ LET s == Order[Len(Order) + 1 - at]
       IN  IF s \in (session \ Reuse) \cup (recorded \ session)
           THEN StopOneService(s) ELSE UNCHANGED <<world, poisoned>>
    /\ at' = at - 1
    /\ UNCHANGED <<pc, stage, test, ctxDone, faults>>

(* One service of the loop in reverse order. A reused one with a session is *)
(* kept; one with a container and no session is stopped after the loop,     *)
(* which no other service can tell from stopping it in its turn.            *)
StopNext ==
    /\ pc = "stopping" /\ at > 0
    /\ IF current \in (session \ Reuse) \cup (recorded \ session)
       THEN StopOneService(current)
       ELSE UNCHANGED <<world, poisoned>>
    /\ at' = at - 1
    /\ UNCHANGED <<pc, stage, test, ctxDone, faults>>

Stopped ==
    /\ pc = "stopping" /\ at = 0
    /\ pc' = "idle" /\ at' = 1
    /\ UNCHANGED <<stage, test, world, ctxDone, poisoned, faults>>

(* RunAll has no more tests, or stops after a failed shutdown. *)
Cleanup ==
    /\ pc = "idle" /\ (test = MaxTests \/ poisoned \/ ctxDone)
    /\ pc' = "cleanup" /\ at' = Len(Order)
    /\ UNCHANGED <<stage, test, world, ctxDone, poisoned, faults>>

CleanupNextOffByOne ==
    /\ pc = "cleanup"
    /\ IF at > 1
       THEN StopOneService(current) /\ at' = at - 1 /\ UNCHANGED pc
       ELSE pc' = "done" /\ UNCHANGED <<at, world, poisoned>>
    /\ UNCHANGED <<stage, test, ctxDone, faults>>

(* stopReusedServices, kept or not, in reverse order. *)
CleanupNext ==
    /\ pc = "cleanup"
    /\ IF at > 0
       THEN StopOneService(current) /\ at' = at - 1 /\ UNCHANGED pc
       ELSE pc' = "done" /\ UNCHANGED <<at, world, poisoned>>
    /\ UNCHANGED <<stage, test, ctxDone, faults>>

Done == pc = "done" /\ UNCHANGED vars

Next ==
    /\ \/ Panic
       \/ /\ UNCHANGED panicked
          /\ \/ ContextEnds \/ \E s \in Names : ProcessDies(s)
             \/ BeginTest \/ ReuseService \/ Launch \/ Handshake \/ Healthcheck \/ Seed
             \/ PreStartProxies \/ Body \/ StopNext \/ Stopped \/ Cleanup \/ CleanupNext
             \/ Done
    /\ UNCHANGED setup

Spec == Init /\ [][Next]_vars

----------------------------------------------------------------------------

(* After cleanup nothing the runtime knows of is left, whatever panicked,   *)
(* crashed or failed to start on the way: no session, process, proxy or     *)
(* recorded container. Only a failed shutdown, which is reported, may.      *)
NothingLeft ==
    pc = "done" /\ ~poisoned =>
        /\ session = {} /\ recorded = {}
        /\ \A s \in Names : proxy[s] = 0 /\ (s \in Managed => proc[s] = "none")

(* stopServices: dependents stop before dependencies. While shutdown works, *)
(* Faultbox never stops the process of a service whose dependent is up,     *)
(* except under a dependent that is kept for the next test.                 *)
StopsInOrder ==
    \A d \in Names : proc[d] = "up" /\ proc'[d] = "none" /\ pc \in {"stopping", "cleanup"} /\ ~poisoned
          => \A s \in Names : d \in DependsOn[s] =>
                proc[s] # "up" \/ (pc = "stopping" /\ s \in Reuse)

(* A body runs on services of its own: those without reuse=True were        *)
(* started for this test, and whatever has no reset= has been seeded. Only  *)
(* a panic recovered earlier leaves the next test the old processes. The    *)
(* addresses a service was started with lead to the current instances of    *)
(* its dependencies, directly or through their proxies; only a kept service *)
(* is not told where a dependency was started anew.                         *)
FreshServices ==
    pc = "body" =>
        /\ \A s \in Managed \ Reuse : inst[s] = test \/ panicked
        /\ \A s \in session \ setup.hasReset : data[s] = "seeded"
        /\ \A s \in session : \A d \in DependsOn[s] :
              env[s][d] = inst[d] \/ (s \in Reuse /\ d \notin Reuse)
============================================================================
