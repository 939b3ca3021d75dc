------------------------------ MODULE Gateway ------------------------------
(***************************************************************************)
(* The packet gateway as the spec language drives it: fault() windows with *)
(* packet faults, partition() windows, partition_start / partition_stop and *)
(* the link shapers, over one gateway that is attached and torn down with  *)
(* the services, on a host where earlier processes may have died and left  *)
(* their TUN device behind.                                                *)
(*                                                                         *)
(* A key is a (consumer, service) pair, a service having one interface; a  *)
(* rule set is known by the number of the window that installed it.        *)
(***************************************************************************)
EXTENDS Integers, Sequences, FiniteSets, SequencesExt

CONSTANTS
    Routes,        \* Seq of the keys whose consumer the services wire up
    Unsourced,     \* keys with the empty consumer
    Throws,        \* keys whose fault() carries a where= lambda that throws
    Partitions,    \* Partitions[pair]: [a, b, direction] of a partition
    Setups,        \* the variants: records with
                   \*   branches: parallel() branches of a test body
                   \*   reuse: services, and so the gateway, outlive a test
                   \*   hosts: addresses of the gateway's subnet
                   \*   windows, tests, deaths: bounds on windows opened, tests
                   \*     run, and processes of the host that die
    Pids           \* process ids of the host

VARIABLES
    setup, test, phase,   \* the variant, the current test and its phase
    me, alive, devices,   \* this process, the live pids, the TUN devices by pid
    doomed,               \* pids that should have no device since this process
                          \*   last attached or detached
    up, addr,             \* gateway attached; addr[k]: key k's gateway address
    rules,                \* Gateway.rules: the window whose rules key k holds
    published,            \* the rules on the FaultEndpoint: set of <<key, window>>
    tuned, shapersActive, \* a shaper or MTU is on the link; the runtime's flag
    active,               \* partitionRegistry.active: pair to window, 0 for none
    branch,               \* branch[b]: its open windows and its pending calls
    windows,              \* windows opened so far: their keys, test and kind
    unwired, whereErr,    \* the registry's failure notes
    verdict, deaths

host == <<me, alive, devices, doomed, deaths>>
gateway == <<up, addr, rules, published, tuned>>
registry == <<unwired, whereErr>>
vars == <<setup, test, phase, host, gateway, shapersActive, active, branch, windows,
          registry, verdict>>

\* partitionDirection.legs: the (consumer, service) routes a partition cuts.
legs(pair) ==
    LET x == Partitions[pair]
    IN  CASE x.direction = "a_to_b" -> <<<<x.a, x.b>>>>
          [] x.direction = "b_to_a" -> <<<<x.b, x.a>>>>
          [] OTHER -> <<<<x.a, x.b>>, <<x.b, x.a>>>>

Keys == ToSet(Routes) \cup Unsourced
         \cup UNION {ToSet(legs(pair)) : pair \in DOMAIN Partitions}
NoRoute == 0
Done == [stack |-> <<>>, todo |-> <<>>, live |-> FALSE]
Fresh == [stack |-> <<>>, todo |-> <<>>, live |-> TRUE]

NoGateway ==
    /\ up = FALSE
    /\ addr = [k \in Keys |-> NoRoute]
    /\ rules = [k \in Keys |-> 0]
    /\ published = {}
    /\ tuned = {}

Detached ==
    /\ up' = FALSE
    /\ addr' = [k \in Keys |-> NoRoute]
    /\ rules' = [k \in Keys |-> 0]
    /\ published' = {}
    /\ tuned' = {}

Init ==
    /\ setup \in Setups
    /\ test = 1 /\ phase = "setup" /\ deaths = 0
    /\ me = CHOOSE p \in Pids : TRUE
    /\ alive = {me, CHOOSE p \in Pids \ {me} : TRUE}
    /\ devices \in IF setup.deaths = 0 THEN {{}} ELSE SUBSET (Pids \ {me})
    /\ doomed = {}
    /\ NoGateway
    /\ shapersActive = FALSE
    /\ active = [pair \in DOMAIN Partitions |-> 0]
    /\ branch = [b \in 1..setup.branches |-> Done]
    /\ windows = <<>>
    /\ unwired = 0 /\ whereErr = 0
    /\ verdict = "none"

-----------------------------------------------------------------------------
(* Attaching: preflight and start, with the sweep of orphaned devices *)

\* reapOrphanDevices, then a stale device of this very pid is replaced.
reapOrphanDevices == {d \in devices : d = me \/ d \in alive}

\* addrAllocator.allocate: an existing address stays; a full subnet gives none.
allocate(as, k) ==
    LET used == Cardinality({j \in Keys : as[j] # NoRoute})
    IN  IF as[k] # NoRoute \/ used + 2 > setup.hosts THEN as ELSE [as EXCEPT ![k] = used + 2]

\* Every failure after the device was added deletes it again, so a start either
\* leaves a running gateway and its device, or neither.
AttachDevice(ok, routes) ==
    /\ devices' = IF ok THEN reapOrphanDevices \cup {me} ELSE reapOrphanDevices \ {me}
    /\ doomed' = (Pids \ alive) \cup (IF ok THEN {} ELSE {me})
    /\ up' = ok
    /\ addr' = IF ok THEN FoldLeft(allocate, addr, routes) ELSE addr
    /\ UNCHANGED <<me, alive, deaths>>

Attach(ok, routes) ==
    AttachDevice(ok, routes) /\ UNCHANGED <<rules, published, tuned>>

\* Test setup: the gateway attaches, or the preflight fails (nothing touched)
\* or the start fails; the services' routes are allocated as they start.
Setup ==
    /\ phase = "setup"
    /\ \/ ~up /\ \E ok \in BOOLEAN : Attach(ok, Routes)
       \/ UNCHANGED <<host, gateway>>
    /\ phase' = "body"
    /\ branch' = [b \in DOMAIN branch |-> Fresh]
    /\ UNCHANGED <<setup, test, shapersActive, active, windows, registry, verdict>>

-----------------------------------------------------------------------------
(* The spec's calls *)

install(k) == [do |-> "install", key |-> k, win |-> Len(windows) + 1]
opened == [do |-> "opened", key |-> "", win |-> Len(windows) + 1]
clear(k) == [do |-> "clear", key |-> k, win |-> 0]
ClearAll(keys) == [i \in DOMAIN keys |-> clear(keys[i])]

\* A call fails: the Starlark stack unwinds, each open window's cleanup runs.
Unwind(b, undo) ==
    branch' = [branch EXCEPT ![b] =
        [stack |-> <<>>, live |-> FALSE,
         todo |-> undo \o FlattenSeq([i \in DOMAIN branch[b].stack |->
             ClearAll(windows[Reverse(branch[b].stack)[i]].keys)])]]

Ready(b) == phase = "body" /\ branch[b].live /\ branch[b].todo = <<>>

\* Open a window of the given kind over keys: compiled rules, one install per
\* key in order, then the window is in force.
Open(b, kind, keys, pair) ==
    /\ Len(windows) < setup.windows
    /\ windows' = Append(windows, [kind |-> kind, keys |-> keys, pair |-> pair,
                                   test |-> test, wired |-> TRUE])
    /\ branch' = [branch EXCEPT ![b].todo =
                    [i \in DOMAIN keys |-> install(keys[i])] \o <<opened>>]

\* ensurePacketGateway in the middle of a test: services are already wired, so
\* a gateway that attaches now has no routes.
Ensure(ok) == IF up THEN ok /\ UNCHANGED <<host, gateway>> ELSE Attach(ok, <<>>)

\* fault(iface_ref, packet_*(), source=): a source without a route to the
\* interface is refused before anything is installed.
builtinFault(b, k) ==
    /\ Ready(b)
    /\ IF k \in Unsourced
       THEN Open(b, "fault", <<k>>, "") /\ UNCHANGED <<host, gateway>>
       ELSE \E ok \in BOOLEAN :
              /\ Ensure(ok)
              /\ IF ok /\ addr[k] = NoRoute
                 THEN Unwind(b, <<>>) /\ UNCHANGED windows
                 ELSE Open(b, "fault", <<k>>, "")
    /\ UNCHANGED <<setup, test, phase, shapersActive, active, registry, verdict>>

builtinPartition(b, pair) ==
    /\ Ready(b)
    /\ Open(b, "partition", legs(pair), pair)
    /\ UNCHANGED <<setup, test, phase, host, gateway, shapersActive, active, registry, verdict>>

\* The active check comes first; the registration when everything is installed.
builtinPartitionStart(b, pair) ==
    /\ Ready(b)
    /\ IF active[pair] # 0
       THEN Unwind(b, <<>>) /\ UNCHANGED windows
       ELSE Open(b, "start", legs(pair), pair)
    /\ UNCHANGED <<setup, test, phase, host, gateway, shapersActive, active, registry, verdict>>

builtinPartitionStop(b, pair) ==
    /\ Ready(b)
    /\ IF active[pair] = 0
       THEN Unwind(b, <<>>)
       ELSE branch' = [branch EXCEPT ![b].todo = ClearAll(windows[active[pair]].keys)]
    /\ active' = [active EXCEPT ![pair] = 0]
    /\ UNCHANGED <<setup, test, phase, host, gateway, shapersActive, windows, registry, verdict>>

\* bandwidth() and mtu(): attach the gateway if need be, then tune the link.
Tune(b, what) ==
    /\ Ready(b) /\ what \notin tuned
    /\ \E ok \in BOOLEAN :
         IF ok
         THEN /\ IF up THEN UNCHANGED <<host, up, addr>> ELSE AttachDevice(TRUE, <<>>)
              /\ tuned' = tuned \cup {what} /\ shapersActive' = TRUE
              /\ UNCHANGED <<rules, published, branch>>
         ELSE ~up /\ Attach(FALSE, <<>>) /\ Unwind(b, <<>>) /\ UNCHANGED shapersActive
    /\ UNCHANGED <<setup, test, phase, active, windows, registry, verdict>>

builtinBandwidth(b) == Tune(b, "bandwidth")

builtinMTU(b) == Tune(b, "mtu")

\* The innermost run= callback returns, or the branch's body does.
CloseWindow(b) ==
    /\ Ready(b) /\ branch[b].stack # <<>>
    /\ branch' = [branch EXCEPT ![b].stack = Front(@),
                                ![b].todo = ClearAll(windows[Last(branch[b].stack)].keys)]
    /\ UNCHANGED <<setup, test, phase, host, gateway, shapersActive, active, windows, registry, verdict>>

BodyReturns(b) ==
    /\ Ready(b) /\ branch[b].stack = <<>>
    /\ branch' = [branch EXCEPT ![b].live = FALSE]
    /\ UNCHANGED <<setup, test, phase, host, gateway, shapersActive, active, windows, registry, verdict>>

-----------------------------------------------------------------------------
(* The pending calls of a branch: packetRuleRegistry.install and clear, with *)
(* the gateway's InstallRules, ClearRules and the two halves of republish.   *)

Collected(rs) == {<<k, rs[k]>> : k \in {j \in Keys : rs[j] # 0}}
publish(set) == [do |-> "publish", key |-> "", win |-> 0, set |-> set]

Rest(b) == Tail(branch[b].todo)
Doing(b, what) == branch[b].todo # <<>> /\ Head(branch[b].todo).do = what
Then(b, todo) == branch' = [branch EXCEPT ![b].todo = todo]

\* The keys of window w installed before k, to undo when k cannot be.
InstalledBefore(w, k) ==
    LET keys == windows[w].keys
    IN  SubSeq(keys, 1, (CHOOSE i \in DOMAIN keys : keys[i] = k) - 1)

\* Fault: an install without a gateway is not counted.
InstallUncounted(b) ==
    LET op == Head(branch[b].todo)
        stored == [rules EXCEPT ![op.key] = op.win]
    IN  /\ Doing(b, "install")
        /\ \/ /\ ~up
              /\ UNCHANGED unwired
              /\ windows' = [windows EXCEPT ![op.win].wired = FALSE]
              /\ Then(b, Rest(b))
              /\ UNCHANGED rules
           \/ /\ up /\ op.key \notin Unsourced /\ addr[op.key] = NoRoute
              /\ Unwind(b, ClearAll(InstalledBefore(op.win, op.key)))
              /\ UNCHANGED <<unwired, windows, rules>>
           \/ /\ up /\ (op.key \in Unsourced \/ addr[op.key] # NoRoute)
              /\ rules' = stored
              /\ Then(b, <<publish(Collected(stored))>> \o Rest(b))
              /\ UNCHANGED <<unwired, windows>>
        /\ UNCHANGED <<setup, test, phase, host, up, addr, published, tuned, shapersActive,
                       active, whereErr, verdict>>

\* install: counted when there is no gateway; refused when the key has no
\* address, undoing the window's earlier keys; otherwise stored and collected.
Install(b) ==
    LET op == Head(branch[b].todo)
        stored == [rules EXCEPT ![op.key] = op.win]
    IN  /\ Doing(b, "install")
        /\ \/ /\ ~up
              /\ unwired' = unwired + 1
              /\ windows' = [windows EXCEPT ![op.win].wired = FALSE]
              /\ Then(b, Rest(b))
              /\ UNCHANGED rules
           \/ /\ up /\ op.key \notin Unsourced /\ addr[op.key] = NoRoute
              /\ Unwind(b, ClearAll(InstalledBefore(op.win, op.key)))
              /\ UNCHANGED <<unwired, windows, rules>>
           \/ /\ up /\ (op.key \in Unsourced \/ addr[op.key] # NoRoute)
              /\ rules' = stored
              /\ Then(b, <<publish(Collected(stored))>> \o Rest(b))
              /\ UNCHANGED <<unwired, windows>>
        /\ UNCHANGED <<setup, test, phase, host, up, addr, published, tuned, shapersActive,
                       active, whereErr, verdict>>

\* Fault: a window's cleanup clears every key.
ClearEverything(b) ==
    LET erased == [k \in Keys |-> 0]
    IN  /\ Doing(b, "clear")
        /\ IF up THEN /\ rules' = erased
                      /\ Then(b, <<publish(Collected(erased))>> \o Rest(b))
           ELSE UNCHANGED rules /\ Then(b, Rest(b))
        /\ UNCHANGED <<setup, test, phase, host, up, addr, published, tuned, shapersActive,
                       active, windows, registry, verdict>>

Clear(b) ==
    LET erased == [rules EXCEPT ![Head(branch[b].todo).key] = 0]
    IN  /\ Doing(b, "clear")
        /\ IF up THEN /\ rules' = erased
                      /\ Then(b, <<publish(Collected(erased))>> \o Rest(b))
           ELSE UNCHANGED rules /\ Then(b, Rest(b))
        /\ UNCHANGED <<setup, test, phase, host, up, addr, published, tuned, shapersActive,
                       active, windows, registry, verdict>>

\* The second half of republish: SetRules after the unlock.
Publish(b) ==
    /\ Doing(b, "publish")
    /\ published' = Head(branch[b].todo).set
    /\ Then(b, Rest(b))
    /\ UNCHANGED <<setup, test, phase, host, up, addr, rules, tuned, shapersActive,
                   active, windows, registry, verdict>>

\* Every key is in: a run= window is on the stack, partition_start registers.
Opened(b) ==
    LET w == Head(branch[b].todo).win
        starts == windows[w].kind = "start"
    IN  /\ Doing(b, "opened")
        /\ branch' = [branch EXCEPT ![b].todo = Rest(b),
                                    ![b].stack = IF starts THEN @ ELSE Append(@, w)]
        /\ active' = IF starts THEN [active EXCEPT ![windows[w].pair] = w] ELSE active
        /\ UNCHANGED <<setup, test, phase, host, gateway, shapersActive, windows, registry, verdict>>

\* The datapath evaluates a where= lambda that throws: recordWhereError.
recordWhereError ==
    /\ phase = "body" /\ whereErr = 0
    /\ \E e \in published : e[1] \in Throws /\ windows[e[2]].kind = "fault"
    /\ whereErr' = test
    /\ UNCHANGED <<setup, test, phase, host, gateway, shapersActive, active, branch, windows,
                   unwired, verdict>>

-----------------------------------------------------------------------------
(* The end of a test *)

\* The guards of the verdict, in order.
Verdict ==
    /\ phase = "body"
    /\ \A b \in DOMAIN branch : branch[b] = Done
    /\ verdict' = CASE whereErr # 0 -> "where_error"
                    [] unwired > 0 -> "unwired"
                    [] OTHER -> "pass"
    /\ phase' = "verdict"
    /\ UNCHANGED <<setup, test, host, gateway, shapersActive, active, branch, windows, registry>>

\* Fault: the registry forgets its partitions, the gateway keeps their rules.
clearPartitionsUnregisters ==
    /\ phase = "verdict"
    /\ active' = [pair \in DOMAIN active |-> 0]
    /\ UNCHANGED <<rules, published>>
    /\ phase' = "stop"
    /\ UNCHANGED <<setup, test, host, up, addr, tuned, shapersActive, branch, windows,
                   registry, verdict>>

\* clearPartitions: what partition_start left open is removed.
clearPartitions ==
    LET open == UNION {ToSet(windows[active[pair]].keys) :
                         pair \in {q \in DOMAIN active : active[q] # 0}}
        left == [k \in Keys |-> IF k \in open THEN 0 ELSE rules[k]]
    IN  /\ phase = "verdict"
        /\ active' = [pair \in DOMAIN active |-> 0]
        /\ IF up /\ open # {} THEN rules' = left /\ published' = Collected(left)
           ELSE UNCHANGED <<rules, published>>
        /\ phase' = "stop"
        /\ UNCHANGED <<setup, test, host, up, addr, tuned, shapersActive, branch, windows,
                       registry, verdict>>

\* clearShapers, then closePacketGateway unless services are reused.
StopServices ==
    /\ phase = "stop"
    /\ shapersActive' = FALSE
    /\ IF setup.reuse
       THEN /\ tuned' = IF shapersActive /\ up THEN {} ELSE tuned
            /\ UNCHANGED <<devices, doomed, up, addr, rules, published>>
       ELSE /\ Detached
            /\ devices' = IF up THEN devices \ {me} ELSE devices
            /\ doomed' = IF up THEN doomed \cup {me} ELSE doomed
    /\ phase' = "ended"
    /\ UNCHANGED <<setup, test, me, alive, deaths, active, branch, windows,
                   registry, verdict>>

NextTest ==
    /\ phase = "ended" /\ test < setup.tests
    /\ test' = test + 1
    /\ phase' = "setup"
    /\ verdict' = "none"
    /\ UNCHANGED <<setup, host, gateway, shapersActive, active, branch, windows, registry>>

\* The process is killed; a later run starts under any free pid.
Crash ==
    /\ deaths < setup.deaths
    /\ \E pid \in Pids \ alive :
         /\ me' = pid
         /\ alive' = (alive \ {me}) \cup {pid}
         /\ doomed' = doomed \ {pid}
    /\ deaths' = deaths + 1
    /\ test' = 1 /\ phase' = "setup" /\ verdict' = "none"
    /\ Detached
    /\ shapersActive' = FALSE
    /\ active' = [pair \in DOMAIN Partitions |-> 0]
    /\ branch' = [b \in DOMAIN branch |-> Done]
    /\ windows' = <<>> /\ unwired' = 0 /\ whereErr' = 0
    /\ UNCHANGED <<setup, devices>>

\* Another process of the host dies; its device stays.
OtherDies ==
    /\ deaths < setup.deaths
    /\ deaths' = deaths + 1
    /\ \E pid \in alive \ {me} : alive' = alive \ {pid}
    /\ UNCHANGED <<setup, test, phase, me, devices, doomed, gateway, shapersActive,
                   active, branch, windows, registry, verdict>>

Call(b) ==
    \/ \E k \in Keys : builtinFault(b, k)
    \/ \E pair \in DOMAIN Partitions :
         builtinPartition(b, pair) \/ builtinPartitionStart(b, pair) \/ builtinPartitionStop(b, pair)
    \/ builtinBandwidth(b) \/ builtinMTU(b) \/ CloseWindow(b) \/ BodyReturns(b)
    \/ Install(b) \/ Clear(b) \/ Publish(b) \/ Opened(b)

Next ==
    \/ Setup
    \/ \E b \in DOMAIN branch : Call(b)
    \/ recordWhereError
    \/ Verdict \/ clearPartitions \/ StopServices \/ NextTest
    \/ Crash \/ OtherDies

Spec == Init /\ [][Next]_vars

-----------------------------------------------------------------------------
(* Properties *)

\* No test's faults stay with the gateway for the next, whatever it left open
\* or wherever a call failed, and no device outlives its process by more than
\* one attach: clearPartitions, clearShapers, closePacketGateway and
\* reapOrphanDevices together undo what installs, shapers and attaches did. The
\* endpoint has none left either, unless parallel branches published out of
\* order on a gateway that is kept (republish, gateway.go:294): then rules that
\* are gone from the gateway may stay in force.
NothingLeaks ==
    /\ phase = "ended" =>
         /\ Collected(rules) = {} /\ tuned = {} /\ ~shapersActive
         /\ setup.branches = 1 \/ ~setup.reuse => published = {}
         /\ \A pair \in DOMAIN active : active[pair] = 0
    /\ up => me \in devices
    /\ devices \cap doomed = {}

\* A test that passes faulted only links that had a gateway under them: an
\* install that found none is counted and fails the verdict, even when a later
\* call attaches the gateway.
PassIsMediated ==
    verdict = "pass" => \A w \in DOMAIN windows : windows[w].test = test => windows[w].wired

InForce(w) ==
    \/ \E b \in DOMAIN branch : w \in ToSet(branch[b].stack) /\ branch[b].todo = <<>>
    \/ (\A b \in DOMAIN branch : branch[b].todo = <<>>) /\ \E pair \in DOMAIN active : active[pair] = w
Shared(w) == \E v \in DOMAIN windows \ {w} :
                ToSet(windows[v].keys) \cap ToSet(windows[w].keys) # {}

\* In a sequential body, a window none of whose keys another window used has
\* every one of its rules on the endpoint for as long as it is open.
WindowHolds ==
    setup.branches = 1 /\ phase = "body" =>
        \A w \in DOMAIN windows :
            InForce(w) /\ windows[w].wired /\ ~Shared(w) =>
                \A k \in ToSet(windows[w].keys) : <<k, w>> \in published
=============================================================================
