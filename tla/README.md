# Verification of Faultbox

Faultbox runs a system under test behind a seccomp supervisor, protocol proxies
and a packet gateway, injects faults into it, records what happens in an event
log and decides a verdict per test. This directory holds TLA+ models of the
parts of Faultbox where concurrency, ordering and failure make that verdict hard
to get right, the TLC configurations that check them on small instances, and
proofs, checked by TLAPS, of what matters most about twelve of them.

Paths below are relative to `src/internal/` unless they start with `cmd/` or
`docs/`. `PROJECT.json` maps each definition to the lines it models, lists every
component, and lists the hazards with the properties that cover them. The mapped
lines are 31.5 % of the repository's Go code (19,300 of 61,400 lines, tests
apart); section 7 says what the rest is.

## 1. Inventory

| Part | Module | What is hard about it |
|---|---|---|
| Hold queue (`engine/hold.go`) | `HoldQueue` | lost wakeups, sends under a lock, close against enqueue |
| Exploration (`star/builtins.go` parallel(), `engine/session.go`, `scheduler.go`) | `Explore` | calls that arrive after the snapshot, timeouts, several services |
| Orderings (`engine/permutation.go`, `star/interleavings.go`, `leaf.go`) | `Orderings`, `PlanWalk` | caps and wrap-around |
| Launch handshake (`seccomp/shim_linux.go`, `filter_linux.go`, `container/launch.go`, `fd_linux.go`, `cmd/faultbox-shim`) | `Launch` | a shim under its own filter; failure at every step; two channels |
| Supervisor (`engine/launch_linux.go`, `launch_container_linux.go`) | `Supervisor` | exit against cancellation against a broken loop |
| Test run (`star/runtime.go` runTestImpl, `temporal.go`, `halt.go`) | `TestRun` | simultaneous events, state carried into the next test |
| Suite (`star/runtime.go` RunAll, `cmd/faultbox/main.go`) | `Suite` | early exits from nested loops |
| Services (`star/runtime.go`, `shutdown.go`, `container/launch.go`) | `Services` | failures and panics half way |
| Event log (`star/events.go`, `trace.go`) | `EventLog` | merges and emits are separate critical sections |
| Await (`star/await.go`) | `Await` | subscribe against emit, timer against reset |
| Fault rules (`engine/fault.go`, `launch_linux.go`, `star/runtime.go`) | `FaultRules` | handlers that race for counters and outlive windows |
| Fault scopes (`star/runtime.go`, `builtins.go`, `spec_statements.go`) | `FaultScopes`, `FaultSpecs` | what to intercept is guessed from text; windows nest, fail and are skipped |
| Packet rules and endpoint (`netfault/rule.go`, `endpoint.go`, `defer.go`, `shape.go`, `star/packet*.go`) | `PacketRules`, `Endpoint`, `Link` | four threads move packets; rules change under them |
| Gateway and partitions (`netfault/gateway*.go`, `alloc.go`, `reap_linux.go`, `star/partition.go`, `packetgateway*.go`, `shaper.go`) | `Gateway` | rule lists published outside the lock; parallel windows; devices of dead processes |
| Proxies (`proxy/`) | `Proxy`, `ProxyDialects`, `ProxyHandshake` | pipelined requests, which side speaks next, stop against handlers |
| Clients (`protocol/` ExecuteStep) | `Clients` | answers that end half way, waits nobody bounds |
| Readiness (`protocol/` Healthcheck, `star/runtime.go`) | `Readiness` | a port that is bound before the service answers; exit during the wait |
| kafka.consume_many (`protocol/kafka_consume_many.go`) | `Consume` | commit against decode against deadline |
| Kafka groups and waits (`protocol/kafka_observe.go`, `kafka_groups.go`, `star/kafka_wait.go`) | `KafkaGroups` | events logged in another order than the state changed |
| Connection ownership (`connowner/`) | `ConnOwner` | pid, inode and tuple reuse during a search |
| File observation (`star/watch*.go`, `gvisor/`) | `Watch` | one socket for all runs of a host; drops; windows that overlap |
| Mocks (`star/mock*.go`, `protocol/*mock*.go`) | `Mocks` | stragglers of the last test, state changes by parallel branches |
| Mock routes (`protocol/openapi.go`, `http.go`, `star/mock_runtime.go`) | `MockRoutes` | validator and dispatcher must agree; order of overlapping templates |
| Shared files (`bundle/`, `lock/`, `cmd/faultbox/lock.go`, `replay.go`) | `Artifacts` | concurrent commands, a kill between any two system calls |

How the parts meet: the suite runs leaves; a leaf is one test run; a test run
starts the services, each through the launch handshake and a readiness check,
and its body makes steps through the clients, the proxies and the gateway. The
supervisors answer system calls under the fault rules that the spec's scopes
install and, in exploration, park them in hold queues. All of them write to the
event log, whose subscribers are the awaits, the waits for kafka groups and the
monitors; the verdict goes back to the suite.

```
Suite -> TestRun -> Services -> Launch, Readiness -> Supervisor -> FaultRules <- FaultScopes
             |          |                                |
             |          +-> Mocks, Gateway, Proxy, Watch +-> Explore -> HoldQueue, Orderings
             +-> Clients, Consume
             +-> EventLog <- Await, KafkaGroups <- ConnOwner
```

## 2. Modules

A component's module has its state, one action per operation or critical
section, `Next` and the specification. `Link` is an abstract specification, which
`Endpoint` implements. `FaultSpecs` is a library of small specs. `*Proofs`,
`EndpointSteps` and `EndpointOrder` hold theorems. The `MC*` modules give the constants their values and put components
that answer related questions side by side: a variable `part`, chosen initially,
says which of them moves, and the others keep one initial state. This is a sum,
not a product: components whose interaction matters are in one module (rules,
windows and handlers in `FaultRules`; queue, timer, handlers and Close in
`Endpoint`; observer, log and gates in `KafkaGroups`; windows, registry and
gateway in `Gateway`), and interfaces between modules are as follows.

- `Explore` uses the methods of the hold queue as atomic steps. `HoldQueue`
  shows what they promise: a send never blocks, what is held can be reached.
- `Suite` takes a verdict of a leaf as an input; `TestRun` says which verdicts
  there are. `Services` takes a launch as a step that succeeds or fails;
  `Launch` shows that a reported launch is one, and that every launch returns.
- `EventLog` treats an emit as one step and looks at clocks; `Await` splits it
  and looks at delivery.
- `Gateway` treats the endpoint's SetRules as one assignment; `Endpoint` has
  SetRules at any moment between two steps of a packet.

Two conventions recur. A model that has several declarations to consider (test
declarations, rule sets, service setups, scripts) takes a constant set of
records and picks one in `Init`. History variables, marked as such, record what
a property needs and no action reads. Where many pieces of code are one machine
with local differences (the proxies, the clients, the mock servers, the
healthchecks), the module has the machine once and a table of records, one per
protocol, mapped to the code it was read from.

A definition used nowhere that stands before a mapped one (`EnqueueIntoClosed`,
`VerdictIgnoresMonitors`, ...) is a mutation of it; `PROJECT.json` says which
property detects it.

### What each model leaves out

- **HoldQueue.** Decisions are allow or deny. A method that takes the lock and
  does not sleep is one step; Wait is split at every point where it can lose the
  lock. Reads (`Pending`, `Len`) change nothing and are left out.
- **Explore.** Nested parallel() calls, and parallel() outside explore mode, are
  not modelled; see section 6. A callable is its one system call. A step may give
  up, because the test context and the client timeouts bound it. The scheduler's
  5 s deadline is a step that can be taken while it waits; that it takes effect
  is the contract of `Wait`, which `HoldQueue` shows can be missed.
- **Orderings.** `Factorial` is capped at 12 in the code; the run stays below.
- **Launch.** A system call is its number class; the BPF program is the decision
  it computes. The legacy report descriptor is left out, and so are the race of
  exec with the close-on-exec listener and a shim that dies before it dials.
- **Supervisor.** What happens before the target runs is in `Launch`.
- **TestRun.** An emission is three steps, the append, the copy of the
  subscribers and each call of one, so that it can straddle a registration, a
  verdict and the next run's reset. Services emit from their start to the end of
  teardown, reused ones beyond it; the events of the body are those of one more
  emitter. A body that was left behind is taken to be stuck in a call once
  teardown is over, and emits and declares nothing more. The diagnostics that can
  fail a test after the monitors are one nondeterministic failure. The expect=
  and terminate_when= objects belong to the declaration and keep what they know
  from run to run.
- **Suite.** One run of one leaf is an input: any verdict, with or without a
  failed teardown. Only the command line is modelled as caller.
- **Services.** There is at least one. "Seeded" means the callback completed.
  Container and health calls are steps that succeed or fail. The environment a
  service is given is the set of dependencies' instances it was built from; its
  text is not modelled.
- **EventLog.** Events without a service have an empty clock, as in the code.
  Formatting, filters and indices are left out.
- **FaultRules.** Hold rules are in `Explore`. Nothing in the repository sets
  `DestAddr`. `nth` and `after` exist only in static rules. A refused
  fault_scenario leaves the rule sets applied before the refusal, as the code
  does. A container's session creates the counters of its static rules on first
  use without a lock (`engine/fault.go:144`) and may lose a count; those rules
  are the placeholders of what may be faulted later
  (`star/runtime.go:4445`), with no trigger and probability zero, and nothing
  reads their counts. Dynamic rules get theirs when they are set
  (`engine/session.go:376`). The model's counters are therefore atomic.
- **FaultScopes.** Starlark is reduced to the calls that declare, open and close
  scopes. The scan sees text as lines of atoms, since how a call is broken over
  lines decides what it finds. `FaultSpecs` renders that text from the calls.
- **PacketRules, Endpoint.** Header fields and payloads appear as the set of
  packets a predicate admits; time is a logical clock; byte offsets, checksums
  and the user-space TCP stack (`netfault/stack.go`) are left out.
- **Gateway.** A service has one interface. Publication is split from the
  collection of its rules. Byte-level packet handling is in `Endpoint`.
- **Proxy.** One connection at a time. Wire formats, TLS termination
  (EnsureProxyTLS, SetTLS) and the stall watch are left out. A message is its
  kind and whether a rule's pattern matches it.
- **ProxyHandshake.** MySQL and PostgreSQL, whose proxies take part in the
  connection phase. A GSS exchange is among the methods and is excepted from the
  property (section 6); SSLRequest is left out.
- **Clients, Readiness, Consume.** Client libraries report every broken answer
  to a caller that asks. Encoding of arguments and results is left out.
- **KafkaGroups.** Incremental fetch sessions and the wire codec are left out.
  Clients are proven processes, or unknown with the same or different client ids.
- **ConnOwner.** Process trees of two levels. Releasing a bridge is two steps,
  the end of its binding and the removal from the table.
- **Watch.** The decoding of trace points is left out. The window filter is the
  set of operations it admits. A point still on its way when its window closes is
  not seen, in the model as in the code.
- **Mocks.** What a mock answers is in `MockRoutes`, for HTTP. The servers of
  the redis and kafka libraries are external. Certificates are left out.
- **MockRoutes.** Strictness is claimed for documents without overlapping
  templates. Schema validation is an input ("the request fits"). This is the one
  module with RECURSIVE operators; no theorem reaches it.
- **Artifacts.** A bundle is a sequence of blocks. Reading versions is modelled,
  rendering is not.

## 3. Runs

State counts are distinct states.

| Run | Instance | States | What it shows |
|---|---|---|---|
| `engine` | 2 notifications and 2 waits with counts 1 and 2; 2 parallel() calls in sequence over 2 services and 3 system calls; every policy over up to 5 branches; launches with up to 2 failures; 2 emitters and 2 waits | 368,357 | no send blocks under the mutex, every blocked handler is in reach of Close, a parked waiter really must wait; releases follow the permutation although calls keep arriving; both decoders give the lexicographic permutation and leaves are distinct and, under "all", complete; a shim never traps itself and a launch reports what is so; no event is missed by await_event; all of it ends |
| `lifecycle` | 8 test declarations, 3 of them over two runs; suites of 2 tests of 2 leaves, or one repeated; 3 services over 3 tests with 2 faults; 3 system calls under both kinds of target | 850,959 | a verdict is earned, what was seen in time decides; every leaf is accounted for, exit code 0 hides nothing measured; cleanup leaves nothing, bodies run on fresh, seeded, correctly wired services, dependents stop first; nothing outlives a session and only broken loops are reported; run, suite and session end |
| `faults` | 4 sessions with 3 handlers; the specs of `FaultSpecs`; 4 OpenAPI documents | 420,803 | rules hit what they name, exactly as often as they say, in their window; a fault of a spec fires or is refused, and nothing outlives its window; routes mean what their patterns say, and the same in every test |
| `network` | 2 packets in and 1 out under 5 rule sets | 127,577 | `Endpoint` implements `Link`; packets of one deadline leave in order; the queue drains |
| `proxies` | every protocol, up to 3 pipelined messages, up to 2 windows; 10 authentication exchanges; the gateway over 2 tests, 2 windows, 1 partition, 1 death | 620,099 | no rule outlives its window, answers match requests, Stop is not silent about a handler left behind; no test's packet faults pass unmediated, and without parallel branches on a kept gateway none leak or lapse; conversations and handshakes settle |
| `observation` | 2 services and 2 steps; a group of 2, proven or not; 2 processes; up to 2 sandboxes; 3 commands | 1,483,675 | happens-before is causality and agrees with the log; a gate fires for the member and assignment it names, or a member that cannot be told from it; an owner is proven at one instant; a watch of one sandbox that passes saw what was reported since its last window opened; seed, lock and bundle are whole and current whoever was killed |
| `outside` | mocks of every protocol over 2 tests; every client method and healthcheck; topics of up to 3 records | 663,235 | a mock serves its own test and shows handlers snapshots; success means the whole answer, ready means it answered in time, what is committed was returned; every test, step and wait ends |
| `hold_queue_cancel` | 1 and 1 | - | **violated**: a cancelled Wait may never return |
| `halt_and_violation` | one declaration | - | **violated**: halt() hides an always() violation |
| `expect_per_test` | one declaration, two runs | - | **violated**: a second run passes on what the expect= object saw in the first |
| `skipped_fault` | the specs of `FaultSpecs` | - | **violated**: a fault that was skipped passes require_faults_fire |
| `torn_read` | 3 commands | - | **violated**: a reader finds a seed file half written |

### Bounds

Two of each competing actor are enough for the races at hand: a lost wakeup
needs a waiter and a waker, an overtaking needs two entries, a leak into the
next test needs two tests. A third is used where the second can mask the first:
three handlers for the rules (two that consume a trigger and one that must not),
three system calls in `Supervisor` (one answered, one held, one dropped), three
tests in `Services` (a kept service, its predecessor and its successor), three
commands over the shared files (two writers and a reader), three messages on a
proxied connection (one acted on, one waiting behind it, one after), three
records in a topic (before, at and behind one that does not decode). Each bound
is a constant or a field of a declaration (`MaxEvents`, `MaxResets`,
`MaxLeaves`, `MaxTests`, `MaxFaults`, `MaxCalls`, `MaxBacklog`, `MaxTime`, `MaxSeq`,
`MaxGen`, `MaxStart`, `MaxToken`, `MaxOps`, `MaxPush`, `maxRounds`,
`maxEvents`, `emitters`, `runs`, `held`). In `lifecycle`, the sources of a seed
(flag, file, none) and the values of `--runs` and
`--explore=all` vary only in the suite that repeats one test (`SeedMatters`,
`RunsMatter`); a suite of two tests runs each once, on the recorded seed. `faults` uses symmetry over handlers,
which occur only as elements of a set, and checks invariants only.

Deadlock is checked in `lifecycle`. It is off where behaviours end: a queue
nobody uses any more, a launch that returned, a suite of fault windows that is
over, a proxy that stopped, a script of packets, sandboxes or commands that is
played to its end, and emitters whose bound on the number of events ends a
behaviour that the code would continue. Whether anyone waits for ever there is
what the liveness properties of those runs ask.

### Fairness

Liveness is checked under one weak fairness condition per run and kind of
behaviour, over the disjunction of the steps the program takes by itself:
goroutines that can run, timers that are armed, deadlines. Arrivals, crashes,
cancellations, interrupts, the target's own behaviour and the body are never
forced. The exceptions are things the environment guarantees or a property
supposes: the death of a process that was sent SIGKILL; the end of a context with
a deadline, the test's (`star/runtime.go:1539`) or a launch's, and with it the
end of a body in `Mocks`; a topic's own timeout in `Consume`, whose caller's
context is never forced; in the proxies' models, a service that answers the
request it was sent, since the property is that the proxy does not keep the
answer or wait for the side whose turn it is not. The Go scheduler
justifies the rest: it does not leave every runnable goroutine waiting for ever.
It is enough because each model's own steps form a finite acyclic graph, so a
behaviour that keeps taking some step runs out of them, and the properties say
where it must then have come to rest.

## 4. Proofs

The theorems hold for every value of the constants; the runs check the same
formulas on small instances. A proof module extends one component's module. Some
of them also take a second component by INSTANCE, under other names for its
variables, and prove that one's theorems further down; the two do not meet in any
proof. Few of the invariants are inductive as they stand: the strengthening is a
named conjunction in each module, and the proof that a step keeps it has one
step or lemma per action.

| Module | Theorem | Statement | Assumptions |
|---|---|---|---|
| `HoldQueueProofs` | `TypeCorrect` | `Spec => []TypeOK` | `CountsAssumption`, `NoOneAssumption` |
| | `SendsNeverBlock` | `Spec => []ReleaseNeverBlocks` | |
| | `HandlersReachable` | `Spec => []NoOrphanedHandler` | |
| | `NoLostWakeup` | `Spec => []ParkedMustWait` | |
| | `SuiteAccounts` (`Suite`) | `S!Spec => []S!EverythingIsAccounted` | `S!SuiteConstants` |
| | `GreenSuites` (`Suite`) | `S!Spec => []S!GreenIsEarned` | `S!SuiteConstants` |
| `EventLogProofs` | `EventLogTypes` | `Spec => []TypeOK` | `NamesAssumption`, `BoundsAssumption` |
| | `CausalityFollowsLog` | `Spec => []LogRespectsCausality` | |
| | `HappensBeforeIsExact` | `Spec => []ClocksAreCausality` | |
| | `NoEventIsMissed` (`Await`) | `A!Spec => [](A!TypeOK /\ A!NoMissedEvent)` | `A!AwaitConstants` |
| `TestRunProofs` | `SeenDecides` | `Spec => []SeenIsDecisive` | none |
| | `VerdictsAreEarned` | `Spec => []VerdictIsEarned` | `ConfigAssumption` |
| | `CleanupLeavesNothing` (`Services`) | `V!Spec => []V!NothingLeft` | `V!ServicesConstants` |
| | `SessionsAreHonest` (`Supervisor`) | `P!Spec => []P!SessionIsHonest` | none |
| `FaultRulesProofs` | `FaultsAreAimed` | `Spec => []FaultsHitTheirTarget` | `SetupsAssumption` |
| | `FaultsStayInTheirWindows` | `Spec => []FaultsFollowWindows` | |
| | `RulesFireExactly` | `Spec => []TriggersAreExact` | |
| `ProxyProofs` | `RulesBelongToAWindow` | `Spec => []RulesHaveAWindow` | `ProtocolsAssumption`, `ScriptsAssumption` |
| | `StopReports` | `Spec => []StopIsNotSilent` | |
| | `NothingCommittedUnseen` (`Consume`) | `K!ConsumeSpec => []K!CommittedWereReturned` | `K!ConsumeConstants` |
| `EndpointSteps` | `LinkConserves` (`Link`) | `L!Spec => []L!Conserved` | `EndpointAssumption` |
| `EndpointProofs` | `EndpointImplementsLink` | `Spec => LinkSpec` | |
| | `EndpointConserves` | `Spec => []L!Conserved` | |
| `EndpointOrder` | `DeferralsFireInOrder` | `Spec => []FiredInOrder` | |

What is assumed. The ASSUMEs say what the code's types and parsers say: counts
and bounds are naturals; a test declaration, a session's rules and windows, a
script have the fields the model reads (`ConfigType`, `IsSetup`, `FaultCalls`);
handlers and packets are finitely many; a packet is offered once; the argument
of a packet rule is an integer. The `...Constants` are hypotheses of their theorems instead,
because the run modules reach these components through INSTANCE; `MCEngine`,
`MCLifecycle` and `MCOutside` assume them of their instances, so TLC evaluates
them. They say that the two kinds of waits are disjoint; that the start order is
an order of the services by their dependencies, and there is a service; that a
topic is a sequence of good and bad records; that a suite has its sizes, a test a
leaf, and a seed can be found.

The arguments:

- **HoldQueue.** `IInv` adds how the parts of the queue determine each other: a
  notification that has not been enqueued is nowhere, and a closed queue has no
  entries (`QueueInv`); a mutex that is held is held by a Wait that is checking
  or about to park (`OwnerInWait`); and a Wait about to park has to wait, like
  one that is parked (`ParkingMustWait`), since nobody could change the queue
  after its check and every change after its parking broadcasts.
- **Suite.** `Ledger` is the double entry: at each place of the nested loops,
  what was planned and the selected tests passed over without a result are at
  most what was tallied, what was aborted and what is on its way there
  (`Within`). `SuiteCounts` says that the counters agree with the tally until a
  failed shutdown is charged to the last row, and `Planned` that nothing is
  tallied twice. Cardinalities come from the library's theorems on finite sets.
- **EventLog, order.** No clock, of a service (`OwnClockLeads`) or of an event
  (`LoggedBelow`), has a larger entry for a service than that service's own clock
  has. An emit raises that entry, so an event is ahead of every earlier one in
  its own service's entry (`OwnEntryGrows`) and cannot happen before it.
- **EventLog, exactness.** `past` is a history variable: the events a service
  learned of by its own emits and by merges. `Causal` says that a clock bounds
  the events of that past and no others, for services and for logged events; it
  is inductive because whoever has counted an event of a service has everything
  that event knew (`Closed`). `Informed` adds what a step passes on: a request is
  named by its step_send, what it made the target do is known to the driver once
  the answer is merged, and so precedes the step_recv.
- **Await.** A match that a callback found stays in the one-slot channel
  (`HitIsKept`), and a wait that has not subscribed is on no emitter's copy of
  the list (`NotYetCalled`). An event appended before the subscription is found
  by the check after it; one appended later is delivered by an emitter that
  copies the list later still.
- **TestRun, decisiveness.** A signal of the always() watcher stands for a
  recorded violation (`SignalIsTrue`); each arm of the select that leaves the
  loop drains that signal, so a run on its way to the verdict has the cause
  (`CauseIsKept`), and a dead supervisor is kept until the verdict is given
  (`DeadIsKept`).
- **TestRun, verdicts.** `JInv`: what an expectation knows it learned from this
  run's log or, if it is the declaration's own object, knew when the run began
  (`Learned`, with the history variable `begun`); an emission under way is of an
  event of this log, or of an earlier run that teardown did not silence, and so is
  a monitor's error (`Origins`); a "bad" event logged since the monitors came is
  in their errors, or its emitter has yet to call them (`Heard`); a cause has its
  signal (`CauseIsTrue`); after a teardown that worked nobody emits, reused
  services apart (`Quiet`); and there is no verdict before the decision. Then at
  the decision every emitter is done, so nothing "bad" went unheard, and the last
  step goes through the order of checks. Nothing is assumed of the declarations:
  that a kept object may be satisfied by an earlier run is part of the statement,
  and what the code's comment says against it is the run `expect_per_test`.
- **Services.** `Passed` says of the cleanup loop that the services it has gone
  past hold nothing; every service is in the order, so at its end none holds
  anything. `ServicesShape` keeps what can be recorded within the names of
  services, whatever failed before.
- **Supervisor.** Past its wg.Wait the loop has no handler left, and none can
  start (`LoopIsDrained`); each stage of the launch has what the stage before it
  waited for, the process, the termination goroutine, the closed listener, the
  loop (`Stages`); and the reason a loop gave for returning stays true, so
  "error" is given by a loop that broke and by no other (`Reasons`).
- **FaultRules.** `WindowInv`: a window applies its rule sets one by one, the
  installed rules belong to windows that are not closed, and windows that do not
  overlap do not disturb each other. `HandlerInv`: whatever a handler still has
  to consider is a static rule or one of a window that was there when it looked
  the rules up, and what it decided is justified by such a rule. `ExactInv` says
  of each rule that nth, after or the leaf's vector prescribe its number of fires
  from its number of matching calls. This needs no more than types: the counter
  is atomic, so whichever handler comes next has the next number.
- **Proxy.** `WindowInv`: a proxy that was not started has no rules, and a rule
  carries the window that added it; the end of any window clears the rules of
  all. `StopInv` joins `ConnInv`, what the goroutines of a handler that is over
  may still do, with what Stop has reported of a handler that is not. Every
  protocol goes through the same lemmas; what is used of the table of protocols
  is that each action it maps has one of six fates.
- **Consume.** While the call runs, what it returned is what it committed
  (`Running`), and a batch that was polled continues where the offset stands
  (`BatchIsNext`); so whatever ends the call, a decode error, a refused or an
  unanswered commit, the commit does not reach past the records returned.
- **Endpoint, refinement.** `EInv`: a packet that no handler has acted on is
  undecided and is in one place (`Fresh`), entries of the queue have numbers of
  their own (`Numbered`), a thread with nothing under way has nothing to release
  (`AtRest`), and every copy is where its direction, flow and batch put it
  (`Placed`, `Batched`). The mapping gives the link, for each packet, the number
  of its copies inside: in the hands of the four threads, in the queue, the
  reorder buffer and the batch. A number of copies in a list is the cardinality
  of a set of positions, so what a step does to it follows from the library's
  theorems on finite sets, without induction over the list. `LinkConserves` then gives
  `EndpointConserves`.
- **Endpoint, order.** What has fired is before what is firing, and that before
  what is queued (`InTurn`); until the queue stops only the past has fired, so a
  new deadline finds its place behind it (`Timely`); and Close flushes only when
  the goroutine has left (`Phased`).

**Only model-checked.**

- Liveness, throughout: fairness and ENABLED are outside the prover's reach.
- `OrderingsAreExact`, `RoutesAreHonest`, `ScopesAreHonest` and the merged rules
  of `GatewayIsHonest`: what recursive functions and folds over sequences
  compute needs induction over data, which the installed provers cannot
  instantiate. `MockRoutes` has RECURSIVE operators besides.
- `ExplorationIsExact`, `LaunchIsHonest`, `FreshServices`, `GatesAreHonest`,
  `DependentsStopFirst`, `AnswersAreRight`, `OwnersAreProven`, `WatchIsHonest`,
  `ArtifactsAreHonest`, `MocksServeTheirTest`, `ClientsAreHonest`: nothing known
  stands in the way of a proof; there is none yet.

## 5. Findings

- `hold_queue_cancel`: `engine/hold.go:64` broadcasts without the lock, so the
  one wakeup of a cancelled `Wait` can fall between its check of the context and
  its sleep. parallel() then blocks on its scheduler.
- `halt_and_violation`: `star/runtime.go:1917` returns "halted" for a run in
  which an always() violation was recorded after the drain at line 1803; the
  comment at line 1913 says that such a run must be a failure.
- `expect_per_test`: `star/runtime.go:1615` registers in every run the one object
  that was made for expect= when the spec was loaded. An eventually() that was
  satisfied once stays satisfied, and every later run, each leaf of an
  exploration included, passes without a match. The comment at line 1517 says
  that "eventually()/always() registrations are per-test".
- `skipped_fault`: with require_faults_fire, `star/runtime.go:2140` looks for
  fault_zero_traffic only. The event that applyFaults emits for a fault it had to
  skip, "so the fault_bypassed (#75) detector picks this up the same way"
  (4551), is not looked at, and the test passes.
- `torn_read`: `bundle/seed.go:82` writes one temporary name for all processes,
  so of two concurrent runs the second truncates the file that the first renames
  into place; the comment at line 76 says that "a concurrent reader never sees a
  torn write".

## 6. Where code and documentation differ

These were met while modelling. The models follow the code, and the properties
are stated so that they hold of it; each item says what the text promises.

**Exploration.** Nested parallel() calls share a tag, and the inner one
overwrites the outer one's queue (`engine/session.go:474`). The scheduler
releases the calls of the first service that has a queue only
(`star/builtins.go:2258`), although the comment at 2269 says all held calls.

**Verdicts.** eventually() is evaluated only in Finalize (`star/runtime.go:1710`;
`docs/temporal.md:41`). always() is evaluated outside the log's lock
(`runtime.go:1721`; `star/temporal.go:218`), so a predicate may see a longer log
than its event's. A window of always() still open at the end passes
(`temporal.go:364`; 117). A panic that coincides with a timeout is not an error
(`runtime.go:1906`; 1973). The terminate_when= object is one for all runs of a
test, like that of expect= (section 5), and once met ends every later run at its
first event. A monitor's error is recorded in whatever run is current, so an
event of a reused service may fail the next test. Monitors are removed after the services stop
(`runtime.go:1585`; 1577), and a reused service's late event can reach a monitor
after the verdict.

**Supervisor.** A broken loop is reported after three seconds at the earliest
(`engine/launch_linux.go:789`), so a shorter test never sees it although
`runtime.go:1881` says it outranks every verdict. The target may have exited by
the time of the report (`launch_linux.go:805`; `session.go:233`). After
cancellation nobody answers system calls, so a target cannot use its SIGTERM
grace for intercepted ones (`launch_linux.go:323`; `docs/spec-language.md:4105`).
A held handler delays the detection (`launch_linux.go:319`).

**Faults.** A call that arrived in a window may be faulted after it
(`launch_linux.go:495`; `docs/spec-language.md:1835`). A second assumption of a
scenario replaces the rules of the first on the same service
(`runtime.go:3982`; `docs/spec-language.md:3362`). fault_zero_traffic can be
emitted for a window that had traffic (`runtime.go:4728`; 4709). Concurrent
processes of a service split a leaf's vector between them
(`launch_linux.go:541`; `runtime.go:4581`), and a placeholder rule may be pinned
(`runtime.go:4452`; `engine/fault.go:85`). A path that could not be read matches
every glob (`launch_linux.go:504`; 375), and a rule with a glob behind one
without is not considered for system paths (`launch_linux.go:515`;
`docs/cli-reference.md:684`).

**Events.** step_send is emitted after the merge it announces
(`runtime.go:4818`; 4817). directlyCausedBy includes indirect causes
(`star/trace.go:469`; `docs/temporal.md:318`). await_stable may return while a
reset is queued (`star/await.go:60`; 46).

**Suite.** A failed cleanup is charged to the last row whatever test it belongs
to, and under `--show fail` perhaps to an older one (`runtime.go:1223`). Leaves
cut short by an interrupt may be recorded as verdicts (`runtime.go:1389`;
`docs/spec-language.md:4137`). The command line always passes one resolved seed,
so `--runs` repeats it (`cmd/faultbox/main.go:372`; `docs/cli-reference.md:94`
says auto-incrementing seeds). An aborted
suite may exit with 0 (`main.go:608`; 587).

**Services.** After a recovered panic the next test finds the old processes and
takes them for reused (`runtime.go:1287`, 2219; 2209). A kept service keeps the
address of a dependency started anew. Dependencies of a kept service stop before
it (`runtime.go:3302`; 3283). A container whose fallback launch fails half way is
recorded nowhere (`container/launch.go:202`).

**Fault scopes.** What to intercept is found by scanning the text. fault_all()
with a list is never matched, so the fault is refused for a binary and skipped
for a container unless another call covers it (`docs/spec-language.md:1873`), and
with it "A fault either fires or the run fails saying why"
(`star/runtime.go:4617`) does not hold. A named operation in fault_start() is not
resolved; a bracket in a string literal breaks a call over several lines. trace()
has no coverage check and replaces the fault rules of its service. The end of an
inner window clears the rules of an outer one on the same service. allow() is a
rule with the zero action, deny with errno 0 (`runtime.go:4593`,
`engine/fault.go:33`; `docs/rfcs/0001-scenario-probes.md:302` says no-op). A
scenario's clean-up of proxies is registered after the loop that adds them.
Matrix cells, assumptions and scenarios of one name overwrite each other.

**Environment.** Proxy addresses are put into variables by textual replacement in
map order, so one address that is a prefix of another corrupts it. Only scenarios
and matrices count as faulting an interface. In a cycle of services one link is
not proxied.

**Packets.** A window over a route of a started partition ends the partition's
cut when it closes (`star/packetgateway.go:153`; "undo exactly what
partition_start did", `partition.go`). A where= error of one test fails the next
(`packetgateway.go:51`; "seen this test"). A handler that passed the check of
`stopped` may hold a packet after Close's drain (`netfault/endpoint.go:235`;
"flushed rather than discarded"). republish collects under the lock and publishes
after it (`gateway.go:294`), so of two parallel changes the older list may be
installed last: a window's rules lapse, or rules stay on the endpoint when their
windows are closed. If the gateway is kept, since a service is reused
(`star/runtime.go:3345`), they meet the next test, although "one test's partition
cannot leak into the next" (`partition.go:308`). `GatewayIsHonest` allows for
these two cases and no others. Rules without a source lack their port predicate
(`gateway.go:276`). A failing leg of a partition leaves its entry in the
registry. A shaped packet can be overtaken (`shape.go:105`).

**Proxies.** An abandoned handler does not always unblock "on its own deadline"
(`proxy/nats.go:137`). After every message the postgres proxy waits for
ReadyForQuery, which an extended-query exchange gives only for Sync
(`postgres.go:167`). Of two nested windows on one interface the
inner end clears both (`proxy.go:313`); a packet fault that is refused leaves the
protocol rules before it. SSLRequest and GSS or SSPI exchanges hang. memcached
noreply and mongodb moreToCome wedge their connection. http, http2 and clickhouse
do not wait for handlers in Stop. Drop actions of several protocols emit nothing.

**Launch.** A context that ends during the fallback launch leaves the container
(`container/launch.go:202`). registerProcess swallows its errors.

**Observation.** `docs/spec-language.md:2033` says that a watch() test fails when
points were dropped during the window or no sandbox connected. A second window
sets the drop baseline anew, and what was dropped in the first is forgotten
(`star/watch.go:286`). The drop counts of two sandboxes overwrite each other
(`gvisor/seccheck/seccheck.go:317`). That one sandbox connected, or a window ran,
is never reset (`star/watch_wire.go:144`, 367), so one of two sandboxes, or a later
test's, may report to another run's socket unnoticed. A window left open by
watch_start() attributes the points of a second sandbox to the first
(`watch_wire.go:323`). `WatchIsHonest` allows for these four and holds every other
pass to the text. Two Kafka clients that could not be identified and share a
client id are taken for one another (`protocol/kafka_groups.go:299`). A run that found a stale socket may
remove the one another run has bound since (`gvisor/seccheck/seccheck.go:186`,
"refuses to remove a live one"; 202), and its probe shows in the other's sink. wait_ready decides from the
events logged so far, so an assignment that is made and not yet logged is not
waited for (`docs/protocols/kafka.md:292` says every currently assigned
partition). Container ids are written
without the lock that their reader takes (`star/runtime.go:2740`,
`watch_wire.go:341`).

**Mocks.** "Each handled request MUST emit one event" (`protocol/mock.go:16`): redis
emits none, http and mongodb sometimes two. A straggler of a test may be logged
in the next (`protocol/tcp.go:112`; `star/mock_diagnostics.go:8`). The readiness
probe is satisfied by a foreign listener. grpc's graceful stop is not bounded.
Routes of several interfaces are not implemented (`mock_builtins.go:53`).

**Clients.** postgres and mysql never ask for rows.Err(), so a result that was
cut off is a success (`protocol/postgres.go:115`; `protocol.go:45`); tcp takes an EOF in the
middle of a line for an answer; a retried kafka publish may append twice
(`protocol/kafka.go:142`). redis, nats and cassandra ignore the context.

**Files.** The version policy of replay runs before `--extract-only`, which its
message recommends (`cmd/faultbox/replay.go:86`). A bundle is written in place
(`bundle/writer.go:67`). faultbox.lock has the temporary name of `torn_read` too
(`lock/lock.go:112`).

## 7. Not modelled, and what is left

A part is marked `partly` in `PROJECT.json` when some operation of it is an
input or is left out; section 2 says which. Not modelled at all:

- **Reports, inspection, bundles' contents** (`report/`, `cmd/faultbox` output):
  rendering of a finished run.
- **Spec loading, generation, checking** (`generate/`, parsers, `star` builtins
  that construct values): sequential text processing without state that the
  properties distinguish.
- **Determinism levels, plan documents** (`determinism.go`, `plan/`): checks at
  load time and a static document.
- **Wire formats** of the protocols and of packets, the user-space TCP stack,
  TLS: the models start where a message or a packet has been recognised.
- **Event sources** (`eventsource/`): only stdout and stderr can be declared;
  tail, topic, poll and wal_stream are never started
  (`docs/protocols/postgres.md:186`).
- **MCP server**: a request loop around the runtime of `Suite`.
- **Vacuity checks**: one flag per construct and test. The one guard that depends
  on other goroutines is in `Watch`.
- **Legacy simulation engine** (`engine/simulation.go`, `step.go`), `doctor`,
  logging, jwt.

What would add most next: nested parallel() in `Explore`; `HoldQueue` shown to
implement the atomic queue that `Explore` uses; the plan enumeration beside
`Orderings`; proofs of `FreshServices` and of `AnswersAreRight`; the stall watch
of the proxies.
