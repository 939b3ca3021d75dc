------------------------------ MODULE MCOutside ------------------------------
(* The program's two ends of a protocol on small instances, in four kinds of
   behaviours: a mock over two tests, one step of every client method, one wait
   for a service by every healthcheck, and one consume_many. *)
EXTENDS Mocks

VARIABLES part,
    m, ctx, pc, tries, conn, wire, svc, rows, result,
    check, now, at, deadline, stage, restarts, proc, start, seen,
    topic, clock, idle, assigned, blocked, batch, records, committed, offset, stop

stepVars == <<m, ctx, pc, tries, conn, wire, svc, rows, result>>
readyVars == <<check, now, at, deadline, stage, restarts, proc, start, seen>>
consumeVars == <<topic, clock, idle, assigned, blocked, batch, records, committed, offset, stop>>
all == <<part, vars, stepVars, readyVars, consumeVars>>

-----------------------------------------------------------------------------
(* Mocks of every protocol. *)
Mock(is, kw, c, b) == [ifaces |-> is, kwargs |-> kw, calls |-> c, branches |-> b]
MCDeclarations ==
    {Mock(<<"http">>, {"routes", "openapi"}, 1, 0), Mock(<<"http2">>, {"routes", "tls"}, 1, 0),
     Mock(<<"grpc">>, {"routes", "descriptors"}, 1, 1), Mock(<<"grpc">>, {"default", "tls"}, 2, 0),
     Mock(<<"grpc">>, {"descriptors", "encodes badly"}, 1, 0),
     Mock(<<"tcp">>, {"routes"}, 2, 0), Mock(<<"tcp">>, {"routes"}, 1, 2), Mock(<<"tcp">>, {"tls"}, 1, 0),
     Mock(<<"udp">>, {"routes"}, 1, 1), Mock(<<"mongodb">>, {}, 2, 0), Mock(<<"redis">>, {}, 1, 2), Mock(<<"kafka">>, {}, 1, 0),
     Mock(<<"http">>, {"openapi", "bad spec"}, 1, 0),
     Mock(<<"http", "tcp">>, {}, 1, 0), Mock(<<"http", "tcp">>, {"routes"}, 1, 0)}

-----------------------------------------------------------------------------
(* Clients. *)
Every == INSTANCE Clients WITH Methods <- {}, MaxRows <- 0, MaxTries <- 0
C == INSTANCE Clients WITH Methods <- Every!AllMethods, MaxRows <- 2, MaxTries <- 2
Each == INSTANCE Readiness WITH Checks <- {}, Budget <- 0, Attempt <- 0, MaxRestarts <- 0
H == INSTANCE Readiness WITH Checks <- Each!AllChecks, Budget <- 5, Attempt <- 2, MaxRestarts <- 1
Topics == {<<"good", "good", "good">>, <<"good", "bad", "good">>, <<>>}
K == INSTANCE Consume WITH MaxRecords <- 2, Idle <- 2, Timeout <- 5
ASSUME K!ConsumeConstants

(* The variables of the parts a behaviour does not have; a mock is declared in all. *)
NoStep ==
  /\ m = 0 /\ ctx = 0 /\ pc = 0 /\ tries = 0 /\ conn = 0 /\ wire = 0 /\ svc = 0 /\ rows = 0 /\ result = 0
NoWait ==
  /\ check = 0 /\ now = 0 /\ at = 0 /\ deadline = 0 /\ stage = 0 /\ restarts = 0 /\ proc = 0 /\ start = 0
  /\ seen = 0
NoRead ==
  /\ topic = 0 /\ clock = 0 /\ idle = 0 /\ assigned = 0 /\ blocked = 0 /\ batch = 0 /\ records = 0 /\ committed = 0
  /\ offset = 0 /\ stop = 0

MCInit ==
  /\ Init /\ part \in {"mock", "step", "ready", "consume"}
  /\ part # "mock" => decl = CHOOSE d \in Declarations : BuiltinMockService(d)
  /\ \/ part = "mock" /\ NoStep /\ NoWait /\ NoRead
     \/ part = "step" /\ C!Init /\ NoWait /\ NoRead
     \/ part = "ready" /\ NoStep /\ H!ReadyInit /\ NoRead
     \/ part = "consume" /\ NoStep /\ NoWait /\ K!ConsumeInit

Mocked(A) == part = "mock" /\ A /\ UNCHANGED <<part, stepVars, readyVars, consumeVars>>
Stepped(A) == part = "step" /\ A /\ UNCHANGED <<part, vars, readyVars, consumeVars>>
Waited(A) == part = "ready" /\ A /\ UNCHANGED <<part, vars, stepVars, consumeVars>>
Consumed(A) == part = "consume" /\ A /\ UNCHANGED <<part, vars, stepVars, readyVars>>

MCNext ==
  \/ Mocked(Next) \/ Stepped(C!Next) \/ Waited(H!ReadyNext) \/ Consumed(K!ConsumeNext)

MCSpec ==
  /\ MCInit /\ [][MCNext]_all
  /\ WF_all(Mocked(Work) \/ Stepped(C!Step \/ C!ContextEnds) \/ Waited(H!CheckStep \/ H!Started)
            \/ Consumed(K!ConsumeStep))

-----------------------------------------------------------------------------
(* A mock that is up has its ports, an answer has its event, a stopped mock
   is gone, and a handler sees one state with its revision (mock_runtime.go:44,
   mock_state.go:108). *)
MocksServeTheirTest == MocksAreHonest /\ HandlersSeeSnapshots

(* A step's success is the service's whole answer, ready() is an answer in
   time, and what consume_many commits the spec has seen (protocol.go:45,
   readiness.go:31, kafka_consume_many.go:191). *)
ClientsAreHonest ==
  CASE part = "step" -> C!StepsAreHonest
    [] part = "ready" -> H!ReadinessIsHonest
    [] part = "consume" -> K!CommittedWereReturned
    [] OTHER -> TRUE

(* Every test with a mock comes to its verdict, whatever its clients leave
   open; steps, waits for a service and reads of a topic end, each wait in
   them bounded by the plugin or by the test's context (runtime.go:1539,
   kafka_consume_many.go:101), however often partitions come and go. *)
CallsEnd ==
  <>(CASE part = "mock" -> \A t \in Tests : verdict[t] # "none"
       [] part = "step" -> pc = "returned"
       [] part = "ready" -> start # "waits"
       [] part = "consume" -> stop \notin {"args", "none"})
==============================================================================
