-------------------------------- MODULE Mocks --------------------------------
(***************************************************************************)
(* A mock service over consecutive tests: mock_service() at load time,      *)
(* startMockService and the servers it starts (star/mock_runtime.go, the    *)
(* ServeMock of each protocol), the calls they answer, set_state() from the *)
(* branches of a test body (star/mock_state.go), and the stop that ends the *)
(* test (star/shutdown.go).                                                 *)
(*                                                                          *)
(* A server is a goroutine that binds its port, serves until the service's  *)
(* context is cancelled, and then waits for its calls, or for some time, or *)
(* not at all. A call is a goroutine of its own. The mock's state belongs   *)
(* to the declaration, and so does the event log to the runtime: both are   *)
(* the same objects in every test. The redis and kafka servers are          *)
(* libraries; what they answer is not modelled here.                        *)
(***************************************************************************)
EXTENDS Naturals, Sequences, FiniteSets

CONSTANTS Declarations, \* mock_service() calls, and what the tests make of them
          MaxTests,     \* bound: tests of a run
          Thief         \* whether another process may take a port

VARIABLES decl,        \* [ifaces, kwargs], and the numbers of calls and of branches
          test,        \* the current test
          phase,       \* what the test is doing
          left,        \* interfaces that are still to be started
          cur,         \* the interface that is being started
          ready,       \* what waitMockReady has sent
          serveErrors, \* interfaces whose server has failed, unread
          holder,      \* who holds each interface's port
          server,      \* the server of each test and interface
          cancelled,   \* tests whose service context is cancelled
          started,     \* tests whose startMockService has returned
          done,        \* tests whose done channel is closed
          ca,          \* the runtime's certificate authority
          call,        \* each call: [pc, test, iface, kind, out, seen]
          handlerMu,   \* the call that runs a dynamic handler
          state,       \* the installed state
          revision,
          installed,   \* the states installed in each test (history)
          branch,      \* each branch: [pc, revision, state]
          log,         \* the event log of the current test
          strays,      \* events of an earlier test in a later test's log (history)
          verdict

servers == <<holder, server, cancelled, started, done, serveErrors>>
starting == <<left, cur, ready, ca>>
states == <<state, revision, installed, branch>>
calls == <<call, handlerMu>>
vars == <<decl, test, phase, servers, starting, states, calls, log, strays, verdict>>

NoCall == 0
NoIface == 0
Initial == 0 \* the state a test begins with; branch b installs b
Tests == 1 .. MaxTests
Ifaces == DOMAIN decl.ifaces
Calls == 1 .. decl.calls       \* the calls that clients make
Branches == 1 .. decl.branches \* the parallel branches of a test body

-----------------------------------------------------------------------------
(* The servers. stop: what a server whose context ends waits for: "all" its *)
(* calls, its calls for some time ("grace"), "none" of them, or a library's *)
(* Close. announces: it emits started and stopped.                          *)

Server(stop, announces) == [stop |-> stop, announces |-> announces]

HTTPServeMock == Server("grace", FALSE)
HTTP2ServeMock == Server("grace", FALSE)
GRPCServeMock == Server("all", FALSE)
TCPServeMock == Server("none", FALSE)
UDPServeMock == Server("none", FALSE)
MongoServeMock == Server("none", FALSE)
RedisServeMock == Server("library", TRUE)
KafkaServeMock == Server("library", TRUE)

ServeMock ==
    [http |-> HTTPServeMock, http2 |-> HTTP2ServeMock, grpc |-> GRPCServeMock, tcp |-> TCPServeMock,
     udp |-> UDPServeMock, mongodb |-> MongoServeMock, redis |-> RedisServeMock, kafka |-> KafkaServeMock]

Served(i) == ServeMock[decl.ifaces[i]]

-----------------------------------------------------------------------------
(* What a call comes to. before: events emitted before the answer is        *)
(* written; reply: "body", "error" or "none"; after, unsent: events emitted *)
(* once it is written, or could not be.                                     *)

Outcome(before, reply, after, unsent) ==
    [before |-> before, reply |-> reply, after |-> after, unsent |-> unsent]

(* An answer of the net/http server: a failed write goes unnoticed. *)
ServeHTTP(kind, dyn) ==
    LET noted == IF kind.valid = "ok" THEN <<>> ELSE <<"request">>
    IN CASE kind.valid = "strict" -> Outcome(noted, "error", <<>>, <<>>)
         [] dyn = "error" -> Outcome(noted, "error", <<"dynamic_error", "request">>, <<"dynamic_error", "request">>)
         [] OTHER -> Outcome(noted, "body", <<"request">>, <<"request">>)

HandleTCPMockConn(kind, dyn) ==
    CASE dyn = "error" -> Outcome(<<"dynamic_error">>, "none", <<>>, <<>>)
      [] kind.route = "none" -> Outcome(<<>>, "none", <<"recv">>, <<>>)
      [] OTHER -> Outcome(<<>>, "body", <<"recv">>, <<"write_error">>)

HandleUDPDatagram(kind, dyn) ==
    CASE dyn = "error" -> Outcome(<<"dynamic_error">>, "none", <<>>, <<>>)
      [] kind.route = "none" -> Outcome(<<>>, "none", <<"recv">>, <<>>)
      [] OTHER -> Outcome(<<>>, "body", <<"recv">>, <<"recv">>)

GRPCServe(kind, dyn) ==
    CASE kind.route = "dynamic" /\ kind.typed = "bad request" -> Outcome(<<"decode_error">>, "error", <<>>, <<>>)
      [] dyn = "error" -> Outcome(<<"dynamic_error">>, "error", <<>>, <<>>)
      [] kind.route = "none" -> Outcome(<<"unmatched">>, "error", <<>>, <<>>)
      [] kind.route = "status" -> Outcome(<<"error">>, "error", <<>>, <<>>)
      [] kind.typed = "bad answer" -> Outcome(<<"encode_error">>, "error", <<>>, <<>>)
      [] OTHER -> Outcome(<<>>, "body", <<"ok">>, <<>>)

(* Every command is answered, the ones it does not know too; a message that *)
(* is no command is not.                                                    *)
RespondToCommand == "body"

HandleMongoMockConn(kind) ==
    CASE kind.route = "query" -> Outcome(<<"op_query">>, RespondToCommand, <<>>, <<"write_error">>)
      [] kind.route = "message" -> Outcome(<<"cmd">>, RespondToCommand, <<"reply_sent">>, <<"write_error">>)
      [] OTHER -> Outcome(<<"unknown_opcode">>, "none", <<>>, <<>>)

Handled(proto, kind, dyn) ==
    CASE proto \in {"http", "http2"} -> ServeHTTP(kind, dyn)
      [] proto = "tcp" -> HandleTCPMockConn(kind, dyn)
      [] proto = "udp" -> HandleUDPDatagram(kind, dyn)
      [] proto = "grpc" -> GRPCServe(kind, dyn)
      [] proto = "mongodb" -> HandleMongoMockConn(kind)

(* A call whose request cannot be read: the read's deadline, a reset. HTTP  *)
(* takes what there is of a body, and a datagram has been read.             *)
Unread(proto) ==
    CASE proto = "tcp" -> {<<"recv_error">>}
      [] proto \in {"grpc", "mongodb"} -> {<<>>}
      [] OTHER -> {}

(* The failures of a mock itself, as opposed to the errors it is told to    *)
(* answer with.                                                             *)
MockErrorDiagnostic == {"encode_error", "decode_error", "resolve_error", "dynamic_error", "observation_error"}

-----------------------------------------------------------------------------
(* Loading a declaration. *)

(* Routes, default, tls and the other options belong to the only interface. *)
SingleInterfaceName(d) == Len(d.ifaces) = 1

ValidateStaticGRPCMock(d) == "encodes badly" \notin d.kwargs

MockServiceKwargs(d) == d.kwargs \in SUBSET {"state"} \/ SingleInterfaceName(d)

BuiltinMockService(d) ==
    /\ MockServiceKwargs(d)
    /\ d.ifaces # <<>>
    /\ \A i \in DOMAIN d.ifaces :
          /\ "tls" \in d.kwargs => d.ifaces[i] \in {"http", "http2", "grpc"}
          /\ d.ifaces[i] \in DOMAIN ServeMock
    /\ ValidateStaticGRPCMock(d)

(* The calls an interface can meet. Only an OpenAPI document makes requests *)
(* invalid, only descriptors make messages typed, and only gRPC has a       *)
(* status for an answer.                                                    *)
Kinds(i) ==
    LET proto == decl.ifaces[i]
        routed == CASE proto = "mongodb" -> {"query", "message", "none"}
                    [] "routes" \in decl.kwargs -> {"none", "static", "dynamic"} \cup (IF proto = "grpc" THEN {"status"} ELSE {})
                    [] "default" \in decl.kwargs -> {"static"}
                    [] OTHER -> {"none"}
    IN [route : routed,
        valid : IF "openapi" \in decl.kwargs THEN {"ok", "warn", "strict"} ELSE {"ok"},
        typed : IF "descriptors" \in decl.kwargs THEN {"untyped", "bad request", "bad answer"} ELSE {"untyped"}]

NoKind == [route |-> "none", valid |-> "ok", typed |-> "untyped"]
NotCalled == [pc |-> "none", test |-> 0, iface |-> NoIface, kind |-> NoKind,
              out |-> Outcome(<<>>, "none", <<>>, <<>>), seen |-> <<>>]
Quiet == [pc |-> "idle", revision |-> 0, state |-> <<>>]

Init ==
    /\ decl \in {d \in Declarations : BuiltinMockService(d)}
    /\ test = 0 /\ phase = "idle"
    /\ left = {} /\ cur = NoIface /\ ready = "none" /\ serveErrors = {}
    /\ holder = [i \in Ifaces |-> "free"]
    /\ server = [t \in Tests, i \in Ifaces |-> "none"]
    /\ cancelled = {} /\ started = {} /\ done = {}
    /\ ca = "none"
    /\ call = [c \in Calls |-> NotCalled] /\ handlerMu = NoCall
    /\ state = <<>> /\ revision = 0
    /\ installed = [t \in Tests |-> <<>>]
    /\ branch = [b \in Branches |-> Quiet]
    /\ log = {} /\ strays = {}
    /\ verdict = [t \in Tests |-> "none"]

(* Events go to the log of whatever test is current. *)
Emit(t, events) ==
    LET es == {[type |-> events[k], test |-> t] : k \in DOMAIN events}
    IN /\ log' = log \cup es
       /\ strays' = strays \cup {e \in es : t # test \/ verdict[t] # "none"}

-----------------------------------------------------------------------------
(* Starting. *)

(* A start that fails cancels the service context; the test goes on to stop *)
(* what it has started.                                                     *)
StartFails ==
    /\ cancelled' = cancelled \cup {test}
    /\ started' = started \cup {test}
    /\ phase' = "stop failed"

(* The initial state, of the test or of the declaration. *)
ResetStateWith(t) ==
    /\ state' = <<t, Initial>>
    /\ revision' = 0
    /\ installed' = [installed EXCEPT ![t] = <<<<t, Initial>>>>]

(* A test: the log is emptied, taken ports are looked for, the state is     *)
(* Each port is bound and let go again, before anything is started. *)
CheckFixedServicePorts == \A i \in Ifaces : holder[i] = "free"

(* reset.                                                                   *)
StartTest ==
    /\ phase = "idle" /\ test < MaxTests
    /\ test' = test + 1
    /\ log' = {}
    /\ branch' = [b \in Branches |-> Quiet]
    /\ IF ~CheckFixedServicePorts
       THEN /\ phase' = "stop failed"
            /\ cancelled' = cancelled \cup {test'}
            /\ started' = started \cup {test'}
            /\ UNCHANGED <<left, state, revision, installed>>
       ELSE /\ phase' = "start"
            /\ left' = Ifaces
            /\ ResetStateWith(test')
            /\ UNCHANGED <<cancelled, started>>
    /\ serveErrors' = {} /\ ready' = "none" /\ cur' = NoIface
    /\ UNCHANGED <<decl, holder, server, done, ca, calls, strays, verdict>>

(* The certificate authority is made once, and so is the failure to. *)
NewMockTLS == {"made", "failed"}
GetMockTLS == IF ca = "none" THEN ca' \in NewMockTLS ELSE UNCHANGED ca

(* The spec of an interface, its certificate, its server and the probe.     *)
StartInterface(i) ==
    /\ phase = "start" /\ i \in left
    /\ left' = left \ {i}
    /\ IF "tls" \in decl.kwargs THEN GetMockTLS ELSE UNCHANGED ca
    /\ \/ /\ ca' # "failed"
          /\ "bad spec" \notin decl.kwargs
          /\ server' = [server EXCEPT ![test, i] = "binding"]
          /\ cur' = i /\ ready' = "none" /\ phase' = "probe"
          /\ UNCHANGED <<cancelled, started>>
       \/ /\ ca' = "failed" \/ "bad spec" \in decl.kwargs
          /\ StartFails
          /\ UNCHANGED <<server, cur, ready>>
    /\ UNCHANGED <<decl, test, holder, done, serveErrors, states, calls, log, strays, verdict>>

(* net.Listen: what holds the port keeps it. *)
Bind(t, i) ==
    /\ server[t, i] = "binding"
    /\ IF holder[i] = "free"
       THEN /\ holder' = [holder EXCEPT ![i] = "mock"]
            /\ server' = [server EXCEPT ![t, i] = "listening"]
            /\ IF Served(i).announces THEN Emit(t, <<"started">>) ELSE UNCHANGED <<log, strays>>
            /\ UNCHANGED serveErrors
       ELSE /\ server' = [server EXCEPT ![t, i] = "gone"]
            /\ serveErrors' = IF t = test THEN serveErrors \cup {i} ELSE serveErrors
            /\ UNCHANGED <<holder, log, strays>>
    /\ UNCHANGED <<decl, test, phase, cancelled, started, done, starting, states, calls, verdict>>

(* Another process takes a port, after the check for taken ports. *)
TakePort(i) ==
    /\ Thief /\ phase = "probe" /\ holder[i] = "free"
    /\ holder' = [holder EXCEPT ![i] = "thief"]
    /\ UNCHANGED <<decl, test, phase, server, cancelled, started, done, serveErrors, starting, states, calls, log,
                   strays, verdict>>

(* A dial of the port. No dial tells whether a datagram socket is bound:    *)
(* after a pause it is taken to be.                                         *)
MockListenerUp(i) == decl.ifaces[i] = "udp" \/ holder[i] # "free"

(* The probe answers: the listener is up, or the time or the context is. *)
WaitMockReady ==
    /\ phase = "probe" /\ ready = "none"
    /\ ready' \in (IF MockListenerUp(cur) THEN {"ok"} ELSE {"failed"})
    /\ UNCHANGED <<decl, test, phase, servers, left, cur, ca, states, calls, log, strays, verdict>>

(* The two selects: a server's error wins over a probe that came first.     *)
Probed ==
    /\ phase = "probe"
    /\ \/ /\ serveErrors # {}
          /\ \E i \in serveErrors : serveErrors' = serveErrors \ {i}
          /\ StartFails
       \/ /\ ready = "ok" /\ serveErrors = {}
          /\ phase' = "start"
          /\ UNCHANGED <<serveErrors, cancelled, started>>
       \/ /\ ready = "failed"
          /\ StartFails
          /\ UNCHANGED serveErrors
    /\ UNCHANGED <<decl, test, holder, server, done, starting, states, calls, log, strays, verdict>>

Started ==
    /\ phase = "start" /\ left = {}
    /\ started' = started \cup {test}
    /\ phase' = "body"
    /\ UNCHANGED <<decl, test, holder, server, cancelled, done, serveErrors, starting, states, calls, log, strays, verdict>>

-----------------------------------------------------------------------------
(* Calls. *)

(* A client's connection is accepted; its call will be of some kind. *)
Accept(c, i) ==
    /\ phase = "body" /\ call[c].pc = "none"
    /\ server[test, i] = "listening" /\ Served(i).stop # "library"
    /\ \E kind \in Kinds(i) :
          call' = [call EXCEPT ![c] = [NotCalled EXCEPT !.pc = "read", !.test = test, !.iface = i, !.kind = kind]]
    /\ UNCHANGED <<decl, test, phase, servers, starting, states, handlerMu, log, strays, verdict>>

Proto(c) == decl.ifaces[call[c].iface]

(* The request is read and matched. A MongoDB connection that finds its     *)
(* context cancelled is given up instead.                                   *)
Read(c) ==
    /\ call[c].pc = "read"
    /\ call' = [call EXCEPT
          ![c].pc = IF Proto(c) = "mongodb" /\ call[c].test \in cancelled THEN "end"
                    ELSE IF call[c].kind.route = "dynamic"
                            /\ call[c].kind.valid # "strict" /\ call[c].kind.typed # "bad request" THEN "lock" ELSE "before",
          ![c].out = Handled(Proto(c), call[c].kind, "ok")]
    /\ UNCHANGED <<decl, test, phase, servers, starting, states, handlerMu, log, strays, verdict>>

ReadFails(c) ==
    /\ call[c].pc = "read"
    /\ \E events \in Unread(Proto(c)) : Emit(call[c].test, events)
    /\ call' = [call EXCEPT ![c].pc = "end"]
    /\ UNCHANGED <<decl, test, phase, servers, starting, states, handlerMu, verdict>>

(* The state and its revision, read together. *)
StateSnapshot == <<state, revision>>

(* One dynamic handler of a mock at a time; it keeps the state it was given. *)
DynamicHandlerBridge(c) ==
    \/ /\ call[c].pc = "lock" /\ handlerMu = NoCall
       /\ handlerMu' = c
       /\ call' = [call EXCEPT ![c].pc = "handler", ![c].seen = StateSnapshot]
       /\ UNCHANGED <<decl, test, phase, servers, starting, states, log, strays, verdict>>
    \/ /\ call[c].pc = "handler"
       /\ handlerMu' = NoCall
       /\ \E dyn \in {"ok", "error"} :
             call' = [call EXCEPT ![c].pc = "before", ![c].out = Handled(Proto(c), call[c].kind, dyn)]
       /\ UNCHANGED <<decl, test, phase, servers, starting, states, log, strays, verdict>>

Before(c) ==
    /\ call[c].pc = "before"
    /\ Emit(call[c].test, call[c].out.before)
    /\ call' = [call EXCEPT ![c].pc = "write"]
    /\ UNCHANGED <<decl, test, phase, servers, starting, states, handlerMu, verdict>>

(* The answer is written, or the client is gone. *)
Write(c) ==
    /\ call[c].pc = "write"
    /\ \E sent \in (IF call[c].out.reply = "none" THEN {TRUE} ELSE BOOLEAN) :
          call' = [call EXCEPT ![c].pc = "after",
                               ![c].out.after = IF sent THEN @ ELSE call[c].out.unsent,
                               ![c].out.reply = IF sent THEN @ ELSE "none"]
    /\ UNCHANGED <<decl, test, phase, servers, starting, states, handlerMu, log, strays, verdict>>

After(c) ==
    /\ call[c].pc = "after"
    /\ Emit(call[c].test, call[c].out.after)
    /\ call' = [call EXCEPT ![c].pc = "end"]
    /\ UNCHANGED <<decl, test, phase, servers, starting, states, handlerMu, verdict>>

-----------------------------------------------------------------------------
(* set_state(). *)

(* Fault: the event carries whatever revision is installed by then. *)
EventRevisionReread(b) == revision

(* The event carries the revision that its own replacement made. *)
EventRevision(b) == branch[b].revision

(* A copy replaces the state at once; its event follows outside the lock. *)
SetMockState(b) ==
    \/ /\ phase = "body" /\ branch[b].pc = "idle"
       /\ state' = <<test, b>>
       /\ revision' = revision + 1
       /\ installed' = [installed EXCEPT ![test] = Append(@, <<test, b>>)]
       /\ branch' = [branch EXCEPT ![b] = [pc |-> "emit", revision |-> revision', state |-> <<test, b>>]]
       /\ UNCHANGED <<log, strays>>
       /\ UNCHANGED <<decl, test, phase, servers, starting, calls, verdict>>
    \/ /\ branch[b].pc = "emit"
       /\ log' = log \cup {[type |-> "state_changed", test |-> test, revision |-> EventRevision(b), state |-> branch[b].state]}
       /\ branch' = [branch EXCEPT ![b].pc = "done"]
       /\ UNCHANGED <<state, revision, installed, strays>>
       /\ UNCHANGED <<decl, test, phase, servers, starting, calls, verdict>>

-----------------------------------------------------------------------------
(* Stopping. *)

(* The body returns, its branches with it: the service context is cancelled. *)
BodyEnds ==
    /\ phase = "body"
    /\ \A b \in Branches : branch[b].pc # "emit"
    /\ cancelled' = cancelled \cup {test}
    /\ phase' = "stop"
    /\ UNCHANGED <<decl, test, holder, server, started, done, serveErrors, starting, states, calls, log, strays, verdict>>

Live(t, i) == {c \in Calls : call[c].test = t /\ call[c].iface = i /\ call[c].pc # "end"}

(* A server whose context is cancelled closes its listener, and then waits  *)
(* for its calls as its protocol has it.                                    *)
ServerStops(t, i) ==
    /\ server[t, i] = "listening" /\ t \in cancelled
    /\ holder' = [holder EXCEPT ![i] = "free"]
    /\ server' = [server EXCEPT ![t, i] = IF Served(i).stop \in {"all", "grace"} THEN "draining" ELSE "gone"]
    /\ IF Served(i).announces THEN Emit(t, <<"stopped">>) ELSE UNCHANGED <<log, strays>>
    /\ UNCHANGED <<decl, test, phase, cancelled, started, done, serveErrors, starting, states, calls, verdict>>

(* The calls have ended, or the two seconds of an HTTP server have. *)
ServerDrained(t, i) ==
    /\ server[t, i] = "draining"
    /\ Live(t, i) = {} \/ Served(i).stop = "grace"
    /\ server' = [server EXCEPT ![t, i] = "gone"]
    /\ UNCHANGED <<decl, test, phase, holder, cancelled, started, done, serveErrors, starting, states, calls, log,
                   strays, verdict>>

AllGone(t) == \A i \in Ifaces : server[t, i] \in {"none", "gone"}

(* Fault: the servers are waited for while they are still being started. *)
MayCloseEarly(t) == AllGone(t)

(* The waiter waits for the start to be over first, then for the servers. *)
MayClose(t) == t \in started /\ AllGone(t)

CloseDone(t) ==
    /\ t \notin done /\ t <= test
    /\ MayClose(t)
    /\ done' = done \cup {t}
    /\ UNCHANGED <<decl, test, phase, holder, server, cancelled, started, serveErrors, starting, states, calls, log,
                   strays, verdict>>

Errors == {e \in log : e.type \in MockErrorDiagnostic}

(* The result of the test: a mock that failed to run or to encode, or a     *)
(* service that did not stop, makes any test a failure.                     *)
EnforceMockErrors(timeout) ==
    verdict' = [verdict EXCEPT ![test] = IF phase = "stop failed" \/ timeout \/ Errors # {} THEN "fail" ELSE "pass"]

(* Fault: the wait for a service has no end. *)
StopOneServicePatient ==
    /\ phase \in {"stop", "stop failed"} /\ test \in done
    /\ EnforceMockErrors(FALSE)
    /\ phase' = "idle"
    /\ UNCHANGED <<decl, test, servers, starting, states, calls, log, strays>>

(* The services are waited for, for ten seconds; then the events are        *)
(* collected. Only a server that waits for its calls outlasts ten seconds:  *)
(* to bind a port or to close it takes no time.                             *)
StopOneService ==
    /\ phase \in {"stop", "stop failed"}
    /\ \E timeout \in BOOLEAN :
          /\ timeout \/ test \in done
          /\ timeout => ~AllGone(test) /\ \A i \in Ifaces : server[test, i] \in {"none", "draining", "gone"}
          /\ EnforceMockErrors(timeout)
    /\ phase' = "idle"
    /\ UNCHANGED <<decl, test, servers, starting, states, calls, log, strays>>

(* What the program does of its own accord. Clients are not the program:    *)
(* whether a request ever arrives is theirs.                                *)
Work ==
    \/ StartTest \/ WaitMockReady \/ Probed \/ Started \/ BodyEnds \/ StopOneService
    \/ \E i \in Ifaces : StartInterface(i)
    \/ \E t \in Tests, i \in Ifaces : Bind(t, i) \/ ServerStops(t, i) \/ ServerDrained(t, i)
    \/ \E t \in Tests : CloseDone(t)
    \/ \E c \in Calls : DynamicHandlerBridge(c) \/ Before(c) \/ Write(c) \/ After(c)
    \/ \E b \in Branches : SetMockState(b)

Environment ==
    \/ \E i \in Ifaces : TakePort(i)
    \/ \E c \in Calls : Read(c) \/ ReadFails(c)
    \/ \E c \in Calls, i \in Ifaces : Accept(c, i)

Next == Work \/ Environment

Spec == Init /\ [][Next]_vars /\ WF_vars(Work)

-----------------------------------------------------------------------------
(* A closed done channel means that no server of the test runs; a body that *)
(* runs has every port bound, but where another process took it or no dial  *)
(* can tell; an answer that was sent has its event; and a server that waits *)
(* for all its calls leaves nothing to a later test, unless its own failed: *)
(* startMockService's waiter and probes, the ServeMock functions.           *)
MocksAreHonest ==
    /\ \A t \in done : AllGone(t)
    /\ phase = "body" => \A i \in Ifaces :
          server[test, i] = "binding" => decl.ifaces[i] = "udp" \/ holder[i] = "thief"
    /\ \A c \in Calls : call[c].pc = "end" /\ call[c].out.reply # "none"
          => call[c].out.before \o call[c].out.after # <<>>
    /\ \A e \in strays : (\A i \in Ifaces : Served(i).stop = "all") => verdict[e.test] = "fail"

(* A handler has a state together with its own revision, whatever the       *)
(* branches of the test install meanwhile, and every state_changed event    *)
(* names the state that its revision installed: stateSnapshot, setMockState. *)
HandlersSeeSnapshots ==
    /\ \A c \in Calls : call[c].seen # <<>> =>
          installed[call[c].seen[1][1]][call[c].seen[2] + 1] = call[c].seen[1]
    /\ \A e \in {x \in log : x.type = "state_changed"} : installed[e.test][e.revision + 1] = e.state

=============================================================================
