------------------------------ MODULE MCProxies ------------------------------
(* What stands between the services, on small instances, each in behaviours of
   its own: a proxy of every protocol under scripts of two or three messages
   and one or two fault() windows of up to two rules; the handshakes; and the
   packet gateway with its partitions. *)
EXTENDS Proxy

CONSTANT maxRounds
VARIABLES part, hs,
          setup, gtest, phase, me, alive, devices, doomed, up, addr, grules, published, tuned,
          shapersActive, active, branch, gwindows, unwired, whereErr, verdict, deaths

gatewayVars == <<setup, gtest, phase, me, alive, devices, doomed, up, addr, grules, published, tuned,
                 shapersActive, active, branch, gwindows, unwired, whereErr, verdict, deaths>>
all == <<part, vars, hs, gatewayVars>>

H == INSTANCE ProxyHandshake

m(kind, hot) == [kind |-> kind, hot |-> hot]
Sends == {<<m("cmd", TRUE), m("cmd", FALSE)>>, <<m("quiet", TRUE), m("admin", FALSE)>>, <<m("quiet", TRUE), m("cmd", TRUE)>>,
          <<m("cmd", TRUE), m("bare", FALSE), m("cmd", TRUE)>>, <<m("fetch", TRUE), m("cmd", TRUE)>>}

rule(action, glob, sometimes) == [action |-> action, glob |-> glob, sometimes |-> sometimes]
Fails == [rules |-> <<rule("error", "hot", FALSE)>>, packets |-> FALSE]
SlowAndLossy == [rules |-> <<rule("delay", "*", FALSE), rule("drop", "hot", TRUE)>>, packets |-> FALSE]
Twice == [rules |-> <<rule("duplicate", "*", FALSE), rule("respond", "*", FALSE)>>, packets |-> TRUE]

MCScripts ==
  {[sends |-> s, calls |-> c, leaver |-> l] :
     s \in Sends, c \in {<<Fails>>, <<SlowAndLossy>>}, l \in {"client", "service", "nobody"}}
  \cup {[sends |-> s, calls |-> c, leaver |-> "nobody"] : s \in Sends, c \in {<<Twice, Fails>>, <<Fails, Twice>>}}

\* The gateway: sequential bodies on a kept gateway, with and without enough
\* addresses; two parallel branches on a kept gateway; a host where processes
\* die.
variant(b, r, h, w, t, d) ==
    [branches |-> b, reuse |-> r, hosts |-> h, windows |-> w, tests |-> t, deaths |-> d]
GSetups == {variant(1, TRUE, 3, 2, 2, 0), variant(1, TRUE, 2, 2, 1, 0),
            variant(2, TRUE, 3, 2, 2, 0),
            variant(1, FALSE, 3, 1, 2, 1)}

G == INSTANCE Gateway WITH
        rules <- grules, windows <- gwindows, test <- gtest, Setups <- GSetups, Pids <- {1, 2, 3},
        Routes <- <<<<"a", "b">>, <<"b", "a">>>>, Unsourced <- {<<"", "b">>}, Throws <- {<<"", "b">>},
        Partitions <- [ab |-> [a |-> "a", b |-> "b", direction |-> "both"]]

(* The parts a behaviour does not have. *)
NoHandshake == [method |-> "none", reads |-> "done"]
NoProxy ==
  /\ proto = "mysql" /\ script = CHOOSE s \in MCScripts : TRUE
  /\ entry = "stopped" /\ rules = <<>> /\ windows = <<>> /\ opened = 0 /\ leaked = {}
  /\ conn = [NoConn EXCEPT !.handler = "over"] /\ report = [timeout |-> FALSE, late |-> FALSE]
NoGateway ==
  /\ setup = 0 /\ gtest = 0 /\ phase = 0 /\ me = 0 /\ alive = 0 /\ devices = 0 /\ doomed = 0 /\ up = 0
  /\ addr = 0 /\ grules = 0 /\ published = 0 /\ tuned = 0 /\ shapersActive = 0 /\ active = 0 /\ branch = 0
  /\ gwindows = 0 /\ unwired = 0 /\ whereErr = 0 /\ verdict = 0 /\ deaths = 0

MCInit ==
  /\ part \in {"proxy", "handshake", "gateway"}
  /\ IF part = "proxy" THEN Init ELSE NoProxy
  /\ IF part = "handshake" THEN H!HandshakeInit ELSE hs = NoHandshake
  /\ IF part = "gateway" THEN G!Init ELSE NoGateway

Proxied(A) == part = "proxy" /\ A /\ UNCHANGED <<part, hs, gatewayVars>>
Greeted(A) == part = "handshake" /\ A /\ UNCHANGED <<part, vars, gatewayVars>>
Gated(A) == part = "gateway" /\ A /\ UNCHANGED <<part, vars, hs>>

MCNext == Proxied(Next) \/ Greeted(H!HandshakeStep) \/ Gated(G!Next)

MCSpec ==
  /\ MCInit /\ [][MCNext]_all
  /\ WF_all(Proxied(SystemStep) \/ Greeted(H!HandshakeStep))

(* A request is answered once and in order, and the command loop of a proxy
   never starts inside the connection phase (mysql.go, postgres.go). *)
AnswersAreRight == AnswersMatchRequests /\ (part = "handshake" => H!HandedOverClean)

(* Every request is answered or its connection ends, Stop returns, and the
   connection phases the proxies know end, whichever side speaks next. *)
ProxiesSettle == <>[](ConversationSettled /\ H!HandshakeOver)

(* Nothing a test did to the gateway stays with it for the next test, nor   *)
(* with its endpoint unless parallel branches published out of order; no    *)
(* device outlives its process by more than one attach (clearPartitions,    *)
(* clearShapers, closePacketGateway, reapOrphanDevices); a passing test's   *)
(* packet faults all had a gateway under them (unwiredInstalls); in a       *)
(* sequential body an undisturbed window's rules stay on the endpoint while *)
(* it is open (InstallRules, republish).                                    *)
GatewayIsHonest == part = "gateway" => G!NothingLeaks /\ G!PassIsMediated /\ G!WindowHolds
==============================================================================
