---------------------------- MODULE ProxyDialects ----------------------------
(***************************************************************************)
(* What tells the protocol proxies of internal/proxy apart.  Every proxy   *)
(* is the same machine (module Proxy): accept, dial, read a message, walk  *)
(* the rules, answer, close, swallow or forward.  A dialect records the    *)
(* points where one handleConn differs from another:                       *)
(*   reply      "lockstep": the goroutine that forwards a request reads    *)
(*              its reply before it reads the next request; "pump": an     *)
(*              own goroutine copies the replies; "relay": two equal       *)
(*              goroutines, and the first that ends ends the handler       *)
(*   drains     a handler whose client socket a rule closed still serves   *)
(*              the requests its bufio.Reader holds                        *)
(*   onCancel   what a cancelled context does to an open connection:       *)
(*              "closes" it, is "polled" before each message, is "ignored" *)
(*   deadline   reads of the client carry a deadline                       *)
(*   waited     Stop waits for the handler (the WaitGroup, or the server)  *)
(*   legs       the handler's relay goroutines are not in the WaitGroup    *)
(*   serial     replies carry no request id, so their order is their       *)
(*              meaning                                                    *)
(*   pipelines  a client may send before the last answer arrived           *)
(*   kinds      the kinds of message a client sends: "cmd" is inspected    *)
(*              and answered, "admin" answered but not inspected, "quiet"  *)
(*              inspected and never answered by the server, "bare" neither *)
(*              inspected nor answered, "fetch" a request a duplicate rule *)
(*              does not apply to                                          *)
(*   knowsQuiet the proxy does not wait for the reply to a quiet message   *)
(*   firstOnly  only the first message of a connection is inspected        *)
(*   both       the server's messages are inspected as well                *)
(*   wakes      the wait of a delay rule ends with the context             *)
(*   rules      the switch on rule.Action: what a matching rule does;      *)
(*              an action outside its domain lets the walk go on           *)
(***************************************************************************)
EXTENDS Naturals, Sequences

(* The framing of request and reply shared by the plain request proxies. *)
Lockstep == [reply |-> "lockstep", drains |-> FALSE, onCancel |-> "polled", deadline |-> TRUE, waited |-> TRUE,
             legs |-> FALSE, serial |-> TRUE, pipelines |-> TRUE, kinds |-> {"cmd"}, knowsQuiet |-> FALSE,
             firstOnly |-> FALSE, both |-> FALSE, wakes |-> FALSE]

With(dialect, table) == [f \in DOMAIN dialect \cup {"rules"} |-> IF f = "rules" THEN table ELSE dialect[f]]

redisRules == [error |-> "answer", respond |-> "answer", drop |-> "close"]
redis == With(Lockstep, redisRules)

memcachedRules == [error |-> "answer", respond |-> "answer", drop |-> "close", delay |-> "forward"]
memcached == With([Lockstep EXCEPT !.drains = TRUE, !.kinds = {"cmd", "quiet"}], memcachedRules)

mongodbRules == [error |-> "answer", drop |-> "close", delay |-> "forward"]
mongodb == With([Lockstep EXCEPT !.kinds = {"cmd", "quiet"}, !.serial = FALSE, !.pipelines = FALSE], mongodbRules)

postgresRules == [error |-> "answer", drop |-> "close", delay |-> "forward"]
postgres == With([Lockstep EXCEPT !.kinds = {"cmd", "quiet", "admin"}], postgresRules)

kafkaRules == [drop |-> "swallow", error |-> "close", delay |-> "forward", duplicate |-> "duplicate"]
kafka == With([Lockstep EXCEPT !.onCancel = "closes", !.serial = FALSE, !.knowsQuiet = TRUE,
                               !.kinds = {"cmd", "quiet", "admin", "fetch"}], kafkaRules)

mysqlRules == [error |-> "answer", drop |-> "close", delay |-> "forward"]
mysql == With([Lockstep EXCEPT !.reply = "pump", !.onCancel = "closes", !.pipelines = FALSE,
                               !.kinds = {"cmd", "bare", "admin"}], mysqlRules)

cassandraRules == [error |-> "answer", drop |-> "close", delay |-> "forward"]
cassandra == With([Lockstep EXCEPT !.reply = "pump", !.serial = FALSE, !.kinds = {"cmd", "admin"}], cassandraRules)

amqpRules == [drop |-> "swallow", error |-> "close", delay |-> "forward"]
amqp == With([Lockstep EXCEPT !.reply = "relay", !.legs = TRUE, !.serial = FALSE, !.kinds = {"quiet", "admin"}], amqpRules)

natsRules == [drop |-> "swallow"]
nats == With([Lockstep EXCEPT !.reply = "relay", !.legs = TRUE, !.serial = FALSE, !.kinds = {"quiet", "admin"},
                              !.onCancel = "ignored", !.deadline = FALSE, !.both = TRUE], natsRules)

tcpRules == [drop |-> "close", respond |-> "last"]
tcp == With([Lockstep EXCEPT !.reply = "relay", !.legs = TRUE, !.onCancel = "closes", !.deadline = FALSE,
                             !.firstOnly = TRUE], tcpRules)

udpRules == [drop |-> "swallow", delay |-> "forward"]
udp == With([Lockstep EXCEPT !.reply = "pump", !.onCancel = "closes", !.deadline = FALSE, !.serial = FALSE], udpRules)

httpRules == [respond |-> "answer", error |-> "answer", drop |-> "close"]
http == With([Lockstep EXCEPT !.onCancel = "closes", !.deadline = FALSE, !.waited = FALSE], httpRules)

http2Rules == [respond |-> "answer", error |-> "answer", drop |-> "answer"]
http2 == With([Lockstep EXCEPT !.onCancel = "closes", !.deadline = FALSE, !.waited = FALSE, !.serial = FALSE], http2Rules)

clickhouseRules == [error |-> "answer", respond |-> "answer", drop |-> "close"]
clickhouse == With([Lockstep EXCEPT !.onCancel = "closes", !.deadline = FALSE, !.waited = FALSE], clickhouseRules)

grpcRules == [error |-> "answer", drop |-> "answer"]
grpc == With([Lockstep EXCEPT !.onCancel = "closes", !.deadline = FALSE, !.serial = FALSE, !.wakes = TRUE], grpcRules)

(* newProxy: the implementation a protocol name stands for. *)
newProxy == [redis |-> redis, memcached |-> memcached, mongodb |-> mongodb, postgres |-> postgres, kafka |-> kafka,
             mysql |-> mysql, cassandra |-> cassandra, amqp |-> amqp, nats |-> nats, tcp |-> tcp, udp |-> udp,
             http |-> http, http2 |-> http2, clickhouse |-> clickhouse, grpc |-> grpc]

SupportsProxy == DOMAIN newProxy

(* What a rule may select: the glob of the protocol's own field (matchGlob,
   sqlmatch.Match), which the datagram proxy does not evaluate. *)
MatchRequest(protocol, rule, message) == rule.glob = "*" \/ message.hot \/ protocol = "udp"

(* The switch of the protocol's walk, on one message. *)
SwitchOn(protocol, rule, message) ==
  LET table == newProxy[protocol].rules
  IN  IF rule.action \notin DOMAIN table \/ (rule.action = "duplicate" /\ message.kind = "fetch")
        THEN "goes on" ELSE table[rule.action]

Stops(protocol, rule, message) == MatchRequest(protocol, rule, message) /\ SwitchOn(protocol, rule, message) # "goes on"

(* The rules one of which decides a message: the first matching rule whose
   action stops the walk, where a rule with a probability may step aside. 0
   when none does. *)
Deciders(protocol, rules, message) ==
  LET stops == {k \in 1..Len(rules) : Stops(protocol, rules[k], message)}
      sure == {k \in stops : ~rules[k].sometimes}
  IN  {k \in stops : \A j \in sure : k <= j} \cup (IF sure = {} THEN {0} ELSE {})

==============================================================================
