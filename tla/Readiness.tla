----------------------------- MODULE Readiness ------------------------------
(***************************************************************************)
(* ready(): waiting for a service that has just been started. A plugin's    *)
(* Healthcheck dials and, where the protocol has one, asks a question,      *)
(* again and again, within one budget; the runtime (star/runtime.go) races  *)
(* it against the death of the process.                                     *)
(*                                                                          *)
(* Time is counted in pauses between attempts. A starting service goes      *)
(* through stages (external): 0 nothing, 1 the port is bound (by Docker's   *)
(* proxy, or a listen), 2 it answers, but not yes, 3 it serves; and it may  *)
(* start over, as database images do.                                       *)
(***************************************************************************)
EXTENDS Naturals

CONSTANTS Checks,      \* a subset of AllChecks
          Budget,      \* the timeout the spec gives
          Attempt,     \* the most an attempt of a check may take
          MaxRestarts  \* bound

(* A check: does it dial first, does it ask, does an attempt heed its       *)
(* context, and the stage in which it is content.                           *)
Check(name, tcp, asks, heeds, needs) == [name |-> name, tcp |-> tcp, asks |-> asks, heeds |-> heeds, needs |-> needs]

TCPCheck == Check("tcp", TRUE, FALSE, FALSE, 1)
GRPCCheck == Check("grpc", TRUE, FALSE, FALSE, 1)
(* A datagram socket is not refused. *)
UDPCheck == Check("udp", FALSE, TRUE, FALSE, 0)
HTTPCheck == Check("http", FALSE, TRUE, FALSE, 3)
(* 4xx will do. *)
HTTP2Check == Check("http2", FALSE, TRUE, FALSE, 2)
ClickHouseCheck == Check("clickhouse", FALSE, TRUE, FALSE, 3)
RedisCheck == Check("redis", FALSE, TRUE, FALSE, 3)
KafkaCheck == Check("kafka", FALSE, TRUE, FALSE, 3)
PostgresCheck == Check("postgres", TRUE, TRUE, TRUE, 3)
MySQLCheck == Check("mysql", TRUE, TRUE, TRUE, 3)
MongoCheck == Check("mongodb", TRUE, TRUE, TRUE, 3)
CassandraCheck == Check("cassandra", TRUE, TRUE, FALSE, 3)
NATSCheck == Check("nats", TRUE, TRUE, FALSE, 3)
AllChecks == {TCPCheck, GRPCCheck, UDPCheck, HTTPCheck, HTTP2Check, ClickHouseCheck, RedisCheck, KafkaCheck,
              PostgresCheck, MySQLCheck, MongoCheck, CassandraCheck, NATSCheck}

VARIABLES
    check,
    now,       \* since the check began
    at,        \* "tcp", "ask", a pause after either, "ready", "late", "cancelled"
    deadline,  \* of the loop that runs
    stage, restarts,
    proc,      \* the process: "up", "exited"
    start,     \* startBinaryService: "waits", "ready", "failed", "exited"
    seen       \* history: the highest stage the service ever was in

ready == <<check, now, at, deadline, stage, restarts, proc, start, seen>>

(* resolveReadyCheck and waitReady: the plugin the protocol names. *)
ReadyInit ==
    /\ check \in Checks
    /\ now = 0 /\ deadline = Budget
    /\ at = IF check.tcp THEN "tcp" ELSE "ask"
    /\ stage = 0 /\ restarts = 0 /\ proc = "up" /\ start = "waits" /\ seen = 0

----------------------------------------------------------------------------
Over == at \in {"ready", "late", "cancelled"}
waiter == <<check, stage, restarts, proc, start, seen>>

(* Fault: the second loop gets a budget of its own. *)
SecondDeadlineFresh == now + Budget

(* Both phases share one deadline. *)
SecondDeadline == deadline

(* A dial that is refused says so at once; one that is not answered takes   *)
(* two seconds, whatever is left of the budget.                             *)
TCPHealthcheck ==
    /\ at = "tcp"
    /\ \/ now >= deadline /\ at' = "late" /\ UNCHANGED <<now, deadline>>
       \/ /\ now < deadline /\ stage >= 1
          /\ at' = IF check.asks THEN "ask" ELSE "ready"
          /\ deadline' = SecondDeadline /\ UNCHANGED now
       \/ /\ now < deadline /\ stage = 0
          /\ \E t \in {0, Attempt} : now' = now + t
          /\ at' = "tcp pause" /\ UNCHANGED deadline
    /\ UNCHANGED waiter

Smaller(a, b) == IF a < b THEN a ELSE b

(* One question. An attempt that heeds its context never takes longer than  *)
(* what is left.                                                            *)
Probe ==
    /\ at = "ask"
    /\ \/ now >= deadline /\ at' = "late" /\ UNCHANGED now
       \/ now < deadline /\ stage >= check.needs /\ at' = "ready" /\ UNCHANGED now
       \/ /\ now < deadline /\ stage < check.needs
          /\ \E t \in {0, IF check.heeds THEN Smaller(Attempt, deadline - now) ELSE Attempt} : now' = now + t
          /\ at' = "ask pause"
    /\ UNCHANGED <<deadline, waiter>>

(* The caller's context ends with the same budget, and is looked at here. *)
PauseBetween ==
    /\ at \in {"tcp pause", "ask pause"}
    /\ \/ now' = now + 1 /\ at' = (IF at = "tcp pause" THEN "tcp" ELSE "ask")
       \/ now >= Budget /\ at' = "cancelled" /\ UNCHANGED now
    /\ UNCHANGED <<deadline, waiter>>

(* The runtime takes whichever comes first, and looks once more for an exit *)
(* before it calls the service ready.                                       *)
Started ==
    /\ start = "waits"
    /\ \/ at = "ready" /\ start' = IF proc = "exited" THEN "exited" ELSE "ready"
       \/ at \in {"late", "cancelled"} /\ start' = "failed"
       \/ proc = "exited" /\ start' = "exited"
    /\ UNCHANGED <<check, now, at, deadline, stage, restarts, proc, seen>>

CheckStep == start = "waits" /\ (TCPHealthcheck \/ Probe \/ PauseBetween)

Boots ==
    /\ proc = "up" /\ start = "waits" /\ stage < 3
    /\ stage' = stage + 1 /\ seen' = (IF stage' > seen THEN stage' ELSE seen)
    /\ UNCHANGED <<check, now, at, deadline, restarts, proc, start>>

StartsOver ==
    /\ proc = "up" /\ start = "waits" /\ stage > 0 /\ restarts < MaxRestarts
    /\ stage' = 0 /\ restarts' = restarts + 1
    /\ UNCHANGED <<check, now, at, deadline, proc, start, seen>>

Exits ==
    /\ proc = "up" /\ start = "waits"
    /\ proc' = "exited" /\ stage' = 0
    /\ UNCHANGED <<check, now, at, deadline, restarts, start, seen>>

ReadyNext == CheckStep \/ Started \/ Boots \/ StartsOver \/ Exits

----------------------------------------------------------------------------
(* ready() means that the service answered as its protocol asks, in the     *)
(* time the spec gave and no longer than one attempt over (readiness.go:31, *)
(* builtins.go:651).                                                        *)
ReadinessIsHonest ==
    /\ start = "ready" => seen >= check.needs /\ proc = "up"
    /\ Over => now <= Budget + Attempt
============================================================================
