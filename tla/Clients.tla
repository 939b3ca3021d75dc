------------------------------ MODULE Clients -------------------------------
(***************************************************************************)
(* A step: one call of a protocol plugin's ExecuteStep (internal/protocol)  *)
(* against a service that may refuse it, stall, answer with an error, or    *)
(* end its answer halfway. Each method is a record (its dialect) of what it *)
(* waits for, what bounds each wait and which endings of an answer it       *)
(* looks at; the steps are the same for all of them.                        *)
(*                                                                          *)
(* An answer is a head, rows, and an end. The service and the network are   *)
(* external, and so are the client libraries, as far as the plugins use     *)
(* them: they report every broken answer to a caller that asks.             *)
(***************************************************************************)
EXTENDS Naturals, Sequences

CONSTANTS Methods,  \* a subset of AllMethods
          MaxRows,  \* bound: rows of an answer
          MaxTries  \* bound: attempts of a publish (10 in the code)

(* What ends an answer: its end, a clean close, a broken connection, an     *)
(* error in the middle, more bytes than the client reads.                   *)
Broken == {"eof", "reset", "error", "over"}

(* A dialect. ctx, limit: the waits ("dial", "recv") that the test's        *)
(* context and a deadline of the method's own bound. breaks: the ways an    *)
(* answer may break; misses: those of them that the method does not look    *)
(* at in an answer that has begun.                                          *)
Method(name, ctx, limit, misses) ==
    [name |-> name, ctx |-> ctx, limit |-> limit, misses |-> misses,
     rows |-> FALSE, auth |-> FALSE, oneway |-> FALSE, blank |-> FALSE, breaks |-> Broken \ {"over"}, retries |-> FALSE,
     argsFirst |-> TRUE]

Both == {"dial", "recv"}

(* Fault: what ended the body is not looked at. *)
ReadHTTPResponseBodyTrusting == Broken

(* An incomplete body is never a success. *)
ReadHTTPResponseBody == {}

HTTPStep == [Method("http", Both, Both, ReadHTTPResponseBody) EXCEPT !.rows = TRUE, !.breaks = Broken]
HTTP2Step == [Method("http2", Both, Both, ReadHTTPResponseBody) EXCEPT !.rows = TRUE, !.breaks = Broken]

(* Fault: no deadline on the connection. *)
TCPStepNoDeadline == [Method("tcp", {"dial"}, {"dial"}, {"eof"}) EXCEPT !.blank = TRUE, !.breaks = {"eof", "reset"}]

(* A line that the close of the connection cuts short is a line, and no     *)
(* line at all an empty one.                                                *)
TCPStep == [Method("tcp", {"dial"}, Both, {"eof"}) EXCEPT !.blank = TRUE, !.breaks = {"eof", "reset"}]

UDPSend == [Method("udp", {"dial"}, Both, {}) EXCEPT !.breaks = {"reset"}]
UDPSendNoReply == [Method("udp.send_no_reply", {"dial"}, Both, {}) EXCEPT !.oneway = TRUE]

ReadRESP == {}
RedisStep == [Method("redis", {}, Both, ReadRESP) EXCEPT !.rows = TRUE, !.auth = TRUE, !.argsFirst = FALSE]

PostgresStep(name, misses) == Method(name, Both, {}, misses)
PostgresExec == PostgresStep("postgres.exec", {})
(* rows.Next is false at the end and at an error; rows.Err is not asked. *)
PostgresQuery == [PostgresStep("postgres.query", Broken) EXCEPT !.rows = TRUE]

MySQLStep(name, misses) == Method(name, Both, {}, misses)
MySQLExec == MySQLStep("mysql.exec", {})
MySQLQuery == [MySQLStep("mysql.query", Broken) EXCEPT !.rows = TRUE]

PostSQL(name, misses) == [Method(name, Both, Both, misses) EXCEPT !.rows = TRUE, !.breaks = Broken]
(* What was read must parse. *)
ClickHouseQuery == PostSQL("clickhouse.query", {})
ClickHouseExec == PostSQL("clickhouse.exec", Broken)

CassandraStep(name) == Method(name, {"recv"}, Both, {})
CassandraQuery == [CassandraStep("cassandra.query") EXCEPT !.rows = TRUE]
CassandraExec == CassandraStep("cassandra.exec")

NATSStep(name) == [Method(name, {}, Both, {}) EXCEPT !.argsFirst = FALSE]
(* Publish queues; the flush is the answer that is waited for. *)
NATSPublish == NATSStep("nats.publish")
NATSRequest == NATSStep("nats.request")
NATSSubscribe == NATSStep("nats.subscribe")

(* Refused and broken connections, and leaderless topics, are tried again. *)
KafkaPublish == [Method("kafka.publish", Both, {}, {}) EXCEPT !.retries = TRUE]
KafkaConsume == Method("kafka.consume", Both, Both, {})

MongoStep(name) == [Method(name, Both, {"dial"}, {}) EXCEPT !.argsFirst = FALSE]
MongoFind == [MongoStep("mongodb.find") EXCEPT !.rows = TRUE]
MongoInsert == MongoStep("mongodb.insert")
MongoInsertMany == MongoStep("mongodb.insert_many")
MongoUpdate == MongoStep("mongodb.update")
MongoDelete == MongoStep("mongodb.delete")
MongoCount == MongoStep("mongodb.count")
MongoCommand == MongoStep("mongodb.command")

GRPCCall == Method("grpc", Both, {}, {})
InvokeGRPCUnary == Method("grpc.client", Both, Both, {})

AllMethods ==
    {HTTPStep, HTTP2Step, TCPStep, UDPSend, UDPSendNoReply, RedisStep, PostgresQuery, PostgresExec, MySQLQuery, MySQLExec,
     ClickHouseQuery, ClickHouseExec, CassandraQuery, CassandraExec, NATSPublish, NATSRequest, NATSSubscribe,
     KafkaPublish, KafkaConsume, MongoFind, MongoInsert, MongoInsertMany, MongoUpdate, MongoDelete, MongoCount,
     MongoCommand, GRPCCall, InvokeGRPCUnary}

VARIABLES
    m,       \* the method called
    ctx,     \* the test's context: "live", "done"
    pc,      \* "args", "dial", "auth", "send", "recv", "pause", "returned"
    tries,
    conn,    \* the client has a connection
    wire,    \* what the service sent and the client has not read
    svc,     \* the service: [asked, taken, answer, took]: a request it has, has done;
             \* what it said to it; requests it ever did
    rows,    \* rows read
    result   \* "none", "error" (of usage), "failed", "ok"

vars == <<m, ctx, pc, tries, conn, wire, svc, rows, result>>

Init ==
    /\ m \in Methods
    /\ ctx = "live" /\ pc = "args" /\ tries = 0 /\ conn = FALSE /\ wire = <<>> /\ rows = 0
    /\ svc = [asked |-> FALSE, taken |-> FALSE, answer |-> <<>>, took |-> 0]
    /\ result = "none"

----------------------------------------------------------------------------
(* Every return closes the connection (defer). *)
Return(r) == pc' = "returned" /\ result' = r /\ conn' = FALSE

(* A failed attempt of a publish is tried again, at first after a second. *)
Failed(why) ==
    IF m.retries /\ why \in {"refused", "eof", "reset", "error"} /\ tries + 1 < MaxTries
    THEN pc' = "pause" /\ conn' = FALSE /\ UNCHANGED result
    ELSE Return("failed")

(* Arguments are checked before the service is called, or after. *)
BadArguments ==
    /\ pc = IF m.argsFirst THEN "args" ELSE "send"
    /\ Return("error")
    /\ UNCHANGED <<m, ctx, tries, wire, svc, rows>>

Arguments == pc = "args" /\ pc' = "dial" /\ UNCHANGED <<m, ctx, tries, conn, wire, svc, rows, result>>

Dial ==
    /\ pc = "dial"
    /\ \/ pc' = (IF m.auth THEN "auth" ELSE "send") /\ conn' = TRUE /\ UNCHANGED result
       \/ Failed("refused")
    /\ wire' = <<>>
    /\ UNCHANGED <<m, ctx, tries, svc, rows>>

(* AUTH and its one line of answer, when a password is configured. *)
Auth ==
    /\ pc = "auth"
    /\ \/ pc' = "send" /\ UNCHANGED <<conn, result>>
       \/ Return("failed")
    /\ UNCHANGED <<m, ctx, tries, wire, svc, rows>>

Send ==
    /\ pc = "send"
    /\ \/ /\ svc' = [svc EXCEPT !.asked = TRUE, !.taken = FALSE, !.answer = <<>>]
          /\ IF m.oneway THEN Return("ok") ELSE pc' = "recv" /\ UNCHANGED <<conn, result>>
       \/ Failed("reset") /\ UNCHANGED svc
    /\ rows' = 0
    /\ UNCHANGED <<m, ctx, tries, wire>>

(* The next part of the answer. *)
Receive ==
    /\ pc = "recv" /\ wire # <<>>
    /\ wire' = Tail(wire)
    /\ LET part == Head(wire)
           began == Len(svc.answer) - Len(wire) > 0
       IN \/ part = "head" /\ UNCHANGED <<pc, conn, result, rows>>
          \/ part = "row" /\ rows' = rows + 1 /\ UNCHANGED <<pc, conn, result>>
          \/ part = "end" /\ Return("ok") /\ UNCHANGED rows
          \/ /\ part \in Broken
             /\ IF (began /\ part \in m.misses) \/ (part = "eof" /\ m.blank) THEN Return("ok") ELSE Failed(part)
             /\ UNCHANGED rows
    /\ UNCHANGED <<m, ctx, tries, svc>>

Waiting == (pc = "dial" \/ (pc \in {"auth", "recv"} /\ wire = <<>>))
Wait == IF pc = "dial" THEN "dial" ELSE "recv"

(* The service, or the network, does nothing for too long. An answer that   *)
(* had begun and times out is broken like one that is reset.                *)
TimesOut ==
    /\ Waiting
    /\ Wait \in m.limit \/ (ctx = "done" /\ Wait \in m.ctx)
    /\ IF svc.answer # <<>> /\ pc = "recv" /\ "reset" \in m.misses THEN Return("ok") ELSE Return("failed")
    /\ UNCHANGED <<m, ctx, tries, wire, svc, rows>>

(* The pause ends after a second, and at once when the context does: the    *)
(* next attempt then finds it done.                                         *)
Pause ==
    /\ pc = "pause"
    /\ tries' = tries + 1
    /\ IF ctx = "done" THEN Return("failed") ELSE pc' = "dial" /\ UNCHANGED <<conn, result>>
    /\ UNCHANGED <<m, ctx, wire, svc, rows>>

(* Three minutes after the test began, or at its end. *)
ContextEnds == ctx = "live" /\ ctx' = "done" /\ UNCHANGED <<m, pc, tries, conn, wire, svc, rows, result>>

Step == Arguments \/ BadArguments \/ Dial \/ Auth \/ Send \/ Receive \/ TimesOut \/ Pause

----------------------------------------------------------------------------
(* The service *)

Says(part) ==
    /\ wire' = Append(wire, part)
    /\ svc' = [svc EXCEPT !.answer = Append(@, part), !.asked = part \in {"head", "row"}]

(* It takes the request: what was asked is done. *)
Takes ==
    /\ svc.asked /\ ~svc.taken
    /\ svc' = [svc EXCEPT !.taken = TRUE, !.took = @ + 1]
    /\ UNCHANGED <<m, ctx, pc, tries, conn, wire, rows, result>>

Answers ==
    /\ svc.asked /\ svc.taken /\ conn
    /\ IF svc.answer = <<>> THEN Says("head")
       ELSE \/ m.rows /\ Len(svc.answer) <= MaxRows /\ Says("row")
            \/ Says("end")
    /\ UNCHANGED <<m, ctx, pc, tries, conn, rows, result>>

Breaks ==
    /\ svc.asked /\ conn
    /\ \E part \in m.breaks : (part = "over" => svc.answer # <<>>) /\ Says(part)
    /\ UNCHANGED <<m, ctx, pc, tries, conn, rows, result>>

Service == Takes \/ Answers \/ Breaks

Next == Step \/ ContextEnds \/ Service
Spec == Init /\ [][Next]_vars /\ WF_vars(Step) /\ WF_vars(ContextEnds)

----------------------------------------------------------------------------
(* The methods whose success does not say that the answer was whole. *)
Unchecked == {"postgres.query", "mysql.query", "clickhouse.exec", "tcp", "udp.send_no_reply"}

Whole == svc.took > 0 /\ svc.answer # <<>> /\ svc.answer[Len(svc.answer)] = "end"

(* Success means that the service did what was asked and its whole answer   *)
(* was read, for every method but the unchecked ones (protocol.go:45).      *)
StepsAreHonest == result = "ok" => (Whole /\ rows = Len(svc.answer) - 2) \/ m.name \in Unchecked

============================================================================
