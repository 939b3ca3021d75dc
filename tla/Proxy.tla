-------------------------------- MODULE Proxy --------------------------------
(***************************************************************************)
(* A protocol proxy on one service interface, from internal/proxy: the     *)
(* Manager's entry for it, the fault() windows of the test thread that put *)
(* rules on it, and one client connection through it to the service.       *)
(*                                                                         *)
(*   proto    the interface's protocol, a name of SupportsProxy            *)
(*   script   what the connection will see: the messages the client sends, *)
(*            the fault() calls of the tests, and who leaves early         *)
(*   entry    the proxy's life: "absent", "up", "stopping" (context        *)
(*            cancelled, listener closed, Stop waiting), "stopped"         *)
(*   rules    the proxy's rules; each carries the window that added it     *)
(*   windows  the fault() calls on the test thread's stack, innermost last *)
(*   opened   fault() calls so far                                         *)
(*   leaked   windows that left without ClearRules                         *)
(*   conn     the connection: the proxy's two sockets, what the client has *)
(*            sent, what the handler has read and is doing, the bytes in   *)
(*            flight on the service side and the answers written to the    *)
(*            client                                                       *)
(*   report   what the event log shows of the teardown: a                  *)
(*            proxy_stop_timeout, and an event written after Stop returned *)
(***************************************************************************)
EXTENDS ProxyDialects

CONSTANTS Protocols,   \* the protocols of this instance
          Scripts,     \* [sends, calls, leaver]: messages [kind, hot], fault() calls
                       \* [rules, packets], and "client", "service" or "nobody"
          MaxPush      \* messages the service sends of its own accord

(* What a script is made of: the client's messages, hot if they match the   *)
(* narrow glob; proxy.Rule, certain or not; and fault() with such rules.    *)
Messages == [kind : {"cmd", "admin", "quiet", "bare", "fetch"}, hot : BOOLEAN]
RuleSpecs == [action : {"respond", "error", "delay", "drop", "duplicate"}, glob : {"*", "hot"}, sometimes : BOOLEAN]
FaultCalls == [rules : Seq(RuleSpecs), packets : BOOLEAN]

ASSUME ProtocolsAssumption == Protocols \subseteq SupportsProxy
ASSUME ScriptsAssumption ==
  Scripts \subseteq [sends : Seq(Messages), calls : Seq(FaultCalls), leaver : {"client", "service", "nobody"}]

VARIABLES proto, script, entry, rules, windows, opened, leaked, conn, report
vars == <<proto, script, entry, rules, windows, opened, leaked, conn, report>>
test == <<entry, rules, windows, opened, leaked>>
setting == <<proto, script>>

D == newProxy[proto]
cancelled == entry \in {"stopping", "stopped"}
Push == [kind |-> "quiet", hot |-> TRUE]
Idle == [pc |-> "none", n |-> 0, fate |-> "forward", by |-> 0, slow |-> FALSE]

NoConn == [handler |-> "none", client |-> "shut", server |-> "shut", fin |-> FALSE, sent |-> 0, read |-> 0, pushed |-> 0,
           up |-> Idle, down |-> Idle, upq |-> <<>>, downq |-> <<>>, answers |-> <<>>, faulted |-> {}]

Init ==
  /\ proto \in Protocols
  /\ script \in {s \in Scripts : \A i \in DOMAIN s.sends : s.sends[i].kind \in D.kinds}
  /\ entry = "absent" /\ rules = <<>> /\ windows = <<>> /\ opened = 0 /\ leaked = {}
  /\ conn = NoConn
  /\ report = [timeout |-> FALSE, late |-> FALSE]

-----------------------------------------------------------------------------
(* The manager, called by the test thread. *)

(* EnsureProxy, with the Start it makes: a failing Start leaves no entry. *)
EnsureProxy ==
  /\ entry = "absent"
  /\ entry' = "up"
  /\ UNCHANGED <<setting, rules, windows, opened, leaked, conn, report>>

(* fault(interface, ..., run = body): the rules are added one AddRule at a
   time, while connections are being served. *)
builtinFaultProtocol ==
  /\ entry = "up" /\ opened < Len(script.calls)
  /\ \A i \in DOMAIN windows : windows[i].todo = <<>>
  /\ opened' = opened + 1
  /\ LET call == script.calls[opened + 1]
     IN  windows' = Append(windows, [id |-> opened + 1, todo |-> call.rules, packets |-> call.packets])
  /\ UNCHANGED <<setting, entry, rules, leaked, conn, report>>

top == windows[Len(windows)]
Unwound == SubSeq(windows, 1, Len(windows) - 1)

(* Manager.AddRule: an interface whose entry is gone gets no rule. *)
AddRule ==
  /\ windows # <<>> /\ top.todo # <<>>
  /\ LET r == Head(top.todo)
     IN  rules' = IF entry = "up" THEN Append(rules, [action |-> r.action, glob |-> r.glob, sometimes |-> r.sometimes,
                                                      window |-> top.id])
                                  ELSE rules
  /\ windows' = [windows EXCEPT ![Len(windows)].todo = Tail(@)]
  /\ UNCHANGED <<setting, entry, opened, leaked, conn, report>>

(* applyPacketFaults fails: fault() returns before it has deferred ClearRules,
   and its error unwinds the outer windows, which have. *)
PacketsRefused ==
  /\ windows # <<>> /\ top.todo = <<>> /\ top.packets
  /\ windows' = <<>>
  /\ IF Len(windows) > 1 /\ entry = "up" THEN rules' = <<>> /\ leaked' = {}
                                        ELSE rules' = rules /\ leaked' = leaked \cup {top.id}
  /\ UNCHANGED <<setting, entry, opened, conn, report>>

ClearRulesOnSuccess ==
  /\ windows # <<>> /\ top.todo = <<>>
  /\ rules' \in {rules, <<>>}
  /\ windows' = Unwound
  /\ leaked' = IF entry = "up" THEN {} ELSE leaked
  /\ UNCHANGED <<setting, entry, opened, conn, report>>

(* The window's body returns, or fails: the deferred ClearRules empties the
   interface, whoever added the rules. *)
ClearRules ==
  /\ windows # <<>> /\ top.todo = <<>>
  /\ rules' = IF entry = "up" THEN <<>> ELSE rules
  /\ windows' = Unwound
  /\ leaked' = IF entry = "up" THEN {} ELSE leaked
  /\ UNCHANGED <<setting, entry, opened, conn, report>>

(* stopMatching: the entry goes first, then the context is cancelled and the
   proxy's Stop closes the listener and waits. *)
stopMatching ==
  /\ entry = "up"
  /\ entry' = "stopping"
  /\ UNCHANGED <<setting, rules, windows, opened, leaked, conn, report>>

Counted == D.waited /\ conn.handler = "run"

waitConnsUnbounded ==
  /\ entry = "stopping" /\ ~Counted
  /\ entry' = "stopped"
  /\ UNCHANGED <<setting, rules, windows, opened, leaked, conn, report>>

waitConnsSilently ==
  /\ entry = "stopping"
  /\ entry' = "stopped"
  /\ UNCHANGED <<setting, rules, windows, opened, leaked, conn, report>>

(* waitConns: the handlers are done, or ProxyStopTimeout passed. *)
waitConns ==
  /\ entry = "stopping"
  /\ entry' = "stopped"
  /\ report' = [report EXCEPT !.timeout = Counted]
  /\ UNCHANGED <<setting, rules, windows, opened, leaked, conn>>

-----------------------------------------------------------------------------
(* The client and the service. *)

(* A connection is accepted and the service dialled; a failed dial closes the
   client again. *)
Connect ==
  /\ entry = "up" /\ conn.handler = "none"
  /\ \/ conn' = [conn EXCEPT !.handler = "run", !.client = "open", !.server = "open", !.up.pc = "read",
                             !.down.pc = IF D.reply = "lockstep" THEN "none" ELSE "run"]
     \/ conn' = [conn EXCEPT !.handler = "over"]
  /\ UNCHANGED <<setting, test, report>>

Answered(i) == \E k \in DOMAIN conn.answers : conn.answers[k] = i
Owed(i) == script.sends[i].kind \notin {"quiet", "bare"} /\ ~Answered(i) /\ i \notin conn.faulted

ClientSend ==
  /\ conn.client = "open" /\ ~conn.fin /\ conn.sent < Len(script.sends)
  /\ D.pipelines \/ \A i \in 1..conn.sent : ~Owed(i)
  /\ conn' = [conn EXCEPT !.sent = @ + 1]
  /\ UNCHANGED <<setting, test, report>>

ClientClose ==
  /\ script.leaver = "client" /\ conn.client = "open" /\ ~conn.fin /\ proto # "udp"
  /\ conn' = [conn EXCEPT !.fin = TRUE]
  /\ UNCHANGED <<setting, test, report>>

ServerReply ==
  /\ conn.server = "open" /\ conn.upq # <<>>
  /\ LET i == Head(conn.upq)
     IN  conn' = [conn EXCEPT !.upq = Tail(@),
                              !.downq = IF script.sends[i].kind \in {"quiet", "bare"} THEN @ ELSE Append(@, i)]
  /\ UNCHANGED <<setting, test, report>>

ServerPush ==
  /\ conn.server = "open" /\ D.both /\ conn.pushed < MaxPush
  /\ conn' = [conn EXCEPT !.pushed = @ + 1, !.downq = Append(@, 0)]
  /\ UNCHANGED <<setting, test, report>>

(* The service closes; what it has already written can still be read. *)
ServerClose ==
  /\ script.leaver = "service" /\ conn.server = "open"
  /\ conn' = [conn EXCEPT !.server = "shut", !.upq = <<>>]
  /\ UNCHANGED <<setting, test, report>>

-----------------------------------------------------------------------------
(* The handler. *)

(* handleConn returns: its deferred Close calls shut both sockets. A relay
   goroutine that sleeps in a delay does not notice yet. *)
Over(c) ==
  [c EXCEPT !.handler = "over", !.client = "shut", !.server = "shut", !.upq = <<>>, !.downq = <<>>,
            !.up.pc = IF D.legs /\ @ = "act" THEN @ ELSE "end",
            !.down.pc = IF D.legs /\ @ = "act" THEN @ ELSE "end"]

(* The head of the loop: the proxies that poll their context leave here. *)
LoopTop(c) == IF D.onCancel = "polled" /\ cancelled THEN Over([c EXCEPT !.up.pc = "read"]) ELSE [c EXCEPT !.up.pc = "read"]

Written(c, i) == IF c.client = "open" /\ i > 0 THEN [c EXCEPT !.answers = Append(@, i)] ELSE c

(* An event the handler emits once Stop has returned as if all were done. *)
Emits == report' = [report EXCEPT !.late = @ \/ (entry = "stopped" /\ ~report.timeout)]

Inspected(i) == script.sends[i].kind \notin {"admin", "bare"} /\ (D.firstOnly => i = 1)

(* The walk up to the deciding rule k, or through all of them, met a delay. *)
Slow(message, k) ==
  \E j \in DOMAIN rules : (k = 0 \/ j <= k) /\ rules[j].action = "delay" /\ MatchRequest(proto, rules[j], message)

(* The verdict on a message: the snapshot of the rules is taken here, the
   verdict carried out in a later step, after the delays of the walk. *)
Verdict(n, message, inspected) ==
  {[pc |-> "act", n |-> n, fate |-> IF k = 0 THEN "forward" ELSE SwitchOn(proto, rules[k], message),
    by |-> IF k = 0 THEN 0 ELSE rules[k].window, slow |-> inspected /\ Slow(message, k)] :
     k \in IF inspected THEN Deciders(proto, rules, message) ELSE {0}}

(* The next message is read; a closed socket still yields what the reader has
   buffered. *)
ReadRequest ==
  /\ conn.up.pc = "read" /\ conn.read < conn.sent
  /\ conn.client = "open" \/ D.drains
  /\ LET i == conn.read + 1
     IN  \E v \in Verdict(i, script.sends[i], Inspected(i)) : conn' = [conn EXCEPT !.read = i, !.up = v]
  /\ UNCHANGED <<setting, test, report>>

Awaits(i) == D.reply = "lockstep" /\ ~(script.sends[i].kind = "quiet" /\ D.knowsQuiet)

Forwarded(c) ==
  LET i == c.up.n
      twice == c.up.fate = "duplicate" /\ ~Awaits(i)
  IN  IF c.server = "shut" THEN Over([c EXCEPT !.up.pc = "read"])
      ELSE LET sent == [c EXCEPT !.upq = @ \o (IF twice THEN <<i, i>> ELSE <<i>>)]
           IN  IF Awaits(i) THEN [sent EXCEPT !.up.pc = "await"] ELSE LoopTop(sent)

CarriedOutFallingThrough(c) ==
  IF c.up.fate \in {"answer", "forward", "duplicate"}
    THEN Forwarded(IF c.up.fate = "answer" THEN Written(c, c.up.n) ELSE c)
    ELSE Over([c EXCEPT !.up.pc = "read", !.faulted = @ \cup {c.up.n}])

CarriedOut(c) ==
  LET i == c.up.n
      hit == [c EXCEPT !.faulted = @ \cup {i}]
  IN  CASE c.up.fate \in {"forward", "duplicate"} -> Forwarded(c)
        [] c.up.fate = "answer" -> LoopTop(Written(hit, i))
        [] c.up.fate = "last" -> Over([Written(hit, i) EXCEPT !.up.pc = "read"])
        [] c.up.fate = "swallow" -> LoopTop(hit)
        [] c.up.fate = "close" -> LET shut == [hit EXCEPT !.client = "shut"]
                                  IN  IF D.drains THEN LoopTop(shut) ELSE Over([shut EXCEPT !.up.pc = "read"])

Act ==
  /\ conn.up.pc = "act"
  /\ conn' = IF conn.handler = "over" THEN [conn EXCEPT !.up.pc = "end"] ELSE CarriedOut(conn)
  /\ IF conn.up.by # 0 \/ conn.up.slow \/ conn'.handler # conn.handler THEN Emits ELSE UNCHANGED report
  /\ UNCHANGED <<setting, test>>

(* waitDelay: the stream's or the proxy's context ends the wait, with a status
   for the caller. *)
WaitDelayCancelled ==
  /\ conn.up.pc = "act" /\ D.wakes /\ conn.up.slow /\ (cancelled \/ conn.fin)
  /\ conn' = Over(Written([conn EXCEPT !.faulted = @ \cup {conn.up.n}], conn.up.n))
  /\ Emits
  /\ UNCHANGED <<setting, test>>

(* The reply is read and passed on, and a duplicated produce sent again. *)
RelayReply ==
  /\ conn.up.pc = "await" /\ conn.downq # <<>>
  /\ LET c == Written([conn EXCEPT !.downq = Tail(@)], Head(conn.downq))
     IN  conn' = IF conn.up.fate # "duplicate" THEN LoopTop(c)
                 ELSE IF c.server = "shut" THEN Over(c)
                 ELSE [c EXCEPT !.upq = Append(@, conn.up.n), !.up.pc = "again"]
  /\ UNCHANGED <<setting, test, report>>

(* forwardDuplicate reads the second reply and discards it. *)
forwardDuplicate ==
  /\ conn.up.pc = "again" /\ conn.downq # <<>>
  /\ conn' = LoopTop([conn EXCEPT !.downq = Tail(@)])
  /\ UNCHANGED <<setting, test, report>>

(* The handler's blocking read fails: the client left or kept silent past the
   deadline, the service left, the duplicate's reply is overdue. *)
ReadFails ==
  /\ conn.handler = "run"
  /\ \/ conn.up.pc = "read" /\ (conn.client = "shut" \/ (conn.read = conn.sent /\ conn.fin))
     \/ conn.up.pc = "read" /\ conn.read = conn.sent /\ (D.deadline \/ (D.firstOnly /\ conn.read = 0))
     \/ conn.up.pc \in {"await", "again"} /\ conn.downq = <<>> /\ conn.server = "shut"
     \/ conn.up.pc = "again"
  /\ conn' = Over(conn)
  /\ Emits
  /\ UNCHANGED <<setting, test>>

(* The goroutine that copies the service's bytes to the client. *)
DownOver(c) ==
  IF D.reply = "relay" THEN Over([c EXCEPT !.down.pc = "run"])
  ELSE [c EXCEPT !.down.pc = "end", !.client = IF proto = "mysql" THEN "shut" ELSE @]

Splicing == D.firstOnly => conn.read > 0 /\ ~(conn.read = 1 /\ conn.up.pc = "act")

PumpDown ==
  /\ conn.down.pc = "run" /\ conn.downq # <<>> /\ Splicing
  /\ LET i == Head(conn.downq)
         c == [conn EXCEPT !.downq = Tail(@)]
     IN  IF D.both /\ i = 0
           THEN \E v \in Verdict(0, Push, TRUE) : conn' = [c EXCEPT !.down = v]
           ELSE conn' = IF c.client = "shut" \/ (D.reply = "relay" /\ D.onCancel = "polled" /\ cancelled)
                          THEN DownOver(Written(c, i)) ELSE Written(c, i)
  /\ UNCHANGED <<setting, test, report>>

ActDown ==
  /\ conn.down.pc = "act"
  /\ conn' = IF conn.handler = "over" THEN [conn EXCEPT !.down.pc = "end"]
             ELSE IF conn.client = "shut" /\ conn.down.fate = "forward" THEN DownOver(conn)
             ELSE [conn EXCEPT !.down.pc = "run"]
  /\ IF conn.down.by # 0 \/ conn.down.slow THEN Emits ELSE UNCHANGED report
  /\ UNCHANGED <<setting, test>>

PumpEnds ==
  /\ conn.down.pc = "run" /\ conn.downq = <<>> /\ Splicing
  /\ conn.server = "shut" \/ (D.reply = "relay" /\ D.deadline)
  /\ conn' = DownOver(conn)
  /\ UNCHANGED <<setting, test, report>>

(* The context is done: context.AfterFunc, the select of the splice, or
   Close of the HTTP server shuts the sockets under the handler. *)
CancelCloses ==
  /\ cancelled /\ D.onCancel = "closes" /\ conn.handler = "run" /\ (conn.client = "open" \/ conn.server = "open")
  /\ conn' = [conn EXCEPT !.client = "shut", !.server = "shut", !.upq = <<>>, !.downq = <<>>]
  /\ UNCHANGED <<setting, test, report>>

TestStep == EnsureProxy \/ builtinFaultProtocol \/ AddRule \/ PacketsRefused \/ ClearRules \/ stopMatching
Peers == Connect \/ ClientSend \/ ClientClose \/ ServerPush \/ ServerClose
Handler == ReadRequest \/ Act \/ WaitDelayCancelled \/ RelayReply \/ forwardDuplicate \/ ReadFails \/ PumpDown \/ ActDown
           \/ PumpEnds \/ CancelCloses
SystemStep == waitConns \/ ServerReply \/ Handler

Next == TestStep \/ Peers \/ SystemStep
Spec == Init /\ [][Next]_vars /\ WF_vars(SystemStep)

-----------------------------------------------------------------------------
(* Every rule of a live proxy belongs to a fault() window that is still open,
   or to one that left through a refused packet fault: ClearRules runs however
   the body ended, so no later test meets a rule nobody asked for. *)
RulesHaveAWindow ==
  entry = "up" => \A k \in DOMAIN rules : rules[k].window \in leaked \cup {windows[i].id : i \in DOMAIN windows}

(* A request is answered at most once, by a rule or by the service, and where
   replies carry no id the client reads them in the order of its requests: the
   "handled" of a rule keeps the request from the service, whatever is
   pipelined behind it. *)
AnswersMatchRequests ==
  \A j, k \in DOMAIN conn.answers :
    j < k => conn.answers[j] # conn.answers[k] /\ (D.serial => conn.answers[j] < conn.answers[k])

(* When Stop returned without a proxy_stop_timeout, the handlers are over and
   the log is complete: nothing is emitted later. The HTTP proxies do not wait
   for their handlers, and the relays' goroutines are not counted. *)
StopIsNotSilent ==
  /\ report.late => ~D.waited \/ D.legs
  /\ entry = "stopped" /\ D.waited /\ conn.handler = "run" => report.timeout

(* The proxies that wait for the reply to a message that has none. *)
Wedged == proto \in {"memcached", "mongodb", "postgres"} /\ conn.up.pc = "await" /\ script.sends[conn.up.n].kind = "quiet"

Settled(i) ==
  \/ ~Owed(i) \/ conn.handler = "over" \/ Wedged
  \/ proto = "udp" /\ conn.server = "shut"

(* Every request that has a reply gets one from the service or from a rule, or
   its connection ends; and Stop returns, whatever the connections do. Only
   the handler that waits for a reply that will not come keeps its client
   waiting. *)
ConversationSettled == entry # "stopping" /\ \A i \in 1..conn.sent : Settled(i)

=============================================================================
