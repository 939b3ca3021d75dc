----------------------------- MODULE ProxyProofs -----------------------------
(***************************************************************************)
(* What holds of a proxy (Proxy) of any protocol, under any script of      *)
(* messages and fault() calls; further down, of the step that consumes     *)
(* from a broker (Consume).                                                *)
(***************************************************************************)
EXTENDS Proxy, TLAPS

(* A fault() call under way, and a rule with the window that added it.      *)
Windows == [id : Nat, todo : Seq(RuleSpecs), packets : BOOLEAN]
Rules == [action : {"respond", "error", "delay", "drop", "duplicate"}, glob : {"*", "hot"},
          sometimes : BOOLEAN, window : Nat]

(* The test thread's part of the state: the entry, the rules and the stack. *)
TestTypes ==
    /\ entry \in {"absent", "up", "stopping", "stopped"}
    /\ rules \in Seq(Rules) /\ windows \in Seq(Windows) /\ opened \in Nat
    /\ script \in Scripts /\ proto \in Protocols

(* A proxy that was not started has no rules: windows open on a live one.   *)
WindowInv ==
    /\ TestTypes
    /\ entry = "absent" => rules = <<>>
    /\ RulesHaveAWindow

LEMMA ScriptTypes ==
    ASSUME NEW s \in Scripts
    PROVE  /\ s.sends \in Seq(Messages) /\ s.calls \in Seq(FaultCalls)
           /\ \A i \in 1..Len(s.calls) : /\ s.calls[i].rules \in Seq(RuleSpecs)
                                         /\ s.calls[i].packets \in BOOLEAN
<1>1. s.sends \in Seq(Messages) /\ s.calls \in Seq(FaultCalls)
  BY ScriptsAssumption
<1>2. \A i \in 1..Len(s.calls) : s.calls[i] \in FaultCalls
  BY <1>1
<1>3. QED
  BY <1>1, <1>2 DEF FaultCalls

(* The innermost window.                                                    *)
LEMMA TopTypes ==
    ASSUME TestTypes, windows # <<>>
    PROVE  /\ Len(windows) \in Nat \ {0} /\ DOMAIN windows = 1..Len(windows)
           /\ Len(windows) \in DOMAIN windows
           /\ top \in Windows /\ top = windows[Len(windows)]
BY DEF TestTypes, top

LEMMA FaultKeeps ==
    ASSUME WindowInv, builtinFaultProtocol PROVE WindowInv'
<1>1. opened \in Nat /\ opened + 1 \in 1..Len(script.calls)
  BY ScriptTypes DEF WindowInv, TestTypes, builtinFaultProtocol
<1>2. PICK w : w = [id |-> opened + 1, todo |-> script.calls[opened + 1].rules,
                    packets |-> script.calls[opened + 1].packets]
  BY Zenon
<1>3. w \in Windows
  BY <1>1, <1>2, ScriptTypes DEF Windows, WindowInv, TestTypes
<1>4. windows' = Append(windows, w) /\ UNCHANGED <<setting, entry, rules, leaked>> /\ opened' = opened + 1
  BY <1>2 DEF builtinFaultProtocol
<1>5. TestTypes'
  BY <1>1, <1>3, <1>4 DEF WindowInv, TestTypes, setting
<1>6. \A i \in DOMAIN windows : i \in DOMAIN windows' /\ windows'[i] = windows[i]
  BY <1>3, <1>4 DEF WindowInv, TestTypes
<1>7. QED
  BY <1>4, <1>5, <1>6 DEF WindowInv, RulesHaveAWindow

(* The rule an AddRule appends names the window it comes from.              *)
LEMMA AddRuleKeeps ==
    ASSUME WindowInv, AddRule PROVE WindowInv'
<1>1. /\ Len(windows) \in Nat \ {0} /\ DOMAIN windows = 1..Len(windows)
      /\ Len(windows) \in DOMAIN windows
      /\ top \in Windows /\ top = windows[Len(windows)]
  BY TopTypes DEF WindowInv, AddRule
<1>2. top.todo \in Seq(RuleSpecs) /\ top.todo # <<>> /\ top.id \in Nat
  BY <1>1 DEF AddRule, Windows
<1>3. Head(top.todo) \in RuleSpecs /\ Tail(top.todo) \in Seq(RuleSpecs)
  BY <1>2
<1>4. PICK r : r = [action |-> Head(top.todo).action, glob |-> Head(top.todo).glob,
                    sometimes |-> Head(top.todo).sometimes, window |-> top.id]
  BY Zenon
<1>5. r \in Rules /\ r.window = top.id
  BY <1>2, <1>3, <1>4 DEF RuleSpecs, Rules
<1>6. /\ rules' = IF entry = "up" THEN Append(rules, r) ELSE rules
      /\ windows' = [windows EXCEPT ![Len(windows)] = [top EXCEPT !.todo = Tail(top.todo)]]
      /\ UNCHANGED <<setting, entry, opened, leaked>>
  BY <1>1, <1>4 DEF AddRule
<1>7. [top EXCEPT !.todo = Tail(top.todo)] \in Windows /\ [top EXCEPT !.todo = Tail(top.todo)].id = top.id
  BY <1>1, <1>3 DEF Windows
<1>8. /\ windows' \in Seq(Windows) /\ DOMAIN windows' = DOMAIN windows
      /\ \A i \in DOMAIN windows : windows'[i].id = windows[i].id
  BY <1>1, <1>6, <1>7 DEF WindowInv, TestTypes
<1>9. TestTypes'
  BY <1>5, <1>6, <1>8 DEF WindowInv, TestTypes, setting
<1>10. RulesHaveAWindow'
  <2> SUFFICES ASSUME entry = "up", NEW k \in DOMAIN rules'
               PROVE  rules'[k].window \in leaked \cup {windows[i].id : i \in DOMAIN windows}
    BY <1>6, <1>8 DEF RulesHaveAWindow
  <2>1. rules' = Append(rules, r) /\ rules \in Seq(Rules)
    BY <1>6 DEF WindowInv, TestTypes
  <2>2. CASE k \in DOMAIN rules
    <3>1. rules'[k] = rules[k]
      BY <1>5, <2>1, <2>2
    <3>2. QED
      BY <2>2, <3>1 DEF WindowInv, RulesHaveAWindow
  <2>3. CASE k = Len(rules) + 1
    <3>1. rules'[k] = r
      BY <1>5, <2>1, <2>3
    <3>2. QED
      BY <1>1, <1>5, <3>1
  <2>4. QED
    BY <1>5, <2>1, <2>2, <2>3
<1>11. QED
  BY <1>6, <1>9, <1>10 DEF WindowInv

(* A refused packet fault unwinds every window; the rules stay only when    *)
(* the one that leaks was alone, or when the proxy is gone.                 *)
LEMMA RefusedKeeps ==
    ASSUME WindowInv, PacketsRefused PROVE WindowInv'
<1>1. /\ Len(windows) \in Nat \ {0} /\ DOMAIN windows = 1..Len(windows)
      /\ top = windows[Len(windows)]
  BY TopTypes DEF WindowInv, PacketsRefused
<1>2. windows' = <<>> /\ UNCHANGED <<setting, entry, opened>>
  BY DEF PacketsRefused
<1>3. CASE Len(windows) > 1 /\ entry = "up"
  <2>1. rules' = <<>>
    BY <1>3 DEF PacketsRefused
  <2>2. QED
    BY <1>2, <2>1 DEF WindowInv, TestTypes, setting, RulesHaveAWindow
<1>4. CASE ~(Len(windows) > 1 /\ entry = "up")
  <2>1. rules' = rules /\ leaked' = leaked \cup {top.id}
    BY <1>4 DEF PacketsRefused
  <2>2. entry = "up" => \A i \in DOMAIN windows : windows[i].id \in leaked'
    BY <1>1, <1>4, <2>1
  <2>3. TestTypes'
    BY <1>2, <2>1 DEF WindowInv, TestTypes, setting
  <2>4. QED
    BY <1>2, <2>1, <2>2, <2>3 DEF WindowInv, RulesHaveAWindow
<1>5. QED
  BY <1>3, <1>4

(* Whoever closes a window empties the interface.                           *)
LEMMA ClearKeeps ==
    ASSUME WindowInv, ClearRules PROVE WindowInv'
<1>1. Len(windows) \in Nat \ {0} /\ windows \in Seq(Windows)
  BY TopTypes DEF WindowInv, TestTypes, ClearRules
<1>2. windows' \in Seq(Windows)
  BY <1>1 DEF ClearRules, Unwound
<1>3. UNCHANGED <<setting, entry, opened>> /\ rules' = IF entry = "up" THEN <<>> ELSE rules
  BY DEF ClearRules
<1>4. TestTypes'
  BY <1>2, <1>3 DEF WindowInv, TestTypes, setting
<1>5. QED
  BY <1>3, <1>4 DEF WindowInv, RulesHaveAWindow

(* The proxy's life, and every step of the connection.                      *)
LEMMA EntryKeeps ==
    ASSUME WindowInv, UNCHANGED <<setting, rules, windows, opened, leaked>>,
           \/ entry' = entry
           \/ entry = "absent" /\ entry' = "up"
           \/ entry' \in {"stopping", "stopped"}
    PROVE  WindowInv'
BY DEF WindowInv, TestTypes, setting, RulesHaveAWindow

LEMMA WindowStep == WindowInv /\ [Next]_vars => WindowInv'
<1> SUFFICES ASSUME WindowInv, [Next]_vars PROVE WindowInv'
  OBVIOUS
<1>1. CASE EnsureProxy \/ stopMatching \/ waitConns
  BY <1>1, EntryKeeps DEF EnsureProxy, stopMatching, waitConns
<1>2. CASE Peers \/ ServerReply \/ Handler \/ UNCHANGED vars
  <2>1. UNCHANGED <<setting, test>>
    BY <1>2, Zenon DEF Peers, Handler, vars, setting, test, Connect, ClientSend, ClientClose, ServerPush, ServerClose,
                ServerReply, ReadRequest, Act, WaitDelayCancelled, RelayReply, forwardDuplicate, ReadFails,
                PumpDown, ActDown, PumpEnds, CancelCloses
  <2>2. QED
    BY <2>1, EntryKeeps DEF test
<1>3. QED
  BY <1>1, <1>2, FaultKeeps, AddRuleKeeps, RefusedKeeps, ClearKeeps DEF Next, TestStep, SystemStep

LEMMA WindowStart == Init => WindowInv
BY DEF Init, WindowInv, TestTypes, RulesHaveAWindow

(* Every rule of a live proxy belongs to a fault() window that is still     *)
(* open or that left through a refused packet fault, for any scripts of     *)
(* nested fault() calls, whatever the connections do.                       *)
THEOREM RulesBelongToAWindow == Spec => []RulesHaveAWindow
<1>1. WindowInv => RulesHaveAWindow
  BY DEF WindowInv
<1>2. QED
  BY <1>1, WindowStart, WindowStep, PTL DEF Spec

----------------------------------------------------------------------------
(* Stop and the handlers                                                    *)

Fates == {"forward", "duplicate", "answer", "last", "swallow", "close"}

Legs == [pc : {"none", "read", "act", "await", "again", "run", "end"}, n : Nat, fate : Fates, by : Nat,
         slow : BOOLEAN]

Conns == [handler : {"none", "run", "over"}, client : {"open", "shut"}, server : {"open", "shut"}, fin : BOOLEAN,
          sent : Nat, read : Nat, pushed : Nat, up : Legs, down : Legs, upq : Seq(Nat), downq : Seq(Nat),
          answers : Seq(Nat), faulted : SUBSET Nat]

(* A goroutine of a handler that is over has ended, or is a relay's that    *)
(* sleeps in a delay.                                                       *)
Ended(leg) == leg.pc \in {"none", "end"} \/ (D.legs /\ leg.pc = "act")

Settles(c) ==
    /\ c.handler = "none" => c.up.pc = "none" /\ c.down.pc = "none"
    /\ c.handler = "over" => Ended(c.up) /\ Ended(c.down)

Pcs == {"none", "read", "act", "await", "again", "run", "end"}

LEMMA LegTypes ==
    ASSUME NEW leg \in Legs, NEW x \in Pcs
    PROVE  /\ [leg EXCEPT !.pc = x] \in Legs /\ [leg EXCEPT !.pc = x].pc = x
           /\ [leg EXCEPT !.pc = x].n = leg.n /\ [leg EXCEPT !.pc = x].fate = leg.fate
BY DEF Legs, Pcs

SameLegs(c, d) == d.handler = c.handler /\ d.up = c.up /\ d.down = c.down

(* An assignment to one field of the connection.                            *)
LEMMA Assign ==
    ASSUME NEW c \in Conns
    PROVE  /\ \A x \in {"open", "shut"} :
                /\ [c EXCEPT !.client = x] \in Conns /\ SameLegs(c, [c EXCEPT !.client = x])
                /\ [c EXCEPT !.client = x].client = x
           /\ \A x \in {"open", "shut"} :
                /\ [c EXCEPT !.server = x] \in Conns /\ SameLegs(c, [c EXCEPT !.server = x])
                /\ [c EXCEPT !.server = x].server = x
           /\ \A x \in BOOLEAN :
                /\ [c EXCEPT !.fin = x] \in Conns /\ SameLegs(c, [c EXCEPT !.fin = x])
                /\ [c EXCEPT !.fin = x].fin = x
           /\ \A x \in Nat :
                /\ [c EXCEPT !.sent = x] \in Conns /\ SameLegs(c, [c EXCEPT !.sent = x])
                /\ [c EXCEPT !.sent = x].sent = x
           /\ \A x \in Nat :
                /\ [c EXCEPT !.read = x] \in Conns /\ SameLegs(c, [c EXCEPT !.read = x])
                /\ [c EXCEPT !.read = x].read = x
           /\ \A x \in Nat :
                /\ [c EXCEPT !.pushed = x] \in Conns /\ SameLegs(c, [c EXCEPT !.pushed = x])
                /\ [c EXCEPT !.pushed = x].pushed = x
           /\ \A x \in Seq(Nat) :
                /\ [c EXCEPT !.upq = x] \in Conns /\ SameLegs(c, [c EXCEPT !.upq = x])
                /\ [c EXCEPT !.upq = x].upq = x
           /\ \A x \in Seq(Nat) :
                /\ [c EXCEPT !.downq = x] \in Conns /\ SameLegs(c, [c EXCEPT !.downq = x])
                /\ [c EXCEPT !.downq = x].downq = x
           /\ \A x \in Seq(Nat) :
                /\ [c EXCEPT !.answers = x] \in Conns /\ SameLegs(c, [c EXCEPT !.answers = x])
                /\ [c EXCEPT !.answers = x].answers = x
           /\ \A x \in SUBSET Nat :
                /\ [c EXCEPT !.faulted = x] \in Conns /\ SameLegs(c, [c EXCEPT !.faulted = x])
                /\ [c EXCEPT !.faulted = x].faulted = x
<1>1. \A x \in {"open", "shut"} : /\ [c EXCEPT !.client = x] \in Conns /\ SameLegs(c, [c EXCEPT !.client = x])
                               /\ [c EXCEPT !.client = x].client = x
  BY Zenon DEF Conns, SameLegs
<1>2. \A x \in {"open", "shut"} : /\ [c EXCEPT !.server = x] \in Conns /\ SameLegs(c, [c EXCEPT !.server = x])
                               /\ [c EXCEPT !.server = x].server = x
  BY Zenon DEF Conns, SameLegs
<1>3. \A x \in BOOLEAN : /\ [c EXCEPT !.fin = x] \in Conns /\ SameLegs(c, [c EXCEPT !.fin = x])
                      /\ [c EXCEPT !.fin = x].fin = x
  BY Zenon DEF Conns, SameLegs
<1>4. \A x \in Nat : /\ [c EXCEPT !.sent = x] \in Conns /\ SameLegs(c, [c EXCEPT !.sent = x])
                  /\ [c EXCEPT !.sent = x].sent = x
  BY Zenon DEF Conns, SameLegs
<1>5. \A x \in Nat : /\ [c EXCEPT !.read = x] \in Conns /\ SameLegs(c, [c EXCEPT !.read = x])
                  /\ [c EXCEPT !.read = x].read = x
  BY Zenon DEF Conns, SameLegs
<1>6. \A x \in Nat : /\ [c EXCEPT !.pushed = x] \in Conns /\ SameLegs(c, [c EXCEPT !.pushed = x])
                  /\ [c EXCEPT !.pushed = x].pushed = x
  BY Zenon DEF Conns, SameLegs
<1>7. \A x \in Seq(Nat) : /\ [c EXCEPT !.upq = x] \in Conns /\ SameLegs(c, [c EXCEPT !.upq = x])
                       /\ [c EXCEPT !.upq = x].upq = x
  BY Zenon DEF Conns, SameLegs
<1>8. \A x \in Seq(Nat) : /\ [c EXCEPT !.downq = x] \in Conns /\ SameLegs(c, [c EXCEPT !.downq = x])
                       /\ [c EXCEPT !.downq = x].downq = x
  BY Zenon DEF Conns, SameLegs
<1>9. \A x \in Seq(Nat) : /\ [c EXCEPT !.answers = x] \in Conns /\ SameLegs(c, [c EXCEPT !.answers = x])
                       /\ [c EXCEPT !.answers = x].answers = x
  BY Zenon DEF Conns, SameLegs
<1>10. \A x \in SUBSET Nat : /\ [c EXCEPT !.faulted = x] \in Conns /\ SameLegs(c, [c EXCEPT !.faulted = x])
                          /\ [c EXCEPT !.faulted = x].faulted = x
  BY Zenon DEF Conns, SameLegs
<1>11. QED
  BY ONLY <1>1, <1>2, <1>3, <1>4, <1>5, <1>6, <1>7, <1>8, <1>9, <1>10, Zenon

LEMMA AssignLegs ==
    ASSUME NEW c \in Conns, NEW leg \in Legs
    PROVE  /\ [c EXCEPT !.up = leg] \in Conns /\ [c EXCEPT !.up = leg].up = leg
           /\ [c EXCEPT !.up = leg].handler = c.handler /\ [c EXCEPT !.up = leg].down = c.down
           /\ [c EXCEPT !.down = leg] \in Conns /\ [c EXCEPT !.down = leg].down = leg
           /\ [c EXCEPT !.down = leg].handler = c.handler /\ [c EXCEPT !.down = leg].up = c.up
<1>1. /\ [c EXCEPT !.up = leg] \in Conns /\ [c EXCEPT !.up = leg].up = leg
      /\ [c EXCEPT !.up = leg].handler = c.handler /\ [c EXCEPT !.up = leg].down = c.down
  BY Zenon DEF Conns
<1>2. /\ [c EXCEPT !.down = leg] \in Conns /\ [c EXCEPT !.down = leg].down = leg
      /\ [c EXCEPT !.down = leg].handler = c.handler /\ [c EXCEPT !.down = leg].up = c.up
  BY Zenon DEF Conns
<1>3. QED
  BY <1>1, <1>2

LEMMA AssignHandler ==
    ASSUME NEW c \in Conns, NEW x \in {"none", "run", "over"}
    PROVE  /\ [c EXCEPT !.handler = x] \in Conns /\ [c EXCEPT !.handler = x].handler = x
           /\ [c EXCEPT !.handler = x].up = c.up /\ [c EXCEPT !.handler = x].down = c.down
BY Zenon DEF Conns

LEMMA EmptyQueue == <<>> \in Seq(Nat)
OBVIOUS

(* A goroutine moves to another place of its loop.                          *)
LEMMA UpTo ==
    ASSUME NEW c \in Conns, NEW x \in Pcs
    PROVE  /\ [c EXCEPT !.up.pc = x] \in Conns
           /\ [c EXCEPT !.up.pc = x].up.pc = x
           /\ [c EXCEPT !.up.pc = x].handler = c.handler /\ [c EXCEPT !.up.pc = x].down = c.down
<1>1. c.up \in Legs
  BY DEF Conns
<1>2. PICK u \in Legs : u = [c.up EXCEPT !.pc = x] /\ u.pc = x
  BY <1>1, LegTypes, Zenon
<1>3. [c EXCEPT !.up.pc = x] = [c EXCEPT !.up = u]
  BY <1>2
<1>4. QED
  BY ONLY <1>2, <1>3, AssignLegs, c \in Conns, Zenon

LEMMA DownTo ==
    ASSUME NEW c \in Conns, NEW x \in Pcs
    PROVE  /\ [c EXCEPT !.down.pc = x] \in Conns
           /\ [c EXCEPT !.down.pc = x].down.pc = x
           /\ [c EXCEPT !.down.pc = x].handler = c.handler /\ [c EXCEPT !.down.pc = x].up = c.up
<1>1. c.down \in Legs
  BY DEF Conns
<1>2. PICK u \in Legs : u = [c.down EXCEPT !.pc = x] /\ u.pc = x
  BY <1>1, LegTypes, Zenon
<1>3. [c EXCEPT !.down.pc = x] = [c EXCEPT !.down = u]
  BY <1>2
<1>4. QED
  BY ONLY <1>2, <1>3, AssignLegs, c \in Conns, Zenon

(* handleConn returns.                                                      *)
LEMMA OverSettles ==
    ASSUME NEW c \in Conns PROVE Over(c) \in Conns /\ Settles(Over(c)) /\ Over(c).handler = "over"
<1>1. c.up \in Legs /\ c.down \in Legs
  BY DEF Conns
<1>2. PICK x : x = IF D.legs /\ c.up.pc = "act" THEN c.up.pc ELSE "end"
  OBVIOUS
<1>3. PICK y : y = IF D.legs /\ c.down.pc = "act" THEN c.down.pc ELSE "end"
  OBVIOUS
<1>4. x \in Pcs /\ y \in Pcs
  BY <1>2, <1>3 DEF Pcs
<1>5. PICK u \in Legs : u = [c.up EXCEPT !.pc = x] /\ u.pc = x
  BY <1>1, <1>4, LegTypes, Zenon
<1>6. PICK d \in Legs : d = [c.down EXCEPT !.pc = y] /\ d.pc = y
  BY <1>1, <1>4, LegTypes, Zenon
<1>7. Over(c) = [c EXCEPT !.handler = "over", !.client = "shut", !.server = "shut", !.upq = <<>>, !.downq = <<>>,
                          !.up = u, !.down = d]
  BY <1>2, <1>3, <1>5, <1>6 DEF Over
<1>8. PICK c1 \in Conns : c1 = [c EXCEPT !.handler = "over"] /\ c1.handler = "over"
  BY AssignHandler, Zenon
<1>9. PICK c2 \in Conns : c2 = [c1 EXCEPT !.client = "shut"] /\ SameLegs(c1, c2)
  BY Assign, Zenon
<1>10. PICK c3 \in Conns : c3 = [c2 EXCEPT !.server = "shut"] /\ SameLegs(c2, c3)
  BY Assign, Zenon
<1>11. PICK c4 \in Conns : c4 = [c3 EXCEPT !.upq = <<>>] /\ SameLegs(c3, c4)
  BY Assign, EmptyQueue, Zenon
<1>12. PICK c5 \in Conns : c5 = [c4 EXCEPT !.downq = <<>>] /\ SameLegs(c4, c5)
  BY Assign, EmptyQueue, Zenon
<1>13. PICK c6 \in Conns : c6 = [c5 EXCEPT !.up = u] /\ c6.handler = c5.handler /\ c6.up = u
  <2>1. /\ [c5 EXCEPT !.up = u] \in Conns /\ [c5 EXCEPT !.up = u].up = u
        /\ [c5 EXCEPT !.up = u].handler = c5.handler
    BY AssignLegs, Zenon
  <2>2. QED
    BY ONLY <2>1, Zenon
<1>14. PICK c7 \in Conns : c7 = [c6 EXCEPT !.down = d] /\ c7.handler = c6.handler /\ c7.up = c6.up /\ c7.down = d
  BY AssignLegs, Zenon
<1>15. Over(c) = c7
  BY ONLY <1>7, <1>8, <1>9, <1>10, <1>11, <1>12, <1>13, <1>14
<1>16. c7.handler = "over"
  BY ONLY <1>8, <1>9, <1>10, <1>11, <1>12, <1>13, <1>14 DEF SameLegs
<1>17. Ended(u) /\ Ended(d)
  <2>1. (x = "end" \/ (D.legs /\ x = "act")) /\ (y = "end" \/ (D.legs /\ y = "act"))
    BY <1>2, <1>3, Zenon
  <2>2. QED
    BY <1>5, <1>6, <2>1, Zenon DEF Ended
<1>18. QED
  BY <1>13, <1>14, <1>15, <1>16, <1>17 DEF Settles

(* What the switch of a protocol's walk makes of a rule is one of the fates *)
(* its handler carries out.                                                 *)
Switches(table) == \A action \in DOMAIN table : table[action] \in Fates

LEMMA WithRules == ASSUME NEW dialect, NEW table PROVE With(dialect, table).rules = table
BY DEF With

LEMMA SwitchTables ==
    /\ Switches(redis.rules)
    /\ Switches(memcached.rules)
    /\ Switches(mongodb.rules)
    /\ Switches(postgres.rules)
    /\ Switches(kafka.rules)
    /\ Switches(mysql.rules)
    /\ Switches(cassandra.rules)
    /\ Switches(amqp.rules)
    /\ Switches(nats.rules)
    /\ Switches(tcp.rules)
    /\ Switches(udp.rules)
    /\ Switches(http.rules)
    /\ Switches(http2.rules)
    /\ Switches(clickhouse.rules)
    /\ Switches(grpc.rules)
<1>1. Switches(redis.rules)
  <2>1. redis.rules = redisRules
    BY WithRules DEF redis
  <2>2. QED
    BY <2>1 DEF redisRules, Switches, Fates
<1>2. Switches(memcached.rules)
  <2>1. memcached.rules = memcachedRules
    BY WithRules DEF memcached
  <2>2. QED
    BY <2>1 DEF memcachedRules, Switches, Fates
<1>3. Switches(mongodb.rules)
  <2>1. mongodb.rules = mongodbRules
    BY WithRules DEF mongodb
  <2>2. QED
    BY <2>1 DEF mongodbRules, Switches, Fates
<1>4. Switches(postgres.rules)
  <2>1. postgres.rules = postgresRules
    BY WithRules DEF postgres
  <2>2. QED
    BY <2>1 DEF postgresRules, Switches, Fates
<1>5. Switches(kafka.rules)
  <2>1. kafka.rules = kafkaRules
    BY WithRules DEF kafka
  <2>2. QED
    BY <2>1 DEF kafkaRules, Switches, Fates
<1>6. Switches(mysql.rules)
  <2>1. mysql.rules = mysqlRules
    BY WithRules DEF mysql
  <2>2. QED
    BY <2>1 DEF mysqlRules, Switches, Fates
<1>7. Switches(cassandra.rules)
  <2>1. cassandra.rules = cassandraRules
    BY WithRules DEF cassandra
  <2>2. QED
    BY <2>1 DEF cassandraRules, Switches, Fates
<1>8. Switches(amqp.rules)
  <2>1. amqp.rules = amqpRules
    BY WithRules DEF amqp
  <2>2. QED
    BY <2>1 DEF amqpRules, Switches, Fates
<1>9. Switches(nats.rules)
  <2>1. nats.rules = natsRules
    BY WithRules DEF nats
  <2>2. QED
    BY <2>1 DEF natsRules, Switches, Fates
<1>10. Switches(tcp.rules)
  <2>1. tcp.rules = tcpRules
    BY WithRules DEF tcp
  <2>2. QED
    BY <2>1 DEF tcpRules, Switches, Fates
<1>11. Switches(udp.rules)
  <2>1. udp.rules = udpRules
    BY WithRules DEF udp
  <2>2. QED
    BY <2>1 DEF udpRules, Switches, Fates
<1>12. Switches(http.rules)
  <2>1. http.rules = httpRules
    BY WithRules DEF http
  <2>2. QED
    BY <2>1 DEF httpRules, Switches, Fates
<1>13. Switches(http2.rules)
  <2>1. http2.rules = http2Rules
    BY WithRules DEF http2
  <2>2. QED
    BY <2>1 DEF http2Rules, Switches, Fates
<1>14. Switches(clickhouse.rules)
  <2>1. clickhouse.rules = clickhouseRules
    BY WithRules DEF clickhouse
  <2>2. QED
    BY <2>1 DEF clickhouseRules, Switches, Fates
<1>15. Switches(grpc.rules)
  <2>1. grpc.rules = grpcRules
    BY WithRules DEF grpc
  <2>2. QED
    BY <2>1 DEF grpcRules, Switches, Fates
<1>16. QED
  BY <1>1, <1>2, <1>3, <1>4, <1>5, <1>6, <1>7, <1>8, <1>9, <1>10, <1>11, <1>12, <1>13, <1>14, <1>15, Zenon

LEMMA SwitchFates ==
    ASSUME NEW p \in SupportsProxy PROVE Switches(newProxy[p].rules)
<1>1. newProxy[p] \in {redis, memcached, mongodb, postgres, kafka, mysql, cassandra, amqp, nats, tcp, udp, http, http2, clickhouse, grpc}
  BY DEF SupportsProxy, newProxy
<1>2. QED
  BY <1>1, SwitchTables

(* The verdict on a message names a fate, the window of a rule, and whether *)
(* the walk met a delay.                                                    *)
LEMMA VerdictTypes ==
    ASSUME TestTypes, NEW n \in Nat, NEW message, NEW inspected \in BOOLEAN,
           NEW v \in Verdict(n, message, inspected)
    PROVE  v \in Legs
<1>1. PICK k \in IF inspected THEN Deciders(proto, rules, message) ELSE {0} :
         v = [pc |-> "act", n |-> n, fate |-> IF k = 0 THEN "forward" ELSE SwitchOn(proto, rules[k], message),
              by |-> IF k = 0 THEN 0 ELSE rules[k].window, slow |-> inspected /\ Slow(message, k)]
  BY DEF Verdict
<1>2. k = 0 \/ (k \in 1..Len(rules) /\ Stops(proto, rules[k], message))
  BY <1>1 DEF Deciders
<1>3. (inspected /\ Slow(message, k)) \in BOOLEAN
  BY Zenon
<1>4. ASSUME k # 0 PROVE SwitchOn(proto, rules[k], message) \in Fates
  <2>1. SwitchOn(proto, rules[k], message) # "goes on"
    BY <1>2, <1>4, Zenon DEF Stops
  <2>2. /\ rules[k].action \in DOMAIN newProxy[proto].rules
        /\ SwitchOn(proto, rules[k], message) = newProxy[proto].rules[rules[k].action]
    BY <2>1, Zenon DEF SwitchOn
  <2>3. proto \in SupportsProxy
    BY ProtocolsAssumption DEF TestTypes
  <2>4. QED
    BY <2>2, <2>3, SwitchFates, Zenon DEF Switches
<1>5. ASSUME k # 0 PROVE rules[k].window \in Nat
  <2>1. rules[k] \in Rules
    BY <1>2, <1>5 DEF TestTypes
  <2>2. QED
    BY <2>1 DEF Rules
<1>6. PICK f \in Fates : f = IF k = 0 THEN "forward" ELSE SwitchOn(proto, rules[k], message)
  BY <1>4 DEF Fates
<1>7. PICK b \in Nat : b = IF k = 0 THEN 0 ELSE rules[k].window
  BY <1>5
<1>8. PICK sl \in BOOLEAN : sl = (inspected /\ Slow(message, k))
  BY <1>3, Zenon
<1>9. v = [pc |-> "act", n |-> n, fate |-> f, by |-> b, slow |-> sl]
  BY <1>1, <1>6, <1>7, <1>8, Zenon
<1>10. QED
  BY <1>9 DEF Legs

(* An answer is written to the client.                                      *)
LEMMA WrittenKeeps ==
    ASSUME NEW c \in Conns, NEW k \in Nat
    PROVE  Written(c, k) \in Conns /\ SameLegs(c, Written(c, k)) 
<1>1. c.answers \in Seq(Nat)
  BY DEF Conns
<1>2. Append(c.answers, k) \in Seq(Nat)
  BY <1>1
<1>3. PICK d \in Conns : d = [c EXCEPT !.answers = Append(c.answers, k)] /\ SameLegs(c, d)
  BY <1>2, Assign, Zenon
<1>4. Written(c, k) = d \/ Written(c, k) = c
  BY <1>3 DEF Written
<1>5. QED
  BY <1>3, <1>4, Zenon DEF SameLegs

(* The handler goes back to its loop, or returns.                           *)
LEMMA LoopTopSettles ==
    ASSUME NEW c \in Conns, c.handler = "run"
    PROVE  LoopTop(c) \in Conns /\ Settles(LoopTop(c))
<1>0. "read" \in Pcs
  BY DEF Pcs
<1>1. PICK d \in Conns : d = [c EXCEPT !.up.pc = "read"] /\ d.handler = c.handler
  BY <1>0, UpTo, Zenon
<1>2. Settles(d)
  BY <1>1 DEF Settles
<1>3. LoopTop(c) = Over(d) \/ LoopTop(c) = d
  BY <1>1 DEF LoopTop
<1>4. QED
  BY <1>2, <1>3, OverSettles

LEMMA ForwardedSettles ==
    ASSUME NEW c \in Conns, c.handler = "run"
    PROVE  Forwarded(c) \in Conns /\ Settles(Forwarded(c))
<1>0. "await" \in Pcs
  BY DEF Pcs
<1>1. c.up \in Legs /\ c.upq \in Seq(Nat)
  BY DEF Conns
<1>2. c.up.n \in Nat
  BY <1>1 DEF Legs
<1>3. PICK tw : tw = (c.up.fate = "duplicate" /\ ~Awaits(c.up.n))
  OBVIOUS
<1>4. PICK q : q = c.upq \o (IF tw THEN <<c.up.n, c.up.n>> ELSE <<c.up.n>>)
  BY Zenon
<1>5. q \in Seq(Nat)
  <2>1. CASE tw
    BY <1>1, <1>2, <1>4, <2>1
  <2>2. CASE ~tw
    BY <1>1, <1>2, <1>4, <2>2
  <2>3. QED
    BY <2>1, <2>2
<1>6. PICK d \in Conns : d = [c EXCEPT !.upq = q] /\ SameLegs(c, d)
  BY <1>5, Assign, Zenon
<1>7. d.handler = "run"
  BY <1>6 DEF SameLegs
<1>8. PICK e \in Conns : e = [d EXCEPT !.up.pc = "await"] /\ e.handler = d.handler
  BY <1>0, UpTo, Zenon
<1>9. PICK b \in Conns : b = [c EXCEPT !.up.pc = "read"]
  BY UpTo, Zenon DEF Pcs
<1>10. Settles(e)
  BY <1>7, <1>8 DEF Settles
<1>11. Forwarded(c) \in {Over(b), e, LoopTop(d)}
  BY <1>3, <1>4, <1>6, <1>8, <1>9, Zenon DEF Forwarded
<1>12. QED
  BY <1>7, <1>10, <1>11, OverSettles, LoopTopSettles

(* The verdict is carried out.                                              *)
LEMMA CarriedOutSettles ==
    ASSUME NEW c \in Conns, c.handler = "run"
    PROVE  CarriedOut(c) \in Conns /\ Settles(CarriedOut(c))
<1>1. c.up \in Legs /\ c.faulted \in SUBSET Nat
  BY DEF Conns
<1>2. c.up.n \in Nat /\ c.up.fate \in Fates
  BY <1>1 DEF Legs
<1>3. c.faulted \cup {c.up.n} \in SUBSET Nat
  BY <1>1, <1>2
<1>4. PICK hit \in Conns : hit = [c EXCEPT !.faulted = c.faulted \cup {c.up.n}] /\ SameLegs(c, hit)
  BY <1>3, Assign, Zenon
<1>5. PICK w \in Conns : w = Written(hit, c.up.n) /\ SameLegs(hit, w)
  BY <1>2, WrittenKeeps
<1>6. PICK shut \in Conns : shut = [hit EXCEPT !.client = "shut"] /\ SameLegs(hit, shut)
  BY Assign, Zenon
<1>7. hit.handler = "run" /\ w.handler = "run" /\ shut.handler = "run"
  BY <1>4, <1>5, <1>6 DEF SameLegs
<1>8. PICK b \in Conns : b = [w EXCEPT !.up.pc = "read"]
  BY UpTo, Zenon DEF Pcs
<1>9. PICK e \in Conns : e = [shut EXCEPT !.up.pc = "read"]
  BY UpTo, Zenon DEF Pcs
<1>10. CarriedOut(c) \in {Forwarded(c), LoopTop(w), Over(b), LoopTop(hit), LoopTop(shut), Over(e)}
  <2>1. CASE c.up.fate \in {"forward", "duplicate"}
    BY <2>1 DEF CarriedOut
  <2>2. CASE c.up.fate = "answer"
    BY <2>2, <1>4, <1>5 DEF CarriedOut
  <2>3. CASE c.up.fate = "last"
    BY <2>3, <1>4, <1>5, <1>8 DEF CarriedOut
  <2>4. CASE c.up.fate = "swallow"
    BY <2>4, <1>4 DEF CarriedOut
  <2>5. CASE c.up.fate = "close"
    BY <2>5, <1>4, <1>6, <1>9 DEF CarriedOut
  <2>6. QED
    BY <1>2, <2>1, <2>2, <2>3, <2>4, <2>5 DEF Fates
<1>11. QED
  BY <1>7, <1>10, ForwardedSettles, LoopTopSettles, OverSettles

(* The goroutine that copies the replies ends, alone or with its handler.   *)
LEMMA DownOverSettles ==
    ASSUME NEW c \in Conns, c.handler = "run"
    PROVE  DownOver(c) \in Conns /\ Settles(DownOver(c))
<1>0. "run" \in Pcs /\ "end" \in Pcs
  BY DEF Pcs
<1>1. PICK d \in Conns : d = [c EXCEPT !.down.pc = "run"]
  BY <1>0, DownTo, Zenon
<1>2. PICK e \in Conns : e = [c EXCEPT !.down.pc = "end"] /\ e.handler = c.handler
  BY <1>0, DownTo, Zenon
<1>3. PICK x \in {"open", "shut"} : x = IF proto = "mysql" THEN "shut" ELSE c.client
  BY DEF Conns
<1>4. PICK f \in Conns : f = [e EXCEPT !.client = x] /\ SameLegs(e, f)
  BY Assign, Zenon
<1>5. Settles(f)
  BY <1>2, <1>4 DEF SameLegs, Settles
<1>6. DownOver(c) = Over(d) \/ DownOver(c) = f
  BY <1>1, <1>2, <1>3, <1>4 DEF DownOver
<1>7. QED
  BY <1>5, <1>6, OverSettles

(* The connection's part of the invariant.                                  *)
ConnInv == conn \in Conns /\ Settles(conn)

(* What a step of the connection may do: the handler is not revived, and an *)
(* event comes from a handler that runs or from a relay's goroutine.        *)
Moves ==
    /\ UNCHANGED <<setting, test>>
    /\ conn' \in Conns /\ Settles(conn')
    /\ conn.handler # "run" => conn'.handler = conn.handler
    /\ UNCHANGED report \/ (Emits /\ (conn.handler = "run" \/ D.legs))

(* A goroutine that is under way belongs to a handler that runs.            *)
LEMMA UnderWay ==
    ASSUME ConnInv
    PROVE  /\ conn.up.pc \in {"read", "await", "again"} => conn.handler = "run"
           /\ conn.down.pc \in {"run"} => conn.handler = "run"
           /\ conn.up.pc = "act" => conn.handler = "run" \/ (conn.handler = "over" /\ D.legs)
           /\ conn.down.pc = "act" => conn.handler = "run" \/ (conn.handler = "over" /\ D.legs)
<1>1. conn.handler \in {"none", "run", "over"}
  BY DEF ConnInv, Conns
<1>2. /\ conn.handler = "none" => conn.up.pc = "none" /\ conn.down.pc = "none"
      /\ conn.handler = "over" => Ended(conn.up) /\ Ended(conn.down)
  BY Zenon DEF ConnInv, Settles
<1>3. /\ Ended(conn.up) => conn.up.pc \in {"none", "end"} \/ (D.legs /\ conn.up.pc = "act")
      /\ Ended(conn.down) => conn.down.pc \in {"none", "end"} \/ (D.legs /\ conn.down.pc = "act")
  BY Zenon DEF Ended
<1>4. QED
  BY <1>1, <1>2, <1>3

(* The client and the service leave the goroutines where they are.          *)
LEMMA SameSettles ==
    ASSUME NEW c \in Conns, NEW d \in Conns, Settles(c), SameLegs(c, d) PROVE Settles(d)
BY DEF SameLegs, Settles

LEMMA PeersMove ==
    ASSUME ConnInv, TestTypes, ClientSend \/ ClientClose \/ ServerReply \/ ServerPush \/ ServerClose \/ CancelCloses
    PROVE  Moves
<1>1. UNCHANGED <<setting, test, report>>
  BY DEF ClientSend, ClientClose, ServerReply, ServerPush, ServerClose, CancelCloses
<1>2. conn \in Conns /\ conn.sent \in Nat /\ conn.pushed \in Nat /\ conn.upq \in Seq(Nat) /\ conn.downq \in Seq(Nat)
  BY DEF ConnInv, Conns
<1>3. conn' \in Conns /\ SameLegs(conn, conn')
  <2>1. CASE ClientSend
    <3>1. conn.sent + 1 \in Nat /\ conn' = [conn EXCEPT !.sent = conn.sent + 1]
      BY <1>2, <2>1 DEF ClientSend
    <3>2. QED
      BY <1>2, <3>1, Assign, Zenon
  <2>2. CASE ClientClose
    <3>1. conn' = [conn EXCEPT !.fin = TRUE] /\ TRUE \in BOOLEAN
      BY <2>2 DEF ClientClose
    <3>2. QED
      BY <1>2, <3>1, Assign, Zenon
  <2>3. CASE ServerReply
    <3>1. Tail(conn.upq) \in Seq(Nat) /\ Head(conn.upq) \in Nat
      BY <1>2, <2>3 DEF ServerReply
    <3>2. PICK q \in Seq(Nat) :
             q = IF script.sends[Head(conn.upq)].kind \in {"quiet", "bare"} THEN conn.downq
                 ELSE Append(conn.downq, Head(conn.upq))
      <4>1. conn.downq \in Seq(Nat) /\ Append(conn.downq, Head(conn.upq)) \in Seq(Nat)
        BY <1>2, <3>1
      <4>2. QED
        BY <4>1, Zenon
    <3>3. PICK c \in Conns : c = [conn EXCEPT !.upq = Tail(conn.upq)] /\ SameLegs(conn, c)
      BY <1>2, <3>1, Assign, Zenon
    <3>4. PICK d \in Conns : d = [c EXCEPT !.downq = q] /\ SameLegs(c, d)
      BY Assign, Zenon
    <3>5. conn' = [conn EXCEPT !.upq = Tail(conn.upq), !.downq = q]
      BY <2>3, <3>2 DEF ServerReply
    <3>6. QED
      BY <3>3, <3>4, <3>5 DEF SameLegs
  <2>4. CASE ServerPush
    <3>1. conn.pushed + 1 \in Nat /\ Append(conn.downq, 0) \in Seq(Nat)
      BY <1>2
    <3>2. PICK c \in Conns : c = [conn EXCEPT !.pushed = conn.pushed + 1] /\ SameLegs(conn, c)
      BY <1>2, <3>1, Assign, Zenon
    <3>3. PICK d \in Conns : d = [c EXCEPT !.downq = Append(conn.downq, 0)] /\ SameLegs(c, d)
      BY <3>1, Assign, Zenon
    <3>4. conn' = [conn EXCEPT !.pushed = conn.pushed + 1, !.downq = Append(conn.downq, 0)]
      BY <2>4 DEF ServerPush
    <3>5. QED
      BY <3>2, <3>3, <3>4 DEF SameLegs
  <2>5. CASE ServerClose
    <3>1. PICK c \in Conns : c = [conn EXCEPT !.server = "shut"] /\ SameLegs(conn, c)
      BY <1>2, Assign, Zenon
    <3>2. PICK d \in Conns : d = [c EXCEPT !.upq = <<>>] /\ SameLegs(c, d)
      BY EmptyQueue, Assign, Zenon
    <3>3. conn' = [conn EXCEPT !.server = "shut", !.upq = <<>>]
      BY <2>5 DEF ServerClose
    <3>4. QED
      BY <3>1, <3>2, <3>3 DEF SameLegs
  <2>6. CASE CancelCloses
    <3>1. PICK c \in Conns : c = [conn EXCEPT !.client = "shut"] /\ SameLegs(conn, c)
      BY <1>2, Assign, Zenon
    <3>2. PICK d \in Conns : d = [c EXCEPT !.server = "shut"] /\ SameLegs(c, d)
      BY Assign, Zenon
    <3>3. PICK e \in Conns : e = [d EXCEPT !.upq = <<>>] /\ SameLegs(d, e)
      BY EmptyQueue, Assign, Zenon
    <3>4. PICK f \in Conns : f = [e EXCEPT !.downq = <<>>] /\ SameLegs(e, f)
      BY EmptyQueue, Assign, Zenon
    <3>5. conn' = [conn EXCEPT !.client = "shut", !.server = "shut", !.upq = <<>>, !.downq = <<>>]
      BY <2>6 DEF CancelCloses
    <3>6. QED
      BY <3>1, <3>2, <3>3, <3>4, <3>5 DEF SameLegs
  <2>7. QED
    BY <2>1, <2>2, <2>3, <2>4, <2>5, <2>6
<1>4. Settles(conn')
  BY <1>2, <1>3, SameSettles DEF ConnInv
<1>5. QED
  BY <1>1, <1>3, <1>4 DEF Moves, SameLegs

(* A step of a running handler that leaves a settled connection.            *)
LEMMA RunMoves ==
    ASSUME conn.handler = "run", UNCHANGED <<setting, test>>, UNCHANGED report \/ Emits,
           conn' \in Conns, Settles(conn')
    PROVE  Moves
BY DEF Moves

(* The handler's own steps.                                                 *)
LEMMA ReadMoves ==
    ASSUME ConnInv, TestTypes, ReadRequest PROVE Moves
<1>1. conn.handler = "run" /\ conn \in Conns
  BY UnderWay DEF ReadRequest, ConnInv
<1>2. conn.read + 1 \in Nat
  BY <1>1 DEF Conns
<1>3. PICK v \in Verdict(conn.read + 1, script.sends[conn.read + 1], Inspected(conn.read + 1)) :
         conn' = [conn EXCEPT !.read = conn.read + 1, !.up = v]
  BY Zenon DEF ReadRequest
<1>4. Inspected(conn.read + 1) \in BOOLEAN
  BY Zenon DEF Inspected
<1>5. v \in Legs
  BY <1>2, <1>3, <1>4, VerdictTypes
<1>6. PICK c \in Conns : c = [conn EXCEPT !.read = conn.read + 1] /\ SameLegs(conn, c)
  BY <1>1, <1>2, Assign, Zenon
<1>7. PICK d \in Conns : d = [c EXCEPT !.up = v] /\ d.handler = c.handler
  BY <1>5, AssignLegs, Zenon
<1>8. conn' = d /\ d.handler = "run"
  BY <1>1, <1>3, <1>6, <1>7 DEF SameLegs
<1>9. QED
  BY <1>1, <1>8, RunMoves DEF Settles, ReadRequest

LEMMA ActMoves ==
    ASSUME ConnInv, TestTypes, Act PROVE Moves
<1>1. conn \in Conns
  BY DEF ConnInv
<1>2. conn.handler = "run" \/ (conn.handler = "over" /\ D.legs)
  BY UnderWay DEF Act
<1>3. UNCHANGED <<setting, test>> /\ (UNCHANGED report \/ Emits)
  BY DEF Act
<1>4. CASE conn.handler = "run"
  <2>1. conn' = CarriedOut(conn)
    BY <1>4 DEF Act
  <2>2. QED
    BY <1>1, <1>3, <1>4, <2>1, CarriedOutSettles, RunMoves
<1>5. CASE conn.handler = "over" /\ D.legs
  <2>1. conn' = [conn EXCEPT !.up.pc = "end"]
    BY <1>5 DEF Act
  <2>2. "end" \in Pcs
    BY DEF Pcs
  <2>3. /\ conn' \in Conns /\ conn'.up.pc = "end"
        /\ conn'.handler = conn.handler /\ conn'.down = conn.down
    BY <1>1, <2>1, <2>2, UpTo
  <2>4. Ended(conn'.up) /\ Ended(conn'.down)
    BY <1>5, <2>3 DEF Ended, ConnInv, Settles
  <2>5. Settles(conn')
    BY <1>5, <2>3, <2>4 DEF Settles
  <2>6. QED
    BY <1>3, <1>5, <2>3, <2>5 DEF Moves
<1>6. QED
  BY <1>2, <1>4, <1>5

LEMMA CancelledMoves ==
    ASSUME ConnInv, TestTypes, WaitDelayCancelled PROVE Moves
<1>1. conn \in Conns
  BY DEF ConnInv
<1>2. conn.handler = "run" \/ (conn.handler = "over" /\ D.legs)
  BY UnderWay DEF WaitDelayCancelled
<1>3. UNCHANGED <<setting, test>> /\ Emits
  BY DEF WaitDelayCancelled
<1>4. conn.up \in Legs /\ conn.faulted \in SUBSET Nat
  BY <1>1 DEF Conns
<1>5. conn.up.n \in Nat
  BY <1>4 DEF Legs
<1>6. conn.faulted \cup {conn.up.n} \in SUBSET Nat
  BY <1>4, <1>5
<1>7. PICK c \in Conns : c = [conn EXCEPT !.faulted = conn.faulted \cup {conn.up.n}]
  BY <1>1, <1>6, Assign, Zenon
<1>8. PICK d \in Conns : d = Written(c, conn.up.n)
  BY <1>5, WrittenKeeps
<1>9. conn' = Over(d)
  BY <1>7, <1>8 DEF WaitDelayCancelled
<1>10. QED
  BY <1>2, <1>3, <1>9, OverSettles DEF Moves

LEMMA RelayMoves ==
    ASSUME ConnInv, TestTypes, RelayReply PROVE Moves
<1>1. conn.handler = "run" /\ conn \in Conns
  BY UnderWay DEF RelayReply, ConnInv
<1>2. conn.downq \in Seq(Nat) /\ conn.upq \in Seq(Nat) /\ conn.up \in Legs
  BY <1>1 DEF Conns
<1>3. Tail(conn.downq) \in Seq(Nat) /\ Head(conn.downq) \in Nat /\ conn.up.n \in Nat
  BY <1>2 DEF RelayReply, Legs
<1>4. PICK b \in Conns : b = [conn EXCEPT !.downq = Tail(conn.downq)] /\ SameLegs(conn, b)
  BY <1>1, <1>3, Assign, Zenon
<1>5. PICK c \in Conns : c = Written(b, Head(conn.downq)) /\ SameLegs(b, c)
  BY <1>3, WrittenKeeps
<1>6. c.handler = "run" /\ c.upq \in Seq(Nat)
  BY <1>1, <1>4, <1>5, Zenon DEF SameLegs, Conns
<1>7. Append(c.upq, conn.up.n) \in Seq(Nat)
  BY <1>3, <1>6
<1>8. PICK d \in Conns : d = [c EXCEPT !.upq = Append(c.upq, conn.up.n)] /\ SameLegs(c, d)
  BY <1>7, Assign, Zenon
<1>9. "again" \in Pcs
  BY DEF Pcs
<1>10. PICK e \in Conns : e = [d EXCEPT !.up.pc = "again"] /\ e.handler = d.handler
  BY <1>9, UpTo, Zenon
<1>11. Settles(e)
  BY <1>6, <1>8, <1>10 DEF SameLegs, Settles
<1>12. e = [c EXCEPT !.upq = Append(c.upq, conn.up.n), !.up.pc = "again"]
  BY <1>8, <1>10
<1>13. conn' = LoopTop(c) \/ conn' = Over(c) \/ conn' = e
  BY <1>4, <1>5, <1>12 DEF RelayReply
<1>14. conn' \in Conns /\ Settles(conn')
  BY <1>6, <1>11, <1>13, LoopTopSettles, OverSettles
<1>15. QED
  BY <1>1, <1>14, RunMoves DEF RelayReply

LEMMA DuplicateMoves ==
    ASSUME ConnInv, TestTypes, forwardDuplicate PROVE Moves
<1>1. conn.handler = "run" /\ conn \in Conns
  BY UnderWay DEF forwardDuplicate, ConnInv
<1>2. conn.downq \in Seq(Nat)
  BY <1>1 DEF Conns
<1>3. Tail(conn.downq) \in Seq(Nat)
  BY <1>2 DEF forwardDuplicate
<1>4. PICK b \in Conns : b = [conn EXCEPT !.downq = Tail(conn.downq)] /\ SameLegs(conn, b)
  BY <1>1, <1>3, Assign, Zenon
<1>5. b.handler = "run" /\ conn' = LoopTop(b)
  BY <1>1, <1>4 DEF SameLegs, forwardDuplicate
<1>6. QED
  BY <1>1, <1>5, LoopTopSettles, RunMoves DEF forwardDuplicate

LEMMA FailsMoves ==
    ASSUME ConnInv, TestTypes, ReadFails PROVE Moves
<1>1. conn.handler = "run" /\ conn \in Conns /\ conn' = Over(conn) /\ Emits /\ UNCHANGED <<setting, test>>
  BY DEF ReadFails, ConnInv
<1>2. QED
  BY <1>1, OverSettles, RunMoves

LEMMA PumpMoves ==
    ASSUME ConnInv, TestTypes, PumpDown PROVE Moves
<1>1. conn.handler = "run" /\ conn \in Conns
  BY UnderWay, Zenon DEF PumpDown, ConnInv
<1>2. conn.downq \in Seq(Nat) /\ conn.downq # <<>>
  BY <1>1, Zenon DEF Conns, PumpDown
<1>3. Tail(conn.downq) \in Seq(Nat) /\ Head(conn.downq) \in Nat
  BY <1>2
<1>4. PICK b \in Conns : b = [conn EXCEPT !.downq = Tail(conn.downq)] /\ SameLegs(conn, b)
  BY <1>1, <1>3, Assign, Zenon
<1>5. PICK c \in Conns : c = Written(b, Head(conn.downq)) /\ SameLegs(b, c)
  BY <1>3, WrittenKeeps
<1>6. c.handler = "run" /\ b.handler = "run"
  BY <1>1, <1>4, <1>5 DEF SameLegs
<1>7. \/ \E v \in Verdict(0, Push, TRUE) : conn' = [b EXCEPT !.down = v]
      \/ conn' = DownOver(c)
      \/ conn' = c
  BY <1>4, <1>5, Zenon DEF PumpDown
<1>8. ASSUME NEW v \in Verdict(0, Push, TRUE), conn' = [b EXCEPT !.down = v]
      PROVE  conn' \in Conns /\ Settles(conn')
  <2>1. v \in Legs
    <3>1. 0 \in Nat /\ TRUE \in BOOLEAN
      OBVIOUS
    <3>2. QED
      BY <3>1, VerdictTypes, Zenon
  <2>2. conn' \in Conns /\ conn'.handler = b.handler
    BY <1>8, <2>1, AssignLegs, Zenon
  <2>3. QED
    BY <1>6, <2>2 DEF Settles
<1>9. Settles(c)
  BY <1>6 DEF Settles
<1>10. conn' \in Conns /\ Settles(conn')
  BY <1>6, <1>7, <1>8, <1>9, DownOverSettles, Zenon
<1>11. QED
  BY <1>1, <1>10, RunMoves, Zenon DEF PumpDown

LEMMA ActDownMoves ==
    ASSUME ConnInv, TestTypes, ActDown PROVE Moves
<1>1. conn \in Conns
  BY DEF ConnInv
<1>2. conn.handler = "run" \/ (conn.handler = "over" /\ D.legs)
  BY UnderWay DEF ActDown
<1>3. UNCHANGED <<setting, test>> /\ (UNCHANGED report \/ Emits)
  BY DEF ActDown
<1>4. "end" \in Pcs /\ "run" \in Pcs
  BY DEF Pcs
<1>5. CASE conn.handler = "run"
  <2>1. PICK d \in Conns : d = [conn EXCEPT !.down.pc = "run"] /\ d.handler = conn.handler
    BY <1>1, <1>4, DownTo, Zenon
  <2>2. Settles(d)
    BY <1>5, <2>1 DEF Settles
  <2>3. conn' = DownOver(conn) \/ conn' = d
    BY <1>5, <2>1 DEF ActDown
  <2>4. QED
    BY <1>1, <1>3, <1>5, <2>2, <2>3, DownOverSettles, RunMoves
<1>6. CASE conn.handler = "over" /\ D.legs
  <2>1. conn' = [conn EXCEPT !.down.pc = "end"]
    BY <1>6 DEF ActDown
  <2>2. /\ conn' \in Conns /\ conn'.down.pc = "end"
        /\ conn'.handler = conn.handler /\ conn'.up = conn.up
    BY <1>1, <1>4, <2>1, DownTo
  <2>3. Ended(conn'.up) /\ Ended(conn'.down)
    BY <1>6, <2>2 DEF Ended, ConnInv, Settles
  <2>4. Settles(conn')
    BY <1>6, <2>2, <2>3 DEF Settles
  <2>5. QED
    BY <1>3, <1>6, <2>2, <2>4 DEF Moves
<1>7. QED
  BY <1>2, <1>5, <1>6

LEMMA PumpEndsMoves ==
    ASSUME ConnInv, TestTypes, PumpEnds PROVE Moves
<1>1. conn.handler = "run" /\ conn \in Conns
  BY UnderWay DEF PumpEnds, ConnInv
<1>2. conn' = DownOver(conn) /\ UNCHANGED <<setting, test, report>>
  BY DEF PumpEnds
<1>3. QED
  BY <1>1, <1>2, DownOverSettles, RunMoves

(* A connection is accepted; a failed dial leaves a handler that is over    *)
(* and has no goroutines.                                                   *)
LEMMA ConnectSettles ==
    ASSUME ConnInv, TestTypes, Connect
    PROVE  conn' \in Conns /\ Settles(conn')
<1>1. conn \in Conns /\ conn.handler = "none" /\ conn.up.pc = "none" /\ conn.down.pc = "none"
  BY DEF ConnInv, Settles, Connect
<1>2. PICK y \in Pcs : y = IF D.reply = "lockstep" THEN "none" ELSE "run"
  BY DEF Pcs
<1>3. "read" \in Pcs
  BY DEF Pcs
<1>4. PICK c1 \in Conns : c1 = [conn EXCEPT !.handler = "run"] /\ c1.handler = "run"
  BY <1>1, AssignHandler, Zenon
<1>5. PICK c2 \in Conns : c2 = [c1 EXCEPT !.client = "open"] /\ SameLegs(c1, c2)
  BY Assign, Zenon
<1>6. PICK c3 \in Conns : c3 = [c2 EXCEPT !.server = "open"] /\ SameLegs(c2, c3)
  BY Assign, Zenon
<1>7. PICK c4 \in Conns : c4 = [c3 EXCEPT !.up.pc = "read"] /\ c4.handler = c3.handler
  BY <1>3, UpTo, Zenon
<1>8. PICK c5 \in Conns : c5 = [c4 EXCEPT !.down.pc = y] /\ c5.handler = c4.handler
  BY DownTo, Zenon
<1>9. c5.handler = "run"
  BY ONLY <1>4, <1>5, <1>6, <1>7, <1>8 DEF SameLegs
<1>10. PICK d \in Conns : d = [conn EXCEPT !.handler = "over"] /\ d.handler = "over" /\ d.up = conn.up /\ d.down = conn.down
  BY <1>1, AssignHandler, Zenon
<1>11. \/ conn' = [conn EXCEPT !.handler = "run", !.client = "open", !.server = "open", !.up.pc = "read", !.down.pc = y]
       \/ conn' = d
  BY <1>2, <1>10 DEF Connect
<1>12. c5 = [conn EXCEPT !.handler = "run", !.client = "open", !.server = "open", !.up.pc = "read", !.down.pc = y]
  BY ONLY <1>4, <1>5, <1>6, <1>7, <1>8
<1>13. Settles(c5)
  BY <1>9 DEF Settles
<1>14. Settles(d)
  BY <1>1, <1>10 DEF Settles, Ended
<1>15. QED
  BY <1>11, <1>12, <1>13, <1>14

(* The inductive invariant: what the goroutines of a handler that is over   *)
(* may still do, and what Stop has reported of a handler that is not.       *)
StopInv ==
    /\ ConnInv
    /\ report \in [timeout : BOOLEAN, late : BOOLEAN]
    /\ StopIsNotSilent

(* A step of the connection: with every goroutine counted, an event after   *)
(* Stop comes from a handler that Stop has reported.                        *)
LEMMA MovesKeep ==
    ASSUME StopInv, Moves PROVE StopInv'
<1>1. UNCHANGED <<proto, entry>> /\ UNCHANGED D
  BY DEF Moves, setting, test, D
<1>2. ConnInv'
  BY <1>1 DEF Moves, ConnInv, Settles, Ended
<1>3. report' \in [timeout : BOOLEAN, late : BOOLEAN] /\ report'.timeout = report.timeout
  <2>1. CASE UNCHANGED report
    BY <2>1 DEF StopInv
  <2>2. CASE Emits
    <3>1. (report.late \/ (entry = "stopped" /\ ~report.timeout)) \in BOOLEAN
      BY Zenon
    <3>2. QED
      BY <2>2, <3>1, Zenon DEF Emits, StopInv
  <2>3. QED
    BY <2>1, <2>2 DEF Moves
<1>4. ASSUME entry' = "stopped", D'.waited, conn'.handler = "run" PROVE report'.timeout
  <2>1. conn.handler = "run"
    BY <1>4 DEF Moves
  <2>2. QED
    BY <1>1, <1>3, <1>4, <2>1 DEF StopInv, StopIsNotSilent
<1>5. ASSUME report'.late, D'.waited, ~D'.legs PROVE FALSE
  <2>1. ~report.late
    BY <1>1, <1>5 DEF StopInv, StopIsNotSilent
  <2>2. Emits /\ conn.handler = "run"
    BY <1>1, <1>5, <2>1 DEF Moves
  <2>3. entry = "stopped" /\ ~report.timeout
    BY <1>5, <2>1, <2>2 DEF Emits, StopInv
  <2>4. QED
    BY <1>1, <1>5, <2>2, <2>3 DEF StopInv, StopIsNotSilent
<1>6. QED
  BY <1>2, <1>3, <1>4, <1>5 DEF StopInv, StopIsNotSilent

LEMMA StopStep == StopInv /\ WindowInv /\ [Next]_vars => StopInv'
<1> SUFFICES ASSUME StopInv, WindowInv, [Next]_vars PROVE StopInv'
  OBVIOUS
<1>1. ConnInv /\ TestTypes
  BY DEF StopInv, WindowInv
<1>2. CASE \/ ClientSend \/ ClientClose \/ ServerReply \/ ServerPush \/ ServerClose \/ Handler
  <2>1. Moves
    BY <1>1, <1>2, PeersMove, ReadMoves, ActMoves, CancelledMoves, RelayMoves, DuplicateMoves, FailsMoves,
       PumpMoves, ActDownMoves, PumpEndsMoves DEF Handler
  <2>2. QED
    BY <2>1, MovesKeep
<1>3. CASE Connect
  <2>1. conn' \in Conns /\ Settles(conn')
    BY <1>1, <1>3, ConnectSettles
  <2>2. UNCHANGED <<proto, entry, report>> /\ UNCHANGED D /\ entry = "up"
    BY <1>3 DEF Connect, setting, test, D
  <2>3. ConnInv'
    BY <2>1, <2>2 DEF ConnInv, Settles, Ended
  <2>4. QED
    BY <2>2, <2>3 DEF StopInv, StopIsNotSilent
<1>4. CASE waitConns
  <2>1. UNCHANGED <<proto, conn>> /\ UNCHANGED D /\ entry' = "stopped"
    BY <1>4 DEF waitConns, setting, D
  <2>2. ConnInv'
    BY <2>1 DEF StopInv, ConnInv, Settles, Ended
  <2>3. Counted \in BOOLEAN
    BY Zenon DEF Counted
  <2>4. /\ report' \in [timeout : BOOLEAN, late : BOOLEAN]
        /\ report'.timeout = Counted /\ report'.late = report.late
    BY <1>4, <2>3 DEF waitConns, StopInv
  <2>5. QED
    BY <2>1, <2>2, <2>4 DEF StopInv, StopIsNotSilent, Counted
<1>5. CASE \/ EnsureProxy \/ stopMatching \/ builtinFaultProtocol \/ AddRule \/ PacketsRefused \/ ClearRules
           \/ UNCHANGED vars
  <2>1. /\ UNCHANGED <<proto, conn, report>> /\ UNCHANGED D
        /\ entry' = entry \/ entry' # "stopped"
    BY <1>5 DEF EnsureProxy, stopMatching, builtinFaultProtocol, AddRule, PacketsRefused, ClearRules, vars, setting, D
  <2>2. ConnInv'
    BY <2>1 DEF StopInv, ConnInv, Settles, Ended
  <2>3. QED
    BY <2>1, <2>2 DEF StopInv, StopIsNotSilent
<1>6. QED
  BY <1>2, <1>3, <1>4, <1>5 DEF Next, TestStep, Peers, SystemStep

LEMMA StopStart == Init => StopInv
<1> SUFFICES ASSUME Init PROVE StopInv
  OBVIOUS
<1>1. Idle \in Legs /\ Idle.pc = "none"
  BY DEF Idle, Legs, Fates
<1>2. PICK leg \in Legs : leg = Idle /\ leg.pc = "none"
  BY <1>1
<1>3. PICK e \in Seq(Nat) : e = <<>>
  BY EmptyQueue, Zenon
<1>4. conn = [handler |-> "none", client |-> "shut", server |-> "shut", fin |-> FALSE, sent |-> 0, read |-> 0,
              pushed |-> 0, up |-> leg, down |-> leg, upq |-> e, downq |-> e, answers |-> e, faulted |-> {}]
  BY <1>2, <1>3 DEF Init, NoConn
<1>5. conn \in Conns /\ conn.up = leg /\ conn.down = leg /\ conn.handler = "none"
  BY <1>4 DEF Conns
<1>6. QED
  BY <1>2, <1>5 DEF Init, StopInv, ConnInv, Settles, StopIsNotSilent

(* When Stop returned without a proxy_stop_timeout, nothing a handler does  *)
(* is logged later, for every protocol whose Stop waits for its handlers    *)
(* and whose goroutines it counts; and a handler it waited for in vain is   *)
(* reported, whatever the rules, the client and the service do.             *)
THEOREM StopReports == Spec => []StopIsNotSilent
<1>1. Init => WindowInv /\ StopInv
  BY WindowStart, StopStart
<1>2. (WindowInv /\ StopInv) /\ [Next]_vars => (WindowInv /\ StopInv)'
  BY WindowStep, StopStep
<1>3. WindowInv /\ StopInv => StopIsNotSilent
  BY DEF StopInv
<1>4. QED
  BY <1>1, <1>2, <1>3, PTL DEF Spec

----------------------------------------------------------------------------
(* consume_many commits nothing the spec did not get, for every topic and   *)
(* every bound of the call (Consume).                                       *)

CONSTANTS Topics, MaxRecords, IdlePolls, Timeout

VARIABLES topic, clock, idle, assigned, blocked, batch, records, committed, offset, stop

K == INSTANCE Consume WITH Idle <- IdlePolls

(* While the call runs what it returned is what it committed.               *)
Running ==
    stop \in {"args", "none"} => Len(records) = offset /\ committed = offset

(* A batch that was polled continues where the offset stands.               *)
BatchIsNext ==
    stop = "none" /\ blocked =>
        /\ batch \in Seq(Nat) /\ offset + Len(batch) <= Len(topic)
        /\ \A i \in 1..Len(batch) : batch[i] = offset + i

(* The inductive invariant.                                                 *)
ConsumeInv ==
    /\ topic \in Seq({"good", "bad"}) /\ records \in Seq(Nat)
    /\ offset \in Nat /\ committed \in Nat
    /\ stop = "args" => ~blocked
    /\ offset <= Len(topic)
    /\ Running /\ BatchIsNext /\ K!CommittedWereReturned

(* A step that leaves the records and the offsets alone.                    *)
LEMMA QuietPreserves ==
  ASSUME ConsumeInv, UNCHANGED <<topic, batch, records, committed, offset>>,
         stop' # "args" \/ (stop = "args" /\ ~blocked'),
         stop' = "none" => stop \in {"args", "none"} /\ blocked' = blocked
  PROVE  ConsumeInv'
BY DEF ConsumeInv, Running, BatchIsNext, K!CommittedWereReturned

(* A poll takes the records after the offset.                               *)
LEMMA PollPreserves == ASSUME K!ConsumeConstants, ConsumeInv, K!Poll PROVE ConsumeInv'
<1>1. CASE UNCHANGED <<batch, blocked>>
  BY <1>1, QuietPreserves DEF K!Poll
<1>2. ASSUME NEW n \in 1..(MaxRecords - Len(records)), offset + n <= Len(topic),
             batch' = [i \in 1..n |-> offset + i], blocked' = TRUE, stop' = stop
      PROVE  ConsumeInv'
  <2>1. /\ n \in Nat /\ stop' = "none"
        /\ UNCHANGED <<topic, records, committed, offset>>
    BY <1>2 DEF K!Poll, K!ConsumeConstants, ConsumeInv
  <2>2. batch' \in Seq(Nat) /\ Len(batch') = n /\ \A i \in 1..n : batch'[i] = offset + i
    BY <1>2, <2>1 DEF ConsumeInv
  <2>3. QED
    BY <1>2, <2>1, <2>2 DEF ConsumeInv, Running, BatchIsNext, K!CommittedWereReturned, K!Poll
<1>3. QED
  BY <1>1, <1>2, Zenon DEF K!Poll

(* A failed decode returns more than is committed.                          *)
LEMMA DecodePreserves == ASSUME ConsumeInv, K!DecodeFails PROVE ConsumeInv'
<1> PICK k \in K!Bad : records' = records \o SubSeq(batch, 1, k)
  BY Zenon DEF K!DecodeFails
<1>1. k \in 1..Len(batch) /\ batch \in Seq(Nat)
  BY DEF K!Bad, K!DecodeFails, ConsumeInv, BatchIsNext
<1>2. SubSeq(batch, 1, k) \in Seq(Nat)
  BY <1>1
<1>3. /\ records' \in Seq(Nat) /\ Len(records') >= Len(records)
      /\ \A i \in 1..Len(records) : records'[i] = records[i]
  BY <1>2 DEF ConsumeInv
<1>4. QED
  BY <1>3 DEF K!DecodeFails, K!Decoding, ConsumeInv, Running, BatchIsNext, K!CommittedWereReturned

(* A commit covers a batch without a bad record, which is returned whole.   *)
LEMMA CommitPreserves == ASSUME ConsumeInv, K!Committed \/ K!CommitFails PROVE ConsumeInv'
<1>1. /\ batch \in Seq(Nat) /\ offset + Len(batch) <= Len(topic)
      /\ \A i \in 1..Len(batch) : batch[i] = offset + i
      /\ Len(records) = offset /\ committed = offset
  BY DEF K!Committed, K!CommitFails, ConsumeInv, Running, BatchIsNext
<1>2. \A i \in 1..Len(batch) : topic[offset + i] = "good"
  <2>1. \A i \in 1..Len(batch) : topic[batch[i]] # "bad"
    BY Zenon DEF K!Committed, K!CommitFails, K!Bad
  <2>2. \A i \in 1..Len(batch) : offset + i \in 1..Len(topic)
    BY <1>1 DEF ConsumeInv
  <2>3. \A j \in 1..Len(topic) : topic[j] \in {"good", "bad"}
    BY DEF ConsumeInv
  <2>4. QED
    BY <1>1, <2>1, <2>2, <2>3
<1>3. /\ records' \in Seq(Nat) /\ Len(records') = offset + Len(batch)
      /\ \A i \in 1..Len(records') :
            records'[i] = IF i <= offset THEN records[i] ELSE batch[i - offset]
  <2>1. records' = records \o batch /\ records \in Seq(Nat) /\ batch \in Seq(Nat)
    BY <1>1 DEF K!Committed, K!CommitFails, ConsumeInv
  <2>2. records' \in Seq(Nat) /\ Len(records') = Len(records) + Len(batch)
    BY ONLY <2>1
  <2>3. \A i \in 1..(Len(records) + Len(batch)) :
           records'[i] = IF i <= Len(records) THEN records[i] ELSE batch[i - Len(records)]
    BY <1>1, <2>1
  <2>4. QED
    <3>1. Len(records) = offset /\ Len(records) \in Nat /\ Len(batch) \in Nat
      BY <1>1, <2>1
    <3>2. QED
      BY <2>2, <2>3, <3>1
<1>4. \A i \in 1..Len(records') : records'[i] = i /\ topic[i] = "good"
  <2> TAKE i \in 1..Len(records')
  <2>1. CASE i <= offset
    <3>1. i \in 1..offset
      BY <1>3, <2>1 DEF ConsumeInv
    <3>2. records[i] = i /\ topic[i] = "good"
      BY <3>1 DEF ConsumeInv, K!CommittedWereReturned
    <3>3. records'[i] = records[i]
      BY <1>3, <2>1
    <3>4. QED
      BY <3>2, <3>3
  <2>2. CASE i > offset
    <3>1. i - offset \in 1..Len(batch) /\ offset + (i - offset) = i
      BY <1>1, <1>3, <2>2 DEF ConsumeInv
    <3>2. batch[i - offset] = i /\ topic[i] = "good"
      BY <1>1, <1>2, <3>1
    <3>3. records'[i] = batch[i - offset]
      BY <1>3, <2>2 DEF ConsumeInv
    <3>4. QED
      BY <3>2, <3>3
  <2>3. QED
    BY <2>1, <2>2, <1>3 DEF ConsumeInv
<1>5. CASE K!Committed
  BY <1>1, <1>3, <1>4, <1>5 DEF K!Committed, ConsumeInv, Running, BatchIsNext, K!CommittedWereReturned
<1>6. CASE K!CommitFails
  BY <1>1, <1>3, <1>4, <1>6 DEF K!CommitFails, ConsumeInv, Running, BatchIsNext, K!CommittedWereReturned
<1>7. QED
  BY <1>5, <1>6

(* Whatever ends a consume_many call, and whether or not the broker did the *)
(* commit it reports as failed, every record the group has moved past was   *)
(* decoded and returned to the spec (kafka_consume_many.go:191).            *)
THEOREM NothingCommittedUnseen ==
  K!ConsumeConstants => (K!ConsumeSpec => []K!CommittedWereReturned)
<1> SUFFICES ASSUME K!ConsumeConstants PROVE K!ConsumeSpec => []K!CommittedWereReturned
  OBVIOUS
<1>1. K!ConsumeInit => ConsumeInv
  BY DEF K!ConsumeInit, K!ConsumeConstants, ConsumeInv, Running, BatchIsNext, K!CommittedWereReturned
<1>2. ConsumeInv /\ [K!ConsumeNext]_(K!consume) => ConsumeInv'
  <2> SUFFICES ASSUME ConsumeInv, [K!ConsumeNext]_(K!consume) PROVE ConsumeInv'
    OBVIOUS
  <2>1. CASE K!CheckArguments \/ K!Finished \/ K!Cancelled \/ K!Assigned \/ K!Revoked
    BY <2>1, QuietPreserves DEF K!CheckArguments, K!Finished, K!Cancelled, K!Assigned, K!Revoked, ConsumeInv
  <2>2. CASE UNCHANGED K!consume
    BY <2>2 DEF K!consume, ConsumeInv, Running, BatchIsNext, K!CommittedWereReturned
  <2>3. QED
    BY <2>1, <2>2, PollPreserves, DecodePreserves, CommitPreserves
    DEF K!ConsumeNext, K!ConsumeStep
<1>3. ConsumeInv => K!CommittedWereReturned
  BY DEF ConsumeInv
<1>4. QED
  BY <1>1, <1>2, <1>3, PTL DEF K!ConsumeSpec
=============================================================================
