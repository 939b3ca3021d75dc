----------------------------- MODULE ConnOwner ------------------------------
(***************************************************************************)
(* Which service process owns a TCP connection (internal/connowner): the    *)
(* tracker searches /proc one file at a time, while processes die, PIDs and *)
(* inode numbers are used again, services are registered and unregistered,  *)
(* and connections are closed. A name for the connection's owner is kept    *)
(* for the life of the connection, so a wrong one is never corrected.       *)
(*                                                                          *)
(* Processes and sockets are the kernel's (external). A connection has a    *)
(* key (its two addresses); the proxy's own upstream connections are        *)
(* "bridged" to the client connection they serve.                           *)
(***************************************************************************)
EXTENDS Naturals, FiniteSets, Sequences

CONSTANTS Pids, Inodes,
          Direct, Bridged,  \* keys: of a client's connection, of the proxy's to the service
          MaxStart,         \* bound: processes ever started
          MaxToken,         \* bound: registrations and bridges
          MaxEvents         \* bound: steps that are not the resolver's

Keys == {Direct, Bridged}
NoProc == [start |-> 0, parent |-> 0, fds |-> {}]
Unknown == [pid |-> 0, start |-> 0, token |-> 0]
NoBinding == [open |-> FALSE, source |-> Unknown, owners |-> {}]

VARIABLES
    proc,     \* pid -> [start, parent, fds]; start 0: no such process
    started,  \* processes started so far
    table,    \* the kernel's table of connections: key -> inode, 0 if none
    bind,     \* the service's Binding of each connection; owners is history:
              \* the process that connected and its ancestors, as <<pid, start>>
    bridge,   \* the proxy's Binding of the client connection, while bridged
    bridges,  \* the tokens under Bridged in Tracker.bridges
    regs,     \* Tracker.registrations
    next,     \* Tracker.next
    res,      \* a Source() call in progress
    events    \* steps so far that are not the resolver's

vars == <<proc, started, table, bind, bridge, bridges, regs, next, res, events>>

Idle == [pc |-> "idle"]

Init ==
    /\ proc = [p \in Pids |-> NoProc] /\ started = 0
    /\ table = [k \in Keys |-> 0]
    /\ bind = [k \in Keys |-> NoBinding] /\ bridge = NoBinding
    /\ bridges = {} /\ regs = {} /\ next = 0 /\ res = Idle /\ events = 0

----------------------------------------------------------------------------
(* The kernel and the processes *)

kernel == <<proc, started, table>>
tracker == <<bind, bridge, bridges, regs, next, res>>

Alive(p) == proc[p].start # 0
FreeInodes == Inodes \ (UNION {proc[p].fds : p \in Pids} \cup {table[k] : k \in Keys})

(* A row of the table goes when no descriptor refers to its socket. *)
Rows(procs, rows) == [k \in Keys |-> IF \E p \in Pids : rows[k] \in procs[p].fds THEN rows[k] ELSE 0]

ProcStarts(p) ==
    /\ ~Alive(p) /\ started < MaxStart
    /\ \E parent \in {0} \cup {q \in Pids : Alive(q)} :
          proc' = [proc EXCEPT ![p] = [start |-> started + 1, parent |-> parent, fds |-> {}]]
    /\ started' = started + 1
    /\ UNCHANGED <<table, tracker>>

ProcDies(p) ==
    /\ Alive(p)
    /\ proc' = [q \in Pids |-> IF q = p THEN NoProc
                               ELSE IF proc[q].parent = p THEN [proc[q] EXCEPT !.parent = 0] ELSE proc[q]]
    /\ table' = Rows(proc', table)
    /\ UNCHANGED <<started, tracker>>

(* A process and its ancestors. *)
Line(p) == {<<q, proc[q].start>> : q \in {x \in Pids : Alive(x) /\
              (x = p \/ x = proc[p].parent \/ (proc[p].parent # 0 /\ x = proc[proc[p].parent].parent))}}

(* Forward: the proxy has dialed the service for an accepted client. *)
Forward(client) ==
    /\ bridge' = [NoBinding EXCEPT !.open = TRUE, !.owners = client]
    /\ next' = next + 1 /\ bridges' = bridges \cup {next + 1}
    /\ bind' = [bind EXCEPT ![Bridged] = [NoBinding EXCEPT !.open = TRUE, !.owners = client]]

(* A client connects; the service, or the proxy, accepts. The same pair of  *)
(* addresses is in use once at a time.                                      *)
Dial(p) ==
    /\ Alive(p) /\ table[Direct] = 0 /\ ~bind[Direct].open /\ ~bridge.open
    /\ \E i \in FreeInodes :
          /\ proc' = [proc EXCEPT ![p].fds = @ \cup {i}]
          /\ table' = [table EXCEPT ![Direct] = i]
    /\ \/ /\ bind' = [bind EXCEPT ![Direct] = [NoBinding EXCEPT !.open = TRUE, !.owners = Line(p)]]
          /\ UNCHANGED <<bridge, bridges, next>>
       \/ /\ ~bind[Bridged].open /\ bridges = {} /\ next < MaxToken
          /\ Forward(Line(p))
    /\ UNCHANGED <<started, regs, res>>

(* Any process may open and close other sockets; inode numbers come back. *)
OtherSocket(p) ==
    /\ Alive(p)
    /\ \E i \in FreeInodes : proc' = [proc EXCEPT ![p].fds = @ \cup {i}]
    /\ UNCHANGED <<started, table, tracker>>

CloseSocket(p) ==
    /\ \E i \in proc[p].fds : proc' = [proc EXCEPT ![p].fds = @ \ {i}]
    /\ table' = Rows(proc', table)
    /\ UNCHANGED <<started, tracker>>

(* The service closes its end. *)
ServerCloses(k) ==
    /\ bind[k].open
    /\ bind' = [bind EXCEPT ![k].open = FALSE]
    /\ res' = IF res.pc # "idle" /\ res.for = k THEN [res EXCEPT !.keep = FALSE] ELSE res
    /\ UNCHANGED <<kernel, bridge, bridges, regs, next>>

(* The proxy is done with the client: it closes its Binding, whose call in  *)
(* progress then finds nothing, forgets the token, and only then closes its *)
(* connection to the service.                                               *)
Release ==
    /\ bridge.open
    /\ bridge' = [bridge EXCEPT !.open = FALSE]
    /\ res' = IF res.pc # "idle" /\ res.via
              THEN [res EXCEPT !.via = FALSE, !.keep = @ /\ bridge.source # Unknown] ELSE res
    /\ UNCHANGED <<kernel, bind, bridges, regs, next>>

Forget ==
    /\ ~bridge.open /\ bridges # {}
    /\ bridges' = {}
    /\ UNCHANGED <<kernel, bind, bridge, regs, next, res>>

----------------------------------------------------------------------------
(* Registrations *)

(* Fault: the field before starttime in /proc/<pid>/stat is read; it is     *)
(* always 0.                                                                *)
StartTimeFieldBefore(p) == 0

(* parseProcessStat: the one field that tells two processes of a PID apart. *)
StartTime(p) == proc[p].start

(* born is history: the process that was registered. *)
Register(p) ==
    /\ Alive(p) /\ next < MaxToken
    /\ regs' = regs \cup {[pid |-> p, start |-> StartTime(p), token |-> next + 1, born |-> proc[p].start]}
    /\ next' = next + 1
    /\ UNCHANGED <<kernel, bind, bridge, bridges, res>>

Unregister(r) ==
    /\ regs' = regs \ {r}
    /\ UNCHANGED <<kernel, bind, bridge, bridges, next, res>>

----------------------------------------------------------------------------
(* Source(): one read of /proc, or one critical section, at a time. Inner   *)
(* states work on res.reg, the registration looked at, and res.node, the    *)
(* process of its tree that is visited.                                     *)

Node(p) == [pid |-> p, start |-> StartTime(p), parent |-> proc[p].parent]
SameProcess(n) == Alive(n.pid) /\ Node(n.pid) = n

(* Binding.resolve and the first section of Tracker.resolve. *)
Source(k) ==
    /\ res.pc = "idle" /\ bind[k].open /\ bind[k].source = Unknown
    /\ LET via == k = Bridged /\ bridges # {}
       IN res' = [pc |-> IF via /\ (Cardinality(bridges) > 1 \/ bridge.source # Unknown \/ ~bridge.open)
                         THEN "done" ELSE "next",
                  for |-> k, via |-> via, key |-> IF via THEN Direct ELSE k, todo |-> regs,
                  found |-> IF via /\ Cardinality(bridges) = 1 THEN bridge.source ELSE Unknown,
                  reg |-> Unknown, root |-> NoProc, stack |-> {}, node |-> NoProc, seen |-> {}, inode |-> 0,
                  owned |-> FALSE, whole |-> TRUE, keep |-> TRUE]
    /\ UNCHANGED <<kernel, bind, bridge, bridges, regs, next>>

Step(r) == res' = r /\ UNCHANGED <<kernel, bind, bridge, bridges, regs, next>>

(* ownsConnection: the root, if it is still the registered process. *)
NextRegistration ==
    /\ res.pc = "next"
    /\ \/ res.todo = {} /\ Step([res EXCEPT !.pc = "done"])
       \/ \E r \in res.todo :
            LET looked == [res EXCEPT !.todo = @ \ {r}, !.reg = r, !.seen = {}, !.owned = FALSE, !.whole = TRUE]
            IN IF Alive(r.pid) /\ StartTime(r.pid) = r.start
               THEN Step([looked EXCEPT !.pc = "visit", !.root = Node(r.pid), !.stack = {Node(r.pid)}])
               ELSE Step([looked EXCEPT !.pc = "registered"])

(* visit: a node of the tree that has changed makes the search inconclusive. *)
Visit ==
    /\ res.pc = "visit"
    /\ \/ res.stack = {} /\ Step([res EXCEPT !.pc = "root"])
       \/ \E n \in res.stack :
            IF n.pid \notin res.seen /\ SameProcess(n)
            THEN Step([res EXCEPT !.pc = "fds", !.node = n, !.stack = @ \ {n}, !.seen = @ \cup {n.pid}])
            ELSE Step([res EXCEPT !.pc = "root", !.whole = FALSE])

(* processOwnsTuple: the descriptors, the table, the descriptor again. *)
ReadFds ==
    /\ res.pc = "fds"
    /\ IF Alive(res.node.pid)
       THEN \/ \E i \in proc[res.node.pid].fds : Step([res EXCEPT !.pc = "table", !.inode = i])
            \/ proc[res.node.pid].fds = {} /\ Step([res EXCEPT !.pc = "children"])
       ELSE Step([res EXCEPT !.pc = "root", !.whole = FALSE])

ReadTable ==
    /\ res.pc = "table"
    /\ Step([res EXCEPT !.pc = IF table[res.key] = res.inode THEN "link" ELSE "children"])

ReadLink ==
    /\ res.pc = "link"
    /\ Step([res EXCEPT !.pc = IF Alive(res.node.pid) /\ res.inode \in proc[res.node.pid].fds
                               THEN "same" ELSE "children"])

ReadStat ==
    /\ res.pc = "same"
    /\ Step(IF SameProcess(res.node) THEN [res EXCEPT !.pc = "root", !.owned = TRUE]
            ELSE [res EXCEPT !.pc = "children"])

ReadChildren ==
    /\ res.pc = "children"
    /\ Step(IF SameProcess(res.node)
            THEN [res EXCEPT !.pc = "visit",
                    !.stack = @ \cup {Node(q) : q \in {x \in Pids : Alive(x) /\ proc[x].parent = res.node.pid
                                                                    /\ StartTime(x) >= res.node.start}}]
            ELSE [res EXCEPT !.pc = "root", !.whole = FALSE])

ReadRoot ==
    /\ res.pc = "root"
    /\ Step([res EXCEPT !.pc = "registered", !.owned = @ /\ SameProcess(res.root),
                        !.whole = @ /\ SameProcess(res.root)])

(* Back in Tracker.resolve: still registered, conclusive, active (IsActive   *)
(* reads the registration, the process and the registration again).          *)
StillRegistered ==
    /\ res.pc = "registered"
    /\ Step(IF res.reg \notin regs THEN [res EXCEPT !.pc = "next"]
            ELSE IF ~res.whole THEN [res EXCEPT !.pc = "done", !.found = Unknown]
            ELSE [res EXCEPT !.pc = "active"])

IsActive ==
    /\ res.pc = "active"
    /\ Step([res EXCEPT !.pc = IF Alive(res.reg.pid) /\ StartTime(res.reg.pid) = res.reg.start
                               THEN "take" ELSE "next"])

Take ==
    /\ res.pc = "take"
    /\ Step(IF res.reg \notin regs \/ ~res.owned THEN [res EXCEPT !.pc = "next"]
            ELSE IF res.found \notin {Unknown, res.reg} THEN [res EXCEPT !.pc = "done", !.found = Unknown]
            ELSE [res EXCEPT !.pc = "next", !.found = res.reg])

(* The answer is kept by the bindings, unless they were closed meanwhile. *)
Resolved ==
    /\ res.pc = "done"
    /\ LET kept(b) == IF b.source = Unknown THEN [b EXCEPT !.source = res.found] ELSE b
       IN /\ bridge' = IF res.via THEN kept(bridge) ELSE bridge
          /\ bind' = IF res.keep THEN [bind EXCEPT ![res.for] = kept(@)] ELSE bind
    /\ res' = Idle
    /\ UNCHANGED <<kernel, bridges, regs, next>>

Resolve ==
    \/ \E k \in Keys : Source(k)
    \/ NextRegistration \/ Visit \/ ReadFds \/ ReadTable \/ ReadLink \/ ReadStat \/ ReadChildren
    \/ ReadRoot \/ StillRegistered \/ IsActive \/ Take \/ Resolved

Environment ==
    \/ \E p \in Pids : ProcStarts(p) \/ ProcDies(p) \/ Dial(p) \/ OtherSocket(p) \/ CloseSocket(p) \/ Register(p)
    \/ \E k \in Keys : ServerCloses(k)
    \/ Release \/ Forget
    \/ \E r \in regs : Unregister(r)

Next == \/ Resolve /\ UNCHANGED events
        \/ events < MaxEvents /\ Environment /\ events' = events + 1

Spec == Init /\ [][Next]_vars

----------------------------------------------------------------------------

(* The name kept for a connection is right: the registered process is the   *)
(* very process that made the connection, or an ancestor of it, and not one *)
(* that came to have its PID, its inode number or its addresses             *)
(* (tracker.go:155, proc_linux.go:116).                                     *)
OwnersAreProven ==
    /\ \A k \in Keys : bind[k].source # Unknown => <<bind[k].source.pid, bind[k].source.born>> \in bind[k].owners
    /\ bridge.source # Unknown => <<bridge.source.pid, bridge.source.born>> \in bridge.owners
============================================================================
