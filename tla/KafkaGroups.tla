---------------------------- MODULE KafkaGroups -----------------------------
(***************************************************************************)
(* What a Kafka mock knows of its consumer group, and what wait_ready makes *)
(* of it. The observer (protocol/kafka_observe.go, kafka_groups.go) sees    *)
(* each request when it is read and each response after it was written; it  *)
(* emits events outside its lock, so that the log has them in another       *)
(* order than the state changed. kafkaReadyPositions (star/kafka_wait.go)   *)
(* derives a snapshot from the log alone.                                   *)
(*                                                                          *)
(* The broker (the kfake library) and the consumers are external. A member  *)
(* has a connection to the coordinator and one for fetches; each has a      *)
(* goroutine that reads and one that writes.                                *)
(***************************************************************************)
EXTENDS Naturals, Sequences, FiniteSets, SequencesExt

CONSTANTS Members, Parts,  \* consumers of one group, partitions of one topic
          FaultSets,       \* subsets of {"leave", "death", "publish", "restart"}
          Setups,          \* [Members -> [client, source]]: see SetupType
          MaxSeq,          \* bound: requests
          MaxGen           \* bound: generations

None == [kind |-> "none"]

(* The client ID of each member and the process instance its connections    *)
(* are proven to come from, or "unknown".                                   *)
SetupType == [Members -> [client : {"c", "d"}, source : {"A", "B", "unknown"}]]

VARIABLES
    setup,
    faults,   \* what may happen in this behaviour besides joining and fetching
    dead,     \* process instances that have gone
    broker,   \* [gen, joining, members, owner]: owner of each partition in generation gen
    member,   \* each consumer: [state, gen, parts, token, polled]; it fetches
              \* once per assignment and record (bound); read: it has the record
    req,      \* the coordinator request in flight of each member
    wr,       \* the writer of the coordinator connection of each member
    fetch,    \* the fetch in flight of each member
    fwr,      \* the writer of its fetch connection
    obs,      \* kafkaObserver: [seq, gen, epoch, as]
    log,      \* the events emitted
    wait,     \* the test's publish and its wait_committed
    fetched   \* history: [member, token, part] fetched under an assignment and acknowledged

vars == <<setup, faults, dead, broker, member, req, wr, fetch, fwr, obs, log, wait, fetched>>

NoAssignment == [token |-> 0, parts |-> [p \in Parts |-> "no"]]

Source(m) == setup[m].source
ActiveSource(m) == Source(m) \notin dead

(* Fault: client IDs alone are compared. *)
MatchesSourceByClient(m, n) == setup[m].client = setup[n].client /\ ActiveSource(m)

(* Nothing known tells the two clients apart. *)
MatchesSource(m, n) ==
    /\ setup[m].client = setup[n].client /\ ActiveSource(m)
    /\ Source(m) = Source(n) \/ Source(m) = "unknown" \/ Source(n) = "unknown"

----------------------------------------------------------------------------
(* Events *)

Rebalance(o) == [type |-> "rebalance", gen |-> o.gen, epoch |-> o.epoch]
Commit(m, p, past) == [type |-> "commit", source |-> Source(m), part |-> p, past |-> past]
Join(o, m) == [type |-> "join", gen |-> o.gen, epoch |-> o.epoch]
Assign(o, m, p) == [type |-> "assign", gen |-> o.gen, epoch |-> o.epoch, member |-> m,
                    token |-> o.as[m].token, part |-> p]
Sync(o, m) == [type |-> "sync", gen |-> o.gen, epoch |-> o.epoch, member |-> m, token |-> o.as[m].token]
Ready(o, m, p) == [type |-> "ready", gen |-> o.gen, epoch |-> o.epoch, member |-> m,
                   token |-> o.as[m].token, part |-> p]

(* The first member has joined (request 1) and synced (request 2) generation *)
(* 1 alone, and its responses have been observed.                            *)
First == CHOOSE m \in Members : TRUE
Gen1 == [seq |-> 2, gen |-> 1, epoch |-> 1,
         as |-> [m \in Members |-> IF m = First THEN [token |-> 2, parts |-> [p \in Parts |-> "assigned"]]
                                   ELSE NoAssignment]]

Init ==
    /\ setup \in Setups /\ faults \in FaultSets
    /\ dead = {} /\ fetched = {} /\ wait = [state |-> "none"]
    /\ broker = [gen |-> 1, joining |-> {}, members |-> {First}, owner |-> [p \in Parts |-> First]]
    /\ member = [m \in Members |->
                   IF m = First THEN [state |-> "in", gen |-> 1, parts |-> Parts, token |-> 2, polled |-> FALSE,
                                       read |-> FALSE]
                   ELSE [state |-> "out", gen |-> 0, parts |-> {}, token |-> 0, polled |-> FALSE, read |-> FALSE]]
    /\ req = [m \in Members |-> None] /\ wr = [m \in Members |-> None]
    /\ fetch = [m \in Members |-> None] /\ fwr = [m \in Members |-> None]
    /\ obs = Gen1
    /\ log = {[type |-> "rebalance", gen |-> 0, epoch |-> 1], Join(Gen1, First), Sync(Gen1, First)}
               \cup {Assign(Gen1, First, p) : p \in Parts}

(* invalidate: a new epoch, no assignment left. *)
Invalidated(o, seq) ==
    [o EXCEPT !.epoch = seq,
              !.as = [m \in Members |-> [o.as[m] EXCEPT !.parts = NoAssignment.parts]]]

----------------------------------------------------------------------------
(* Requests, seen when they are read *)

Numbered == [obs EXCEPT !.seq = @ + 1]

(* JoinGroup invalidates the group as soon as it is read; the event is      *)
(* emitted before the broker gets the request.                              *)
JoinRequest(m) ==
    /\ member[m].state \in {"out", "told"} /\ req[m].kind = "none" /\ obs.seq < MaxSeq
    /\ member' = [member EXCEPT ![m].state = "joining"]
    /\ obs' = IF ActiveSource(m) THEN Invalidated(Numbered, obs.seq + 1) ELSE Numbered
    /\ req' = [req EXCEPT ![m] = [kind |-> "join", gen |-> 0, seq |-> obs.seq + 1, past |-> FALSE,
                                  emits |-> IF ActiveSource(m) THEN <<Rebalance(obs')>> ELSE <<>>]]
    /\ UNCHANGED <<dead, broker, wr, fetch, fwr, log, fetched>>

(* The other requests of a group member change nothing when they are read. *)
GroupRequest(m, kind) ==
    /\ req[m].kind = "none" /\ obs.seq < MaxSeq
    /\ CASE kind = "sync" -> member[m].state = "joined"
         [] kind = "commit" -> member[m].state = "in" /\ member[m].parts # {} /\ "publish" \in faults
         [] kind = "heartbeat" -> member[m].state = "in"
         [] kind = "leave" -> member[m].state = "in" /\ kind \in faults
    /\ member' = [member EXCEPT ![m].state = IF kind \in {"heartbeat", "commit"} THEN "in" ELSE kind,
                                ![m].token = IF kind = "sync" THEN obs.seq + 1 ELSE @]
    /\ obs' = Numbered
    /\ req' = [req EXCEPT ![m] = [kind |-> kind, gen |-> member[m].gen, seq |-> obs.seq + 1, past |-> member[m].read,
                                  emits |-> <<>>]]
    /\ UNCHANGED <<dead, broker, wr, fetch, fwr, log, fetched>>

(* A fetch is tied to the assignments it may belong to when it is read. *)
FetchRequest(m) ==
    /\ member[m].state = "in" /\ member[m].parts # {} /\ fetch[m].kind = "none" /\ obs.seq < MaxSeq
    /\ ~member[m].polled
    /\ member' = [member EXCEPT ![m].polled = TRUE]
    /\ obs' = Numbered
    /\ fetch' = [fetch EXCEPT ![m] =
          [kind |-> "fetch", seq |-> obs.seq + 1, parts |-> member[m].parts, token |-> member[m].token,
           refs |-> [p \in Parts |->
               {[member |-> n, gen |-> obs.gen, epoch |-> obs.epoch, token |-> obs.as[n].token] :
                  n \in {x \in Members : obs.as[x].parts[p] # "no" /\ ActiveSource(m) /\ MatchesSource(x, m)}}]]]
    /\ UNCHANGED <<dead, broker, req, wr, fwr, log, fetched>>

----------------------------------------------------------------------------
(* The broker *)

(* The event is emitted before Read hands the JoinGroup to the broker. *)
EmitRequest(m) ==
    /\ req[m].kind = "join" /\ m \notin broker.joining
    /\ log' = log \cup Range(req[m].emits)
    /\ broker' = [broker EXCEPT !.joining = @ \cup {m}]
    /\ UNCHANGED <<dead, member, req, wr, fetch, fwr, obs, fetched>>

(* A response on the wire: the member goes on, the observer is next. *)
Reply(r, ok, gen, parts) ==
    [kind |-> r.kind, seq |-> r.seq, past |-> r.past, reqGen |-> r.gen, ok |-> ok, gen |-> gen, parts |-> parts,
     observed |-> FALSE, emits |-> <<>>]

(* The members that have joined make a generation; a slow one is left out. *)
BrokerCompletes ==
    /\ broker.joining # {} /\ broker.gen < MaxGen
    /\ \A m \in broker.joining : wr[m].kind = "none"
    /\ \E owner \in [Parts -> broker.joining] :
          broker' = [gen |-> broker.gen + 1, joining |-> {}, members |-> broker.joining, owner |-> owner]
    /\ wr' = [m \in Members |->
                IF m \in broker.joining THEN Reply(req[m], TRUE, broker.gen + 1, {}) ELSE wr[m]]
    /\ req' = [m \in Members |-> IF m \in broker.joining THEN None ELSE req[m]]
    /\ member' = [m \in Members |->
                    IF m \in broker.joining
                    THEN [member[m] EXCEPT !.state = "joined", !.gen = broker.gen + 1]
                    ELSE member[m]]
    /\ UNCHANGED <<dead, fetch, fwr, obs, log, fetched>>

(* Sync and Heartbeat are refused in another generation or during a         *)
(* rebalance; a member that was left out is gone for good.                  *)
BrokerAnswers(m) ==
    /\ req[m].kind \notin {"none", "join"} /\ wr[m].kind = "none"
    /\ LET ok    == req[m].gen = broker.gen /\ m \in broker.members
                       /\ (req[m].kind \in {"leave", "commit"} \/ broker.joining = {})
           parts == CASE req[m].kind = "sync" -> {p \in Parts : broker.owner[p] = m}
                      [] req[m].kind = "commit" -> member[m].parts
                      [] OTHER -> {}
           after == IF ok THEN CASE req[m].kind = "leave" -> "gone" [] OTHER -> "in"
                    ELSE IF m \in broker.members /\ req[m].kind # "leave" THEN "told" ELSE "gone"
       IN /\ req[m].kind = "heartbeat" => ~ok
          /\ wr' = [wr EXCEPT ![m] = Reply(req[m], ok, req[m].gen, parts)]
          /\ req' = [req EXCEPT ![m] = None]
          /\ member' = [member EXCEPT ![m].state = after,
                                      ![m].parts = IF ok /\ req[m].kind = "sync" THEN parts ELSE @,
                                      ![m].polled = @ /\ ~(ok /\ req[m].kind = "sync")]
          /\ broker' = IF ok /\ req[m].kind = "leave"
                       THEN [broker EXCEPT !.members = @ \ {m}] ELSE broker
    /\ UNCHANGED <<dead, fetch, fwr, obs, log, fetched>>

(* Fetch knows no group: any fetch is answered, some partitions in error,   *)
(* and one that has nothing new may be omitted.                             *)
BrokerFetches(m) ==
    /\ fetch[m].kind # "none" /\ fwr[m].kind = "none"
    /\ \E ok \in SUBSET fetch[m].parts :
          /\ fwr' = [fwr EXCEPT ![m] = [ok |-> ok, observed |-> FALSE, emits |-> <<>>] @@ fetch[m]]
          /\ member' = [member EXCEPT ![m].read = @ \/ (wait.state # "none" /\ wait.part \in ok)]
          /\ fetched' = fetched \cup {[member |-> m, token |-> fetch[m].token, part |-> p] : p \in ok}
    /\ fetch' = [fetch EXCEPT ![m] = None]
    /\ UNCHANGED <<dead, broker, req, wr, obs, log>>

----------------------------------------------------------------------------
(* Responses, seen after they were written *)

(* What observeGroup makes of one response: the group's state and the events. *)
ObservedJoin(m, r) ==
    IF r.ok /\ r.gen >= obs.gen
    THEN LET o == [obs EXCEPT !.gen = r.gen] IN [obs |-> o, events |-> <<Join(o, m)>>]
    ELSE [obs |-> obs, events |-> <<>>]

ObservedSync(m, r) ==
    IF r.ok /\ r.reqGen = obs.gen /\ r.seq >= obs.epoch /\ obs.as[m].token <= r.seq
    THEN LET o == [obs EXCEPT !.as[m] = [token |-> r.seq,
                      parts |-> [p \in Parts |-> IF p \in r.parts THEN "assigned" ELSE "no"]]]
         IN [obs |-> o, events |-> [i \in 1..Cardinality(r.parts) |-> Assign(o, m, SetToSeq(r.parts)[i])]
                                     \o <<Sync(o, m)>>]
    ELSE [obs |-> obs, events |-> <<>>]

ObservedHeartbeat(m, r) ==
    IF ~r.ok /\ r.reqGen = obs.gen /\ r.seq >= obs.epoch
    THEN LET o == Invalidated(obs, r.seq) IN [obs |-> o, events |-> <<Rebalance(o)>>]
    ELSE [obs |-> obs, events |-> <<>>]

ObservedLeave(m, r) ==
    IF r.ok /\ r.seq >= obs.epoch
    THEN LET o == Invalidated([obs EXCEPT !.as[m] = NoAssignment], r.seq)
         IN [obs |-> o, events |-> <<Rebalance(o)>>]
    ELSE [obs |-> obs, events |-> <<>>]

ObservedCommit(m, r) ==
    [obs |-> obs,
     events |-> IF r.ok THEN [i \in 1..Cardinality(r.parts) |-> Commit(m, SetToSeq(r.parts)[i], r.past)]
                ELSE <<>>]

ObserveGroup(m) ==
    /\ wr[m].kind # "none" /\ ~wr[m].observed
    /\ LET r    == wr[m]
           seen == IF r.kind = "commit" THEN ObservedCommit(m, r)
                   ELSE IF ~ActiveSource(m) THEN [obs |-> obs, events |-> <<>>]
                   ELSE CASE r.kind = "join" -> ObservedJoin(m, r)
                          [] r.kind = "sync" -> ObservedSync(m, r)
                          [] r.kind = "heartbeat" -> ObservedHeartbeat(m, r)
                          [] r.kind = "leave" -> ObservedLeave(m, r)
       IN /\ obs' = seen.obs
          /\ wr' = [wr EXCEPT ![m] = IF seen.events = <<>> THEN None
                                     ELSE [r EXCEPT !.observed = TRUE, !.emits = seen.events]]
    /\ UNCHANGED <<dead, broker, member, req, fetch, fwr, log, fetched>>

(* A partition of a fetch makes its member ready when exactly one           *)
(* assignment could be meant, when the request came and still now.          *)
MadeReady(m, f) ==
    {ref \in UNION {{[part |-> p] @@ x : x \in f.refs[p]} : p \in f.ok} :
       /\ Cardinality(f.refs[ref.part]) = 1
       /\ Cardinality({n \in Members : obs.as[n].parts[ref.part] # "no" /\ MatchesSource(n, m)}) = 1
       /\ obs.epoch = ref.epoch /\ obs.gen = ref.gen
       /\ obs.as[ref.member].token = ref.token /\ MatchesSource(ref.member, m)
       /\ (Source(m) = "unknown") = (Source(ref.member) = "unknown")
       /\ obs.as[ref.member].parts[ref.part] = "assigned"}

ObserveFetch(m) ==
    /\ fwr[m].kind # "none" /\ ~fwr[m].observed
    /\ LET made == IF ActiveSource(m) THEN MadeReady(m, fwr[m]) ELSE {}
           o    == [obs EXCEPT !.as = [n \in Members |-> [@[n] EXCEPT !.parts =
                      [p \in Parts |-> IF \E x \in made : x.member = n /\ x.part = p THEN "ready" ELSE @[p]]]]]
           refs == SetToSeq(made)
       IN /\ obs' = o
          /\ fwr' = [fwr EXCEPT ![m] = IF made = {} THEN None
                       ELSE [@ EXCEPT !.observed = TRUE,
                                      !.emits = [i \in 1..Len(refs) |-> Ready(o, refs[i].member, refs[i].part)]]]
    /\ UNCHANGED <<dead, broker, member, req, wr, fetch, log, fetched>>

(* Events are emitted one by one, outside the lock. *)
EmitResponse(m) ==
    \/ /\ wr[m].kind # "none" /\ wr[m].observed
       /\ log' = log \cup {Head(wr[m].emits)}
       /\ wr' = [wr EXCEPT ![m] = IF Len(@.emits) = 1 THEN None ELSE [@ EXCEPT !.emits = Tail(@)]]
       /\ UNCHANGED fwr
    \/ /\ fwr[m].kind # "none" /\ fwr[m].observed
       /\ log' = log \cup {Head(fwr[m].emits)}
       /\ fwr' = [fwr EXCEPT ![m] = IF Len(@.emits) = 1 THEN None ELSE [@ EXCEPT !.emits = Tail(@)]]
       /\ UNCHANGED wr

(* A service process ends; its instance never comes back. *)
ProcessDies(m) ==
    /\ "death" \in faults /\ Source(m) # "unknown" /\ ActiveSource(m)
    /\ dead' = dead \cup {Source(m)}
    /\ member' = [n \in Members |-> IF Source(n) = Source(m) THEN [member[n] EXCEPT !.state = "gone"] ELSE member[n]]
    /\ UNCHANGED <<broker, req, wr, fetch, fwr, obs, log, fetched>>

Step(m) ==
    \/ JoinRequest(m) \/ FetchRequest(m)
    \/ \E kind \in {"sync", "heartbeat", "leave", "commit"} : GroupRequest(m, kind)
    \/ EmitRequest(m) \/ BrokerAnswers(m) \/ BrokerFetches(m)
    \/ ObserveGroup(m) \/ ObserveFetch(m)
    \/ EmitResponse(m) /\ UNCHANGED <<dead, broker, member, req, fetch, obs, fetched>>
    \/ ProcessDies(m)

(* kafkaReadyPositions *)

GroupEvents(events) == {e \in events : e.type # "commit"}

Latest(events) ==
    CHOOSE g \in {[epoch |-> e.epoch, gen |-> e.gen] : e \in GroupEvents(events)} :
       \A e \in GroupEvents(events) : e.epoch < g.epoch \/ (e.epoch = g.epoch /\ e.gen <= g.gen)

Current(events, type) ==
    {e \in events : e.type = type /\ e.epoch = Latest(events).epoch /\ e.gen = Latest(events).gen}

LastSync(events, m) ==
    {s \in Current(events, "sync") :
       s.member = m /\ \A t \in Current(events, "sync") : t.member = m => t.token <= s.token}

Assignments(events) ==
    {e \in Current(events, "assign") : \E s \in LastSync(events, e.member) : s.token = e.token}

(* Every current assignment is ready, of an active process, and there is one. *)
ReadyPositions(events, checked) ==
    IF \A a \in Assignments(events) :
          [a EXCEPT !.type = "ready"] \in events /\ (checked => ActiveSource(a.member))
    THEN Assignments(events) ELSE {}

----------------------------------------------------------------------------
(* The test: publish, then wait_committed. A receipt holds the log as it was. *)

Publish(p) ==
    /\ "publish" \in faults /\ wait.state = "none"
    /\ wait' = [state |-> "waiting", part |-> p, before |-> log, pinned |-> {}]
    /\ member' = [m \in Members |-> [member[m] EXCEPT !.polled = FALSE]]
    /\ UNCHANGED <<dead, broker, req, wr, fetch, fwr, obs, log, fetched>>

At(positions, p) == {a \in positions : a.part = p}

(* One turn of executeKafkaWait's loop. *)
WaitCommitted ==
    /\ wait.state = "waiting"
    /\ LET current == At(ReadyPositions(log, TRUE), wait.part)
           pinned  == IF wait.pinned = {} THEN At(ReadyPositions(wait.before, FALSE), wait.part) ELSE wait.pinned
       IN wait' = [wait EXCEPT !.pinned = pinned,
                    !.state = CASE log = {} /\ wait.before # {} -> "stale"    \* the broker restarted
                                [] wait.pinned = {} /\ (pinned = {} \/ current = {}) -> "unsupported"
                                [] current # pinned -> "stale"
                                [] \E a \in pinned : Commit(a.member, wait.part, TRUE) \in log \ wait.before ->
                                      "committed"
                                [] OTHER -> "waiting"]
    /\ UNCHANGED <<dead, broker, member, req, wr, fetch, fwr, obs, log, fetched>>

(* The mock stops and starts again: a new observer, a history from nothing. *)
MockRestarts ==
    /\ "restart" \in faults /\ log # {}
    /\ log' = {} /\ obs' = [obs EXCEPT !.gen = 0, !.epoch = 0, !.as = [m \in Members |-> NoAssignment]]
    /\ member' = [m \in Members |-> [member[m] EXCEPT !.state = "gone"]]
    /\ req' = [m \in Members |-> None] /\ wr' = req' /\ fetch' = req' /\ fwr' = req'
    /\ broker' = [broker EXCEPT !.joining = {}, !.members = {}]
    /\ UNCHANGED <<dead, wait, fetched>>

Next == /\ \/ (BrokerCompletes \/ \E m \in Members : Step(m)) /\ UNCHANGED wait
           \/ (\E p \in Parts : Publish(p)) \/ WaitCommitted
           \/ MockRestarts
        /\ UNCHANGED <<setup, faults>>

Spec == Init /\ [][Next]_vars

----------------------------------------------------------------------------

(* The consumers that nothing known tells apart from m. *)
Twins(m) == {n \in Members : setup[n] = setup[m]}

(* What the gates promise is true of the consumers. A position wait_ready    *)
(* reports was fetched by the consumer it names, under the assignment it     *)
(* names, and acknowledged by the broker (kafka_groups.go:237, kafka_wait.go *)
(* 69). wait_committed passes only when the consumer that was ready for the  *)
(* partition when the record was published has read the record. Of consumers *)
(* that share a client ID and whose processes are not known, any may have    *)
(* fetched (kafka_groups.go:299).                                            *)
GatesAreHonest ==
    /\ \A a \in ReadyPositions(log, TRUE) :
          \E f \in fetched : /\ f.member \in Twins(a.member) /\ f.part = a.part
                             /\ Twins(a.member) = {a.member} => f.token = a.token
    /\ wait.state = "committed" => \A a \in wait.pinned : member[a.member].read

============================================================================
