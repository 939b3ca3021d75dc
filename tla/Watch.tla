------------------------------- MODULE Watch --------------------------------
(***************************************************************************)
(* watch(): a service's file I/O as its gVisor sandbox reports it. The      *)
(* sandboxes send trace points to one socket per host, whose sink           *)
(* (gvisor/seccheck) decodes them; the runtime (star/watch.go,              *)
(* watch_wire.go) names the service, keeps what an open window matches and  *)
(* fails the test when the observation was not complete. The script says    *)
(* which sandboxes run, which windows each test opens, and what may go      *)
(* wrong.                                                                   *)
(***************************************************************************)
EXTENDS Naturals, Sequences, FiniteSets

CONSTANTS Scripts,   \* see ScriptType
          MaxOps     \* bound: file operations of the sandboxes

(* boxes: the services, in launch order. tests: the windows each test opens *)
(* one after the other, stopped or left open. faults: "drop" (the Sentry    *)
(* loses points), "garble" (a point that cannot be decoded), "rival"        *)
(* (another run on the host), "litter" (a socket file left by a crash);     *)
(* "reuse": the services are kept between tests.                            *)
ScriptType == [boxes : Seq(STRING), tests : Seq(Seq([svc : STRING, stop : BOOLEAN])), faults : SUBSET STRING]

Runs == {"us", "rival"}
NoSummary == [started |-> FALSE, connected |-> FALSE, drops |-> 0, unattributed |-> 0, decodeErr |-> FALSE,
              taken |-> FALSE]

VARIABLES
    script,
    test,     \* the test that runs: 1..Len(script.tests)
    pc,       \* "launch", "body", "stop", "guard", "end"
    opened,   \* windows of the test opened so far
    window,   \* the last of them is not closed yet
    boot,     \* <<n, stage>>: n sandboxes launched, the last one "boot", "recorded" or "attached"
    box,      \* each sandbox: [up, to, lost, told, sent]: the sink it reports to, points
              \* lost so far, points on their way, each with the count it carries;
              \* told is history: the losses its points have reported
    sock,     \* who listens at the host's socket path: a run, "litter" or "none"
    acq,      \* where each run is in AcquireSink
    obs,      \* fsObservation: [dropped, connected, ...]; ids is rt.containerIDs
    wins,     \* the watch registry: how many windows each service has
    watchRan,
    ops,      \* operations so far
    ios,      \* the file_io events: [svc, by]
    blind,    \* history: "elsewhere": a watched operation was reported to another run in
              \* this test; "lost": a loss was reported since its last window opened
    verdict   \* of the last test

vars == <<script, test, pc, opened, window, boot, box, sock, acq, obs, wins, watchRan, ops, ios, blind, verdict>>

Boxes == {script.boxes[i] : i \in 1..Len(script.boxes)}
Windows == script.tests[test]
NoBox == [up |-> FALSE, to |-> "none", lost |-> 0, told |-> 0, sent |-> <<>>]

(* fsObservation, and the count of the sink it holds. *)
NoObs == [started |-> FALSE, dropped |-> 0, baseline |-> 0, connected |-> FALSE, decodeErr |-> FALSE,
          unattributed |-> 0, containers |-> {}, ids |-> {}, final |-> NoSummary]

Init ==
    /\ script \in Scripts
    /\ test = 1 /\ pc = "launch" /\ opened = 0 /\ window = FALSE /\ boot = <<0, "attached">>
    /\ box = [s \in Boxes |-> NoBox] /\ wins = [s \in Boxes |-> 0]
    /\ sock = (IF "litter" \in script.faults THEN "litter" ELSE "none")
    /\ acq = [r \in Runs |-> "idle"]
    /\ obs = NoObs /\ watchRan = FALSE /\ ops = 0 /\ ios = {} /\ blind = {} /\ verdict = "none"

testing == <<test, pc, opened, window, boot>>
----------------------------------------------------------------------------
(* The socket: AcquireSink and clearStaleSocket, by this run and a rival *)

(* ensureFSObservation: once, before the first sandbox. *)
EnsureFSObservation(r) ==
    /\ acq[r] = "idle"
    /\ IF r = "us" THEN pc = "launch" /\ ~obs.started ELSE "rival" \in script.faults
    /\ acq' = [acq EXCEPT ![r] = "stat"]
    /\ UNCHANGED <<script, ops, testing, box, sock, obs, wins, watchRan, ios, blind, verdict>>

Stat(r) ==
    /\ acq[r] = "stat"
    /\ acq' = [acq EXCEPT ![r] = IF sock = "none" THEN "listen" ELSE "dial"]
    /\ UNCHANGED <<script, ops, testing, box, sock, obs, wins, watchRan, ios, blind, verdict>>

(* A probe that is answered is a connection to the other run's sink, which  *)
(* reads no handshake from it.                                              *)
Probe(r) ==
    /\ acq[r] = "dial"
    /\ acq' = [acq EXCEPT ![r] = IF sock \in Runs THEN "refused" ELSE "remove"]
    /\ obs' = [obs EXCEPT !.decodeErr = @ \/ sock = "us"]
    /\ UNCHANGED <<script, ops, testing, box, sock, wins, watchRan, ios, blind, verdict>>

(* Removing a file that is gone is an error. *)
RemoveStale(r) ==
    /\ acq[r] = "remove"
    /\ acq' = [acq EXCEPT ![r] = IF sock = "none" THEN "refused" ELSE "listen"]
    /\ sock' = "none"
    /\ UNCHANGED <<script, ops, testing, box, obs, wins, watchRan, ios, blind, verdict>>

Listen(r) ==
    /\ acq[r] = "listen"
    /\ IF sock = "none"
       THEN /\ sock' = r /\ acq' = [acq EXCEPT ![r] = "have"]
            /\ obs' = IF r = "us" THEN [obs EXCEPT !.started = TRUE, !.dropped = 0] ELSE obs
       ELSE acq' = [acq EXCEPT ![r] = "refused"] /\ UNCHANGED <<sock, obs>>
    /\ UNCHANGED <<script, ops, testing, box, wins, watchRan, ios, blind, verdict>>

(* The rival ends; a sink that is closed removes the file at its path. *)
RivalEnds ==
    /\ acq["rival"] = "have"
    /\ acq' = [acq EXCEPT !["rival"] = "ended"]
    /\ sock' = "none"
    /\ UNCHANGED <<script, ops, testing, box, obs, wins, watchRan, ios, blind, verdict>>

(* No sink, no service, no test. *)
LaunchFails ==
    /\ pc = "launch" /\ acq["us"] = "refused"
    /\ pc' = "end" /\ verdict' = "fail"
    /\ UNCHANGED <<script, ops, test, opened, window, boot, box, sock, acq, obs, wins, watchRan, ios, blind>>

----------------------------------------------------------------------------
(* startContainerService: the sandbox, its container ID, its trace *)

Boot ==
    /\ pc = "launch" /\ obs.started /\ boot[1] < Len(script.boxes) /\ boot[2] = "attached"
    /\ boot' = <<boot[1] + 1, "boot">>
    /\ box' = [box EXCEPT ![script.boxes[boot[1] + 1]] = [NoBox EXCEPT !.up = TRUE, !.to = sock]]
    /\ UNCHANGED <<script, ops, test, pc, opened, window, sock, acq, obs, wins, watchRan, ios, blind, verdict>>

Launched == script.boxes[boot[1]]

RecordID ==
    /\ boot[2] = "boot"
    /\ boot' = <<boot[1], "recorded">>
    /\ obs' = [obs EXCEPT !.ids = @ \cup {Launched}]
    /\ UNCHANGED <<script, ops, test, pc, opened, window, box, sock, acq, wins, watchRan, ios, blind, verdict>>

AttachTrace ==
    /\ boot[2] = "recorded"
    /\ boot' = <<boot[1], "attached">>
    /\ obs' = [obs EXCEPT !.containers = @ \cup {Launched}]
    /\ pc' = IF boot[1] = Len(script.boxes) THEN "body" ELSE pc
    /\ UNCHANGED <<script, ops, test, opened, window, box, sock, acq, wins, watchRan, ios, blind, verdict>>

----------------------------------------------------------------------------
(* The sandboxes and the sink *)

Watched(s) == window /\ Windows[opened].svc = s

(* A file operation is reported, with the number of points lost before it,  *)
(* or lost.                                                                 *)
Operation(s) ==
    /\ box[s].up /\ ops < MaxOps
    /\ ops' = ops + 1
    /\ \/ \E kind \in IF "garble" \in script.faults THEN {"point", "garbage"} ELSE {"point"} :
             box' = [box EXCEPT ![s].sent = Append(@, [kind |-> kind, lost |-> box[s].lost])]
       \/ "drop" \in script.faults /\ box' = [box EXCEPT ![s].lost = @ + 1]
    /\ blind' = IF Watched(s) /\ box[s].to # "us" THEN blind \cup {"elsewhere"} ELSE blind
    /\ UNCHANGED <<script, testing, sock, acq, obs, wins, watchRan, ios, verdict>>

(* serviceForContainer, soleTracedService: the service recorded for the ID, *)
(* or the only one there is.                                                *)
ServiceFor(s) ==
    IF s \in obs.ids THEN {s} ELSE IF Cardinality(obs.containers) = 1 THEN obs.containers ELSE {}

(* A point becomes a file_io event when a window of its service is open. *)
OnFileIO(n, s) == IF wins[n] > 0 THEN {[svc |-> n, by |-> s]} ELSE {}

(* A point of no known service is counted once a trace is attached. *)
RouteFileIO(s, read) ==
    LET svc == ServiceFor(s)
    IN /\ obs' = [read EXCEPT !.connected = TRUE,
                    !.unattributed = IF svc = {} /\ obs.containers # {} THEN @ + 1 ELSE @]
       /\ ios' = ios \cup UNION {OnFileIO(n, s) : n \in svc}

(* The count a point carries replaces the sink's, whichever sandbox sent it. *)
HandleMessage(s) ==
    /\ box[s].sent # <<>>
    /\ box' = [box EXCEPT ![s].sent = Tail(@), ![s].told = Head(box[s].sent).lost]
    /\ LET m    == Head(box[s].sent)
           read == [obs EXCEPT !.dropped = IF m.lost > 0 THEN m.lost ELSE @]
       IN IF box[s].to # "us" THEN UNCHANGED <<obs, ios>>
          ELSE IF m.kind = "garbage" THEN obs' = [read EXCEPT !.decodeErr = TRUE] /\ UNCHANGED ios
          ELSE RouteFileIO(s, read)
    /\ blind' = IF pc = "body" /\ opened > 0 /\ box[s].to = "us" /\ Head(box[s].sent).lost > box[s].told
                THEN blind \cup {"lost"} ELSE blind
    /\ UNCHANGED <<script, ops, testing, sock, acq, wins, watchRan, verdict>>

----------------------------------------------------------------------------
(* The test *)

(* watch() and watch_start(): the window, then markWatchRan, which counts   *)
(* the losses afresh.                                                       *)
OpenWindow ==
    /\ pc = "body" /\ ~window /\ opened < Len(Windows)
    /\ opened' = opened + 1 /\ window' = TRUE
    /\ wins' = [wins EXCEPT ![Windows[opened + 1].svc] = @ + 1]
    /\ watchRan' = TRUE
    /\ obs' = [obs EXCEPT !.baseline = obs.dropped]
    /\ blind' = blind \ {"lost"}
    /\ UNCHANGED <<script, ops, test, pc, boot, box, sock, acq, ios, verdict>>

(* watch() ends with its callback; watch_stop closes all of a service's.    *)
(* A window that is left open stays in the registry.                        *)
CloseWindow ==
    /\ pc = "body" /\ window
    /\ window' = FALSE
    /\ wins' = IF Windows[opened].stop THEN [wins EXCEPT ![Windows[opened].svc] = 0] ELSE wins
    /\ UNCHANGED <<script, ops, test, pc, opened, boot, box, sock, acq, obs, watchRan, ios, blind, verdict>>

(* Fault: the summary leaves the drops out. *)
SummaryNoDrops ==
    [started |-> obs.started, connected |-> obs.connected, drops |-> 0,
     unattributed |-> obs.unattributed, decodeErr |-> obs.decodeErr, taken |-> TRUE]

(* What the guard will need, taken before the sink is gone. A count that    *)
(* went down, because another sandbox lost fewer, is no drop.               *)
Summary ==
    [started |-> obs.started, connected |-> obs.connected,
     drops |-> IF obs.started /\ obs.dropped > obs.baseline THEN obs.dropped - obs.baseline ELSE 0,
     unattributed |-> obs.unattributed, decodeErr |-> obs.decodeErr, taken |-> TRUE]

(* stopServices: the sandboxes, then the sink, unless services are kept.    *)
(* What a sandbox still had on its way finds no window's service recorded.  *)
StopServices ==
    /\ pc = "body" /\ ~window /\ opened = Len(Windows)
    /\ pc' = "guard"
    /\ IF "reuse" \in script.faults THEN UNCHANGED <<boot, box, sock, acq, obs>>
       ELSE /\ box' = [s \in Boxes |-> NoBox] /\ boot' = <<0, "attached">>
            /\ obs' = [obs EXCEPT !.final = Summary, !.started = FALSE, !.containers = {}, !.ids = {},
                                  !.unattributed = 0]
            /\ sock' = "none"
            /\ acq' = [acq EXCEPT !["us"] = "idle"]
    /\ UNCHANGED <<script, ops, test, opened, window, wins, watchRan, ios, blind, verdict>>

(* fsObservationFailure *)
Untrusted ==
    LET f == IF obs.final.taken THEN obs.final ELSE Summary
    IN ~f.started \/ ~f.connected \/ f.decodeErr \/ f.drops > 0 \/ f.unattributed > 0

Guard ==
    /\ pc = "guard"
    /\ verdict' = IF Untrusted /\ watchRan THEN "fail" ELSE "pass"
    /\ pc' = "verdict"
    /\ UNCHANGED <<script, ops, test, opened, window, boot, box, sock, acq, obs, wins, watchRan, ios, blind>>

NextTest ==
    /\ pc = "verdict"
    /\ IF test = Len(script.tests) THEN pc' = "end" /\ UNCHANGED test
       ELSE test' = test + 1 /\ pc' = IF "reuse" \in script.faults THEN "body" ELSE "launch"
    /\ opened' = 0 /\ ios' = {} /\ blind' = {}
    /\ UNCHANGED <<script, ops, window, boot, box, sock, acq, obs, wins, watchRan, verdict>>

Next ==
    \/ \E r \in Runs : EnsureFSObservation(r) \/ Stat(r) \/ Probe(r) \/ RemoveStale(r) \/ Listen(r)
    \/ RivalEnds \/ LaunchFails \/ Boot \/ RecordID \/ AttachTrace
    \/ \E s \in Boxes : Operation(s) \/ HandleMessage(s)
    \/ OpenWindow \/ CloseWindow \/ StopServices \/ Guard \/ NextTest

Spec == Init /\ [][Next]_vars

----------------------------------------------------------------------------
(* A window on s that an earlier test left open. *)
LeftOpen(s) ==
    \E t \in 1..test - 1 : \E i \in DOMAIN script.tests[t] : script.tests[t][i] = [svc |-> s, stop |-> FALSE]

Alone == Len(script.boxes) = 1

(* What a window saw is put down to the service that did it, except through *)
(* a window left open by an earlier test (soleTracedService names the       *)
(* service launched first while the next one boots, watch_wire.go:292). And *)
(* a test with a watch passes only when it could see: no loss was reported  *)
(* from the opening of its last window on, unless the counts of several     *)
(* sandboxes overwrite each other and there was one to begin with           *)
(* (watch_wire.go:357, seccheck.go:317); and no operation in a window of    *)
(* the only sandbox went to another run's sink, in the first test (the      *)
(* connection of an earlier one is not forgotten, watch_wire.go:367).       *)
WatchIsHonest ==
    /\ \A e \in ios : e.svc = e.by \/ LeftOpen(e.svc)
    /\ pc = "verdict" /\ verdict = "pass" /\ Windows # <<>> =>
          /\ "lost" \in blind => ~Alone /\ obs.baseline > 0
          /\ "elsewhere" \in blind => ~Alone \/ test > 1

============================================================================
