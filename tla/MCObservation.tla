---------------------------- MODULE MCObservation ----------------------------
(* What the runtime observes of the services and what the commands leave on
   disk, in five kinds of behaviours: the event log and its vector clocks, a
   Kafka consumer group of two, the owner of a connection, watch() windows over
   one or two sandboxes, and the seed, lock and bundle files of three commands.
   A behaviour has one of these parts; the event log is there in all. *)
EXTENDS EventLog, TLC

CONSTANTS test, none, api, db

Names == {test, api, db}

VARIABLES part,
          setup, faults, dead, broker, member, req, wr, fetch, fwr, obs, emitted, wait, fetched,
          proc, started, table, bind, bridge, bridges, regs, next, res, events,
          script, nth, pc, opened, window, boot, box, sock, acq, fs, wins, watchRan, ops, ios, blind, verdict,
          cmds, dir, data, run, world, lastSeed, lastLock, overlap

groupVars == <<setup, faults, dead, broker, member, req, wr, fetch, fwr, obs, emitted, wait, fetched>>
ownerVars == <<proc, started, table, bind, bridge, bridges, regs, next, res, events>>
watchVars == <<script, nth, pc, opened, window, boot, box, sock, acq, fs, wins, watchRan, ops, ios, blind, verdict>>
fileVars == <<cmds, dir, data, run, world, lastSeed, lastLock, overlap>>

(* Two consumers behind one client ID, told apart by their processes; the
   same, not told apart at all; two client IDs, of processes nobody knows. *)
Pair(m, n) == [m1 |-> m, m2 |-> n]
By(client, source) == [client |-> client, source |-> source]
Unproven == {Pair(By("c", "unknown"), By("c", "unknown")), Pair(By("c", "unknown"), By("d", "unknown"))}
Groups == {Pair(By("c", "A"), By("c", "B"))} \cup Unproven

K == INSTANCE KafkaGroups WITH log <- emitted, Members <- {"m1", "m2"}, Parts <- {"p"}, Setups <- Groups,
       FaultSets <- {{}, {"leave"}, {"death"}, {"publish", "restart"}}, MaxSeq <- 6, MaxGen <- 2

O == INSTANCE ConnOwner WITH Pids <- {1, 2}, Inodes <- {1, 2}, Direct <- "direct", Bridged <- "bridged",
       MaxStart <- 3, MaxToken <- 2, MaxEvents <- 6

Db == [svc |-> "db", stop |-> TRUE]
App == [svc |-> "app", stop |-> TRUE]
Left == [svc |-> "db", stop |-> FALSE]
One(tests, trouble) == [boxes |-> <<"db">>, tests |-> tests, faults |-> trouble]
Two(tests, trouble) == [boxes |-> <<"db", "app">>, tests |-> tests, faults |-> trouble]
WatchScripts ==
  {One(<<<<Db>>, <<>>, <<Db>>>>, {"drop"}), One(<<<<Db>>, <<Left>>>>, {"drop", "reuse"}),
   One(<<<<Db, Db>>>>, {"drop"}), One(<<<<Left>>, <<Db>>>>, {"garble", "litter"}), One(<<<<Db>>, <<Db>>>>, {"rival"}),
   Two(<<<<Db, App>>, <<Db>>>>, {}), Two(<<<<Left>>, <<App>>>>, {}), Two(<<<<Db>>>>, {"drop"})}

W == INSTANCE Watch WITH obs <- fs, test <- nth, Scripts <- WatchScripts, MaxOps <- 4

(* Three runs of a spec; two runs and a replay of what they leave; two locks
   and a check; a lock, a run and a check. *)
Command(cmd, explicit, blocks, version, extractOnly) ==
  [cmd |-> cmd, explicit |-> explicit, blocks |-> blocks, version |-> version, extractOnly |-> extractOnly]
Suite(explicit, blocks) == Command("test", explicit, blocks, <<0, 9>>, FALSE)
Lock(blocks) == Command("lock", 0, blocks, <<0, 9>>, FALSE)
Check == Command("check", 0, 1, <<0, 9>>, FALSE)
ReplayOf(version, extractOnly) == Command("replay", 0, 1, version, extractOnly)
Commands ==
  {<<Suite(1, 1), Suite(2, 1), Suite(0, 1)>>, <<Suite(2, 1), Suite(0, 2), ReplayOf(<<0, 10>>, FALSE)>>,
   <<Suite(1, 2), ReplayOf(<<1, 0>>, FALSE), ReplayOf(<<>>, TRUE)>>,
   <<Lock(1), Lock(2), Check>>, <<Lock(2), Suite(1, 1), Check>>}
Image(d) == <<"image", "db">> :> d
Digests == {Image(1) @@ <<"binary", "app">> :> 1, Image(2) @@ <<"binary", "app">> :> 1, Image(1)}

A == INSTANCE Artifacts WITH proc <- run, Procs <- 1..3, Scripts <- Commands, Seeds <- {1, 2}, Worlds <- Digests

(* The variables of the parts a behaviour does not have. *)
NoGroup ==
  /\ setup = 0 /\ faults = 0 /\ dead = 0 /\ broker = 0 /\ member = 0 /\ req = 0 /\ wr = 0 /\ fetch = 0 /\ fwr = 0
  /\ obs = 0 /\ emitted = 0 /\ wait = 0 /\ fetched = 0
NoOwner ==
  /\ proc = 0 /\ started = 0 /\ table = 0 /\ bind = 0 /\ bridge = 0 /\ bridges = 0 /\ regs = 0 /\ next = 0 /\ res = 0
  /\ events = 0
NoWatch ==
  /\ script = 0 /\ nth = 0 /\ pc = 0 /\ opened = 0 /\ window = 0 /\ boot = 0 /\ box = 0 /\ sock = 0 /\ acq = 0
  /\ fs = 0 /\ wins = 0 /\ watchRan = 0 /\ ops = 0 /\ ios = 0 /\ blind = 0 /\ verdict = 0
NoFiles ==
  /\ cmds = 0 /\ dir = 0 /\ data = 0 /\ run = 0 /\ world = 0 /\ lastSeed = 0 /\ lastLock = 0 /\ overlap = 0

(* The images do not change for commands that do not look at them. *)
NoDigests == \A p \in DOMAIN cmds : cmds[p].cmd \in {"test", "replay"}

MCInit ==
  /\ Init
  /\ \/ part = "causality" /\ NoGroup /\ NoOwner /\ NoWatch /\ NoFiles
     \/ part = "kafka" /\ K!Init /\ (setup \in Unproven => faults \subseteq {"leave"}) /\ NoOwner /\ NoWatch /\ NoFiles
     \/ part = "owner" /\ NoGroup /\ O!Init /\ NoWatch /\ NoFiles
     \/ part = "watch" /\ NoGroup /\ NoOwner /\ W!Init /\ NoFiles
     \/ part = "files" /\ NoGroup /\ NoOwner /\ NoWatch /\ A!Init /\ (NoDigests => world = Image(1))

Causality(B) == part = "causality" /\ B /\ UNCHANGED <<part, groupVars, ownerVars, watchVars, fileVars>>
Kafka(B) == part = "kafka" /\ B /\ UNCHANGED <<part, vars, ownerVars, watchVars, fileVars>>
Owner(B) == part = "owner" /\ B /\ UNCHANGED <<part, vars, groupVars, watchVars, fileVars>>
Watching(B) == part = "watch" /\ B /\ UNCHANGED <<part, vars, groupVars, ownerVars, fileVars>>
Files(B) == part = "files" /\ B /\ UNCHANGED <<part, vars, groupVars, ownerVars, watchVars>>

all == <<part, vars, groupVars, ownerVars, watchVars, fileVars>>

MCNext == Causality(Next) \/ Kafka(K!Next) \/ Owner(O!Next) \/ Watching(W!Next) \/ Files(A!Next)

MCSpec == MCInit /\ [][MCNext]_all
FilesSpec == MCInit /\ part = "files" /\ [][Files(A!Next)]_all

(* What wait_ready and wait_committed promise is true of the consumers
   (kafka_groups.go:237, kafka_wait.go:69). *)
GatesAreHonest == part = "kafka" => K!GatesAreHonest

(* A connection is put down to a service only when a process of its tree
   made it (tracker.go:183). *)
OwnersAreProven == part = "owner" => O!OwnersAreProven

(* A watch() test that passed saw what its last window stands for, and put
   it down to the service that did it, but for windows left open, counts that
   overwrite each other and a connection remembered (watch_wire.go:357). *)
WatchIsHonest == part = "watch" => W!WatchIsHonest

(* The seed, the lock and the bundle a command reads are whole and are the
   ones put there last, unless two commands write one file at once
   (seed.go:82, lock.go:105, writer.go:67). *)
ArtifactsAreHonest == part = "files" => A!SharedFilesAreHonest /\ A!BundleSettles

(* "so a concurrent reader never sees a torn write" (seed.go:75). *)
NoTornRead == part = "files" => A!NoTornRead
==============================================================================
