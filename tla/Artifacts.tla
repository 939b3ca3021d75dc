------------------------------ MODULE Artifacts ------------------------------
(***************************************************************************)
(* The files that faultbox commands share: the last seed                    *)
(* (bundle/seed.go), faultbox.lock (lock/lock.go, cmd/faultbox/lock.go) and *)
(* the .fb bundle of a run (bundle/writer.go and reader.go), as written and *)
(* read by `faultbox test`, `lock`, `lock --check` and `replay`             *)
(* (cmd/faultbox) in processes of their own, any of which may be killed at  *)
(* any step.                                                                *)
(*                                                                          *)
(* A file is an inode, and its content a sequence of blocks, each known by  *)
(* the process that wrote it. os.WriteFile opens and truncates, and then    *)
(* writes at the offset of its own descriptor; one write(2) excludes others *)
(* of the inode, but a reader may see a bundle, which is large, in part.    *)
(***************************************************************************)
EXTENDS Naturals, Sequences, FiniteSets

CONSTANTS Procs,    \* the processes
          Scripts,  \* which command each of them runs: see Command
          Seeds,    \* the seeds that can be drawn
          Worlds    \* what the spec names, and the digest of each: partial functions

Files == {"seed", "seed.tmp", "lock", "lock.tmp", "bundle"}
Absent == 0

(* explicit: --seed, or 0; blocks: the length of what the process writes;   *)
(* version: of the tool, <<major, minor>>, or <<>> for a build like "dev".  *)
Command ==
    [cmd : {"test", "lock", "check", "replay"}, explicit : Nat, blocks : 1 .. 2, version : Seq(Nat), extractOnly : BOOLEAN]

VARIABLES
    cmds,      \* the command of each process
    dir,       \* file -> inode
    data,      \* inode -> blocks
    proc,      \* the processes: see NewProc
    world,     \* the digests of the images and binaries, as they are now
    lastSeed,  \* history: the seed that was renamed into place last, or 0
    lastLock,  \* history: the process whose lock was renamed into place last, or Absent
    overlap    \* history: two processes had a temporary file open at once

vars == <<cmds, dir, data, proc, world, lastSeed, lastLock, overlap>>
history == <<lastSeed, lastLock, overlap>>

(* fd: the inode it has open; obs: the digests it found; seen: what its     *)
(* read of a shared file gave; ran: the seed its suite ran with; of: the    *)
(* process whose bundle it replays.                                         *)
NewProc == [pc |-> "start", seed |-> 0, fd |-> Absent, wrote |-> 0, obs |-> <<>>, seen |-> "nothing",
            wanted |-> 0, ran |-> 0, of |-> Absent, exit |-> 9]

Init ==
    /\ cmds \in Scripts
    /\ dir = [f \in Files |-> Absent]
    /\ data = <<>>
    /\ proc = [p \in Procs |-> NewProc]
    /\ world \in Worlds
    /\ lastSeed = 0 /\ lastLock = Absent /\ overlap = FALSE

At(p, pc) == proc[p].pc = pc
Is(p, cmd) == cmds[p].cmd = cmd
Goes(p, pc) == proc' = [proc EXCEPT ![p].pc = pc]
Exits(p, code) == proc' = [proc EXCEPT ![p].pc = "done", ![p].exit = code]

-----------------------------------------------------------------------------
(* os.WriteFile and os.Rename. *)

Content(file) == IF dir[file] = Absent THEN <<>> ELSE data[dir[file]]

(* One process's data from the first block to the last, and nothing after.  *)
Whole(blocks) == blocks # <<>> /\ Len(blocks) = cmds[blocks[1]].blocks /\ \A k \in DOMAIN blocks : blocks[k] = blocks[1]

(* Opened with O_CREATE and O_TRUNC. *)
OpenTruncated(p, file, next) ==
    /\ IF dir[file] = Absent
       THEN dir' = [dir EXCEPT ![file] = Len(data) + 1] /\ data' = Append(data, <<>>)
       ELSE data' = [data EXCEPT ![dir[file]] = <<>>] /\ UNCHANGED dir
    /\ proc' = [proc EXCEPT ![p].pc = next, ![p].fd = dir'[file], ![p].wrote = 0]

(* The block a process writes next, over what is there. *)
Put(p, n) ==
    data' = [data EXCEPT ![proc[p].fd] =
                [k \in 1 .. (IF Len(@) > n THEN Len(@) ELSE n) |->
                    IF k > proc[p].wrote /\ k <= n THEN p ELSE IF k <= Len(@) THEN @[k] ELSE p]]

(* A write(2) that has begun excludes the others of its inode. *)
MayWrite(p) == \A q \in Procs \ {p} : ~(proc[q].fd = proc[p].fd /\ At(q, "bundle.write") /\ proc[q].wrote > 0)

(* Rename of the temporary file. It is gone when another process that had   *)
(* it open as well has renamed it first.                                    *)
Renames(tmp, file) ==
    IF dir[tmp] = Absent THEN UNCHANGED dir ELSE dir' = [dir EXCEPT ![file] = dir[tmp], ![tmp] = Absent]

Overlaps(p, pcs) == overlap' = (overlap \/ \E q \in Procs \ {p} : proc[q].pc \in pcs)

-----------------------------------------------------------------------------
(* The seed. *)

(* Missing and malformed are the same. *)
ReadSeedFile == IF Whole(Content("seed")) THEN {proc[Content("seed")[1]].seed} ELSE {}

Reading(p) == IF dir["seed"] = Absent THEN "nothing" ELSE IF ReadSeedFile = {} THEN "torn" ELSE "whole"

(* An explicit seed wins; else the one in the file; else a new one. *)
ResolveSeed(p, s) ==
    /\ At(p, "start") /\ Is(p, "test")
    /\ IF cmds[p].explicit # 0
       THEN s = cmds[p].explicit /\ proc' = [proc EXCEPT ![p].seed = s, ![p].pc = "seed.open"]
       ELSE IF ReadSeedFile # {}
       THEN /\ s \in ReadSeedFile
            /\ proc' = [proc EXCEPT ![p].seed = s, ![p].pc = "preflight", ![p].seen = Reading(p), ![p].wanted = lastSeed]
       ELSE proc' = [proc EXCEPT ![p].seed = s, ![p].pc = "seed.open", ![p].seen = Reading(p), ![p].wanted = lastSeed]
    /\ UNCHANGED <<cmds, dir, data, world, history>>

(* Fault: the file is written where it is. *)
OpenSeedInPlace(p) ==
    /\ At(p, "seed.open")
    /\ OpenTruncated(p, "seed", "seed.write")
    /\ Overlaps(p, {"seed.write", "seed.rename"})
    /\ UNCHANGED <<cmds, world, lastSeed, lastLock>>

(* writeSeedFile, in three steps. An error is a warning. *)
OpenSeedTmp(p) ==
    /\ At(p, "seed.open")
    /\ OpenTruncated(p, "seed.tmp", "seed.write")
    /\ Overlaps(p, {"seed.write", "seed.rename"})
    /\ UNCHANGED <<cmds, world, lastSeed, lastLock>>
WriteSeedTmp(p) ==
    /\ At(p, "seed.write")
    /\ Put(p, cmds[p].blocks)
    /\ Goes(p, "seed.rename")
    /\ UNCHANGED <<cmds, dir, world, history>>

RenameSeed(p) ==
    /\ At(p, "seed.rename")
    /\ Renames("seed.tmp", "seed")
    /\ lastSeed' = IF dir["seed.tmp"] = Absent THEN lastSeed ELSE proc[p].seed
    /\ Goes(p, "preflight")
    /\ UNCHANGED <<cmds, data, world, lastLock, overlap>>

-----------------------------------------------------------------------------
(* The lock. *)

(* The lock's digests: what the process that wrote it had found. *)
Locked == proc[Content("lock")[1]].obs

(* A file that is missing is no error; one that does not parse is. *)
Read == IF dir["lock"] = Absent THEN "nothing" ELSE IF Whole(Content("lock")) THEN "whole" ELSE "torn"

(* The images and binaries the spec names are resolved one after the other; *)
(* any may fail.                                                            *)
ResolveDigests(p, ok) ==
    /\ At(p, "start") /\ cmds[p].cmd \in {"lock", "check"}
    /\ IF ok THEN proc' = [proc EXCEPT ![p].obs = world, ![p].pc = IF Is(p, "lock") THEN "lock.open" ELSE "lock.read"]
       ELSE Exits(p, 1)
    /\ UNCHANGED <<cmds, dir, data, world, history>>

(* Lock.Write, for the lock of runLockWrite. *)
OpenLockTmp(p) ==
    /\ At(p, "lock.open")
    /\ OpenTruncated(p, "lock.tmp", "lock.write")
    /\ Overlaps(p, {"lock.write", "lock.rename"})
    /\ UNCHANGED <<cmds, world, lastSeed, lastLock>>
WriteLockTmp(p) ==
    /\ At(p, "lock.write")
    /\ Put(p, cmds[p].blocks)
    /\ Goes(p, "lock.rename")
    /\ UNCHANGED <<cmds, dir, world, history>>
RenameLock(p) ==
    /\ At(p, "lock.rename")
    /\ Renames("lock.tmp", "lock")
    /\ lastLock' = IF dir["lock.tmp"] = Absent THEN lastLock ELSE p
    /\ Exits(p, IF dir["lock.tmp"] = Absent THEN 1 ELSE 0)
    /\ UNCHANGED <<cmds, data, world, lastSeed, overlap>>

(* Names the lock lacks, names that are gone, and digests that moved: first *)
(* of the images, then of the binaries, the latter merged into the former.  *)
Drift(kind, locked, observed) ==
    LET of(f) == {n \in DOMAIN f : n[1] = kind}
    IN [new |-> of(observed) \ of(locked), removed |-> of(locked) \ of(observed),
        changed |-> {n \in of(observed) \cap of(locked) : observed[n] # locked[n]}]
CompareImages(locked, observed) == Drift("image", locked, observed)
CompareBinaries(locked, observed) == Drift("binary", locked, observed)
MergeBinaries(d, b) == [new |-> d.new \cup b.new, removed |-> d.removed \cup b.removed, changed |-> d.changed \cup b.changed]

Empty(d) == d.new = {} /\ d.removed = {} /\ d.changed = {}

RunLockCheck(p) ==
    /\ At(p, "lock.read") /\ Is(p, "check")
    /\ LET code == IF Read # "whole" THEN 1
                   ELSE IF Empty(MergeBinaries(CompareImages(Locked, proc[p].obs), CompareBinaries(Locked, proc[p].obs)))
                   THEN 0 ELSE 2
       IN proc' = [proc EXCEPT ![p].pc = "done", ![p].exit = code, ![p].seen = Read, ![p].of = lastLock]
    /\ UNCHANGED <<cmds, dir, data, world, history>>

(* FAULTBOX_LOCK_STRICT=1 makes a missing lock an error. *)
PreflightLockCheck(p, strict) ==
    /\ At(p, "preflight")
    /\ IF Read = "torn" \/ (Read = "nothing" /\ strict)
       THEN proc' = [proc EXCEPT ![p].pc = "done", ![p].exit = 1, ![p].seen = IF Read = "torn" THEN Read ELSE @]
       ELSE Goes(p, "run")
    /\ UNCHANGED <<cmds, dir, data, world, history>>

-----------------------------------------------------------------------------
(* Bundles. *)

(* The suite runs with the seed; one that cannot run at all has no bundle.  *)
RunSuite(p, ok) ==
    /\ At(p, "run")
    /\ proc' = [proc EXCEPT ![p].ran = proc[p].seed,
                            ![p].pc = IF ok /\ Is(p, "test") THEN "bundle.open" ELSE "done",
                            ![p].exit = IF ~ok THEN 1 ELSE IF Is(p, "replay") THEN 0 ELSE @]
    /\ UNCHANGED <<cmds, dir, data, world, history>>

(* Writer.WriteTo, to a path that was given with --bundle. *)
OpenBundle(p) ==
    /\ At(p, "bundle.open")
    /\ OpenTruncated(p, "bundle", "bundle.write")
    /\ UNCHANGED <<cmds, world, history>>
WriteBundle(p) ==
    /\ At(p, "bundle.write") /\ MayWrite(p)
    /\ Put(p, proc[p].wrote + 1)
    /\ proc' = [proc EXCEPT ![p].wrote = @ + 1, ![p].pc = IF proc[p].wrote + 1 = cmds[p].blocks THEN "done" ELSE @,
                            ![p].exit = IF proc[p].wrote + 1 = cmds[p].blocks THEN 0 ELSE @]
    /\ UNCHANGED <<cmds, dir, world, history>>

(* What Open accepts: gzip and tar refuse a stream that ends early or is a  *)
(* mixture; what lies beyond the archive's end is never read.               *)
Opens(blocks) ==
    /\ blocks # <<>> /\ Len(blocks) >= cmds[blocks[1]].blocks
    /\ \A k \in 1 .. cmds[blocks[1]].blocks : blocks[k] = blocks[1]

MajorOf(version) == IF version = <<>> THEN {} ELSE {version[1]}

CheckVersion(bundle, current) ==
    IF bundle = <<>> \/ current = <<>> THEN "unknown"
    ELSE IF bundle = current THEN "same"
    ELSE IF MajorOf(bundle) # MajorOf(current) THEN "major drift"
    ELSE "minor drift"

(* Another major version is refused, and so is its --extract-only. *)
EnforceReplayVersionPolicy(p, writer) == CheckVersion(cmds[writer].version, cmds[p].version) # "major drift"

(* replay: the bundle is read at once; the spec goes to a directory of its  *)
(* own, if it and the resources it names can be written and checked there;  *)
(* testCmd is called on it with the manifest's seed.                        *)
Replay(p, extracted) ==
    /\ At(p, "start") /\ Is(p, "replay")
    /\ LET b == Content("bundle")
       IN IF ~Opens(b) THEN Exits(p, 1)
          ELSE IF ~EnforceReplayVersionPolicy(p, b[1]) THEN Exits(p, 2)
          ELSE IF ~extracted THEN Exits(p, 1)
          ELSE IF cmds[p].extractOnly THEN proc' = [proc EXCEPT ![p].pc = "done", ![p].exit = 0, ![p].of = b[1]]
          ELSE proc' = [proc EXCEPT ![p].pc = "run", ![p].seed = proc[b[1]].seed, ![p].of = b[1]]
    /\ UNCHANGED <<cmds, dir, data, world, history>>

-----------------------------------------------------------------------------
(* A process is killed; an image is pushed again, or the spec is edited,   *)
(* while there is a command that would notice.                              *)

Running(p) == proc[p].pc \notin {"done", "dead", "lost"}

Crash(p) ==
    /\ Running(p) /\ ~At(p, "start")
    /\ Goes(p, IF At(p, "bundle.write") THEN "lost" ELSE "dead")
    /\ UNCHANGED <<cmds, dir, data, world, history>>

Moves ==
    /\ \E p \in Procs : cmds[p].cmd \in {"lock", "check"} /\ Running(p)
    /\ world' \in Worlds \ {world}
    /\ UNCHANGED <<cmds, dir, data, proc, history>>

Next ==
    \/ \E p \in Procs, s \in Seeds : ResolveSeed(p, s)
    \/ \E p \in Procs, b \in BOOLEAN : ResolveDigests(p, b) \/ PreflightLockCheck(p, b) \/ RunSuite(p, b) \/ Replay(p, b)
    \/ \E p \in Procs : \/ OpenSeedTmp(p) \/ WriteSeedTmp(p) \/ RenameSeed(p)
                        \/ OpenLockTmp(p) \/ WriteLockTmp(p) \/ RenameLock(p) \/ RunLockCheck(p)
                        \/ OpenBundle(p) \/ WriteBundle(p) \/ Crash(p)
    \/ Moves

Spec == Init /\ [][Next]_vars

-----------------------------------------------------------------------------
Torn(p) == proc[p].seen = "torn"

(* However the commands interleave and wherever they are killed, and as     *)
(* long as no two of them write the same file at once: no seed and no lock  *)
(* is read half written; a run without --seed has the seed that was put     *)
(* away last ("first rerun reproduces the last failure", seed.go); `lock    *)
(* --check` finds no drift only when the images and binaries it resolved    *)
(* are those of the lock that was written last. And, even when they do, a   *)
(* replay runs with the seed of the run whose bundle it read.               *)
SharedFilesAreHonest ==
    \A p \in Procs :
        /\ ~overlap => ~Torn(p)
        /\ ~overlap /\ Is(p, "test") /\ cmds[p].explicit = 0 /\ proc[p].seed # 0 =>
              proc[p].wanted \in {0, proc[p].seed}
        /\ ~overlap /\ Is(p, "check") /\ proc[p].exit = 0 =>
              proc[p].of # Absent /\ proc[p].obs = proc[proc[p].of].obs
        /\ Is(p, "replay") /\ proc[p].ran # 0 =>
              proc[p].ran = proc[proc[p].of].ran

(* Runs that share a --bundle path write it in place, one over the other.   *)
(* When none is still writing, and none was killed while it wrote, the file *)
(* is the whole bundle of one of them (Writer.WriteTo writes in one piece). *)
BundleSettles ==
    dir["bundle"] # Absent /\ (\A p \in Procs : proc[p].pc \notin {"bundle.write", "lost"}) => Opens(Content("bundle"))

(* "(write temp + rename) so a concurrent reader never sees a torn write":  *)
(* the comment on writeSeedFile, and the same on Lock.Write. Both use one   *)
(* name for everyone's temporary file, and it fails where two write: the    *)
(* second truncates what the first then renames into place.                 *)
NoTornRead == \A p \in Procs : ~Torn(p)
=============================================================================
