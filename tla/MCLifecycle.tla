---------------------------- MODULE MCLifecycle ----------------------------
(***************************************************************************)
(* From the command line to a supervised process, on small instances.  A   *)
(* behaviour shows one of four things, the others stay as they started: a  *)
(* test (TestRun), the suite around the tests (Suite), the services under  *)
(* a test (Services), the supervision of one service (Supervisor).         *)
(***************************************************************************)
EXTENDS TestRun

CONSTANTS MaxLeaves, MaxTests, MaxFaults, Calls

VARIABLES part,
    size, spc, scfg, seedFile, test, srun, testRuns, leaves, leafResults, suite, rows,
    interrupted, poisoned, exit, tallied, planned,
    setup, vpc, at, stage, vtest, session, recorded, proc, inst, orphans, data, proxy, env,
    ctxDone, vpoisoned, faults, panicked,
    mode, target, sigkill, call, handler, loop, why, term, waitDone, cancelled, stopNotif,
    fdOpen, main, supervisorFailed

suiteVars == <<size, spc, scfg, seedFile, test, srun, testRuns, leaves, leafResults, suite, rows,
               interrupted, poisoned, exit, tallied, planned>>
serviceVars == <<setup, vpc, at, stage, vtest, session, recorded, proc, inst, orphans, data,
                 proxy, env, ctxDone, vpoisoned, faults, panicked>>
superVars == <<mode, target, sigkill, call, handler, loop, why, term, waitDone, cancelled,
               stopNotif, fdOpen, main, supervisorFailed>>
all == <<part, vars, suiteVars, serviceVars, superVars>>

(* Two tests that run once, or one that may be repeated. *)
TwoTests == [tests |-> 2, runs |-> 1, held |-> 0]
Repeated == [tests |-> 1, runs |-> 2, held |-> 2]
S == INSTANCE Suite WITH pc <- spc, cfg <- scfg, run <- srun,
        Sizes <- {TwoTests, Repeated}, Seeds <- {0}

(* The usual shape: a database container the API depends on, and a remote   *)
(* or mocked third party.                                                   *)
ResetDb == [kind |-> [ext |-> "mock", db |-> "container", api |-> "binary"],
            reuse |-> {"db"}, hasReset |-> {"db"}, shimmed |-> {}]
SeededDb == [ResetDb EXCEPT !.kind.ext = "remote", !.hasReset = {}, !.shimmed = {"db"}]
KeptApi == [ResetDb EXCEPT !.reuse = {"api"}, !.hasReset = {}]
V == INSTANCE Services WITH pc <- vpc, test <- vtest, poisoned <- vpoisoned,
        Order <- <<"ext", "db", "api">>, DependsOn <- [ext |-> {}, db |-> {}, api |-> {"db", "ext"}],
        Setups <- {ResetDb, SeededDb, KeptApi}

P == INSTANCE Supervisor WITH ctxDone <- cancelled, Modes <- {"binary", "external"}

ASSUME S!SuiteConstants /\ V!ServicesConstants /\ P!SupervisorConstants

(* The test declarations. *)
Plain == [expect |-> "none", declares |-> {}, from |-> "start", to |-> "none",
          terminate |-> FALSE, monitor |-> FALSE, monotone |-> TRUE,
          reused |-> FALSE, mortal |-> FALSE, outcomes |-> {"returned"}, events |-> {"plain"},
          maxEvents |-> 2, emitters |-> 2, runs |-> 1]

(* Both kinds of expectation, a monitor and terminate_when; the expect=     *)
(* object is the eventually(), the body declares the always().              *)
Everything == [Plain EXCEPT !.expect = "eventually", !.declares = {"always"},
                  !.terminate = TRUE, !.monitor = TRUE,
                  !.events = {"good", "bad", "stop"}]

(* The same with whatever may become of the body and its supervisors, and   *)
(* one emission at a time.                                                  *)
Troubled == [Everything EXCEPT !.mortal = TRUE, !.outcomes = Finished,
                !.events = {"bad", "stop"}, !.emitters = 1]

(* Windows with anchors, in the log or at the end of the body. *)
Windowed == [Plain EXCEPT !.expect = "always", !.from = "open", !.to = "close",
                !.events = {"open", "bad", "close"}, !.maxEvents = 3, !.emitters = 1]
UntilBodyEnd == [Plain EXCEPT !.expect = "always", !.to = "bodyEnd",
                    !.declares = {"eventually"}, !.events = {"good", "bad"}]

(* Two runs with reused services, so that the emissions of the first go on  *)
(* in the second; the body declares its always() anew in each.              *)
Twice == [Plain EXCEPT !.expect = "eventually", !.declares = {"always"}, !.monitor = TRUE,
             !.monotone = FALSE, !.reused = TRUE, !.events = {"good", "bad"},
             !.maxEvents = 1, !.runs = 2]

(* Two runs with one expect= object and one terminate_when. *)
EventuallyTwice == [Plain EXCEPT !.expect = "eventually", !.terminate = TRUE,
                       !.events = {"good", "stop"}, !.maxEvents = 1, !.emitters = 1, !.runs = 2]
AlwaysTwice == [Plain EXCEPT !.expect = "always", !.monitor = TRUE,
                   !.events = {"bad", "plain"}, !.maxEvents = 1, !.emitters = 1, !.runs = 2]

AllConfigs == {Plain, Everything, Troubled, Windowed, UntilBodyEnd, Twice, EventuallyTwice, AlwaysTwice}
PerTest == {EventuallyTwice}

ExpectAlways == {[Plain EXCEPT !.expect = "always", !.outcomes = Finished, !.events = {"bad", "plain"}]}

(* Where the seed comes from is asked of a small suite only, and --runs and  *)
(* --explore=all of the one that repeats.                                    *)
SeedMatters == size = Repeated /\ scfg.selected = {}
RunsMatter == size = Repeated \/ (scfg.runs = 0 /\ ~scfg.exploreAll)

MCInit ==
    /\ part \in {"test", "suite", "services", "supervisor"}
    /\ Init /\ S!Init /\ V!Init /\ P!Init
    /\ part # "test" => cfg = CHOOSE c \in Configs : TRUE
    /\ part # "suite" => /\ size = TwoTests /\ seedFile = {}
                         /\ scfg = [selected |-> {}, failOnly |-> FALSE, runs |-> 0,
                                    exploreAll |-> FALSE, cliSeed |-> {}, seed |-> {}]
    /\ part = "suite" => SeedMatters \/ (scfg.cliSeed = {} /\ seedFile # {} /\ RunsMatter)
    /\ part # "services" => setup = ResetDb
    /\ part # "supervisor" => mode = "binary"

Test(A) == part = "test" /\ A /\ UNCHANGED <<part, suiteVars, serviceVars, superVars>>
Suite(A) == part = "suite" /\ A /\ UNCHANGED <<part, vars, serviceVars, superVars>>
Service(A) == part = "services" /\ A /\ UNCHANGED <<part, vars, suiteVars, superVars>>
Supervised(A) == part = "supervisor" /\ A /\ UNCHANGED <<part, vars, suiteVars, serviceVars>>

MCNext == Test(Next) \/ Suite(S!Next) \/ Service(V!Next) \/ Supervised(P!Next)

MCSpec ==
    /\ MCInit /\ [][MCNext]_all
    /\ WF_all(Test(RuntimeStep) \/ Suite(S!SuiteStep) \/ Supervised(P!RuntimeStep))

(* One test and nothing else. *)
TestSpec == (MCInit /\ part = "test") /\ [][MCNext]_all

(* An interrupted suite does not read as a complete smaller one, and every  *)
(* leaf is in exactly one counter (RunAll, runTestFanout).                  *)
EverythingIsAccounted == S!EverythingIsAccounted

(* Exit code 0 hides nothing that was measured (testStarCmd). *)
GreenIsEarned == S!GreenIsEarned

(* After cleanup nothing the runtime knows of is left, whatever panicked,   *)
(* crashed or failed to start on the way (stopServices, cleanup).           *)
NothingLeft == V!NothingLeft

(* A body runs on services of its own, seeded, and told where their         *)
(* dependencies are (startServices).                                        *)
FreshServices == V!FreshServices

(* Dependents stop before the services they depend on (stopServices). *)
DependentsStopFirst == [][V!StopsInOrder]_all

(* Nothing outlives a session, and only a loop that really broke is         *)
(* reported (launch_linux.go 277-285, checkSupervisorExit).                 *)
SessionIsHonest == P!SessionIsHonest

(* A started run ends with a verdict even if its body never does; the suite *)
(* ends, interrupted or not; a cancelled session ends, and a loop that      *)
(* broke under a running target is noticed.                                 *)
LifecycleEnds == <>[](RunOver /\ (part = "suite" => S!SuiteOver) /\ P!SessionSettles)
============================================================================
