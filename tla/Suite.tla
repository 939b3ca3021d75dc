------------------------------- MODULE Suite -------------------------------
(***************************************************************************)
(* `faultbox test`: the seed it resolves (bundle/seed.go), the suite loop  *)
(* over tests, runs and plan leaves (Runtime.RunAll and runTestFanout), how *)
(* the verdicts are counted, the final cleanup, and the exit code          *)
(* (cmd/faultbox testStarCmd).                                             *)
(*                                                                         *)
(* One run of one leaf (runTestImpl) is an input here: any verdict, with or *)
(* without a failed teardown; module TestRun models what happens inside.   *)
(***************************************************************************)
EXTENDS Naturals, Sequences, FiniteSets

CONSTANTS Sizes,      \* the suites to consider: see SizeType
          MaxLeaves,  \* bound: plan leaves of one test
          Seeds       \* the seeds a user, the cache or the generator can supply

(* The discovered tests, the value of --runs when it is given, and the      *)
(* syscalls (a bound) that can be held in an --explore=all run.             *)
SizeType == [tests : Nat, runs : Nat \ {0}, held : Nat]

SuiteConstants ==
    /\ Sizes \subseteq SizeType /\ MaxLeaves \in Nat \ {0}
    /\ Seeds \subseteq Nat /\ Seeds # {}

LOCAL Order == INSTANCE Orderings

VARIABLES
    size,         \* the suite
    pc,           \* the place in testStarCmd / RunAll / runTestFanout
    cfg,          \* RunConfig; seed is {} until ResolveSeed
    seedFile,     \* .faultbox/last-seed: {} or one seed
    test, run,    \* the loop variables of RunAll, run counting from 0
    testRuns,     \* runs this test gets
    leaves,       \* the number of plan leaves of this run
    leafResults,  \* runTestFanout's results, one record per leaf that ran
    suite,        \* SuiteResult: the counters
    rows,         \* SuiteResult.Tests
    interrupted,  \* ctx is cancelled: SIGINT or SIGTERM
    poisoned,     \* Runtime.shutdownFailed
    exit,         \* the process's exit code, once it has one
    tallied,      \* history: every leaf result that reached the counters
    planned       \* history: the leaves of all the plans runTestFanout made

vars == <<size, pc, cfg, seedFile, test, run, testRuns, leaves, leafResults, suite, rows,
          interrupted, poisoned, exit, tallied, planned>>

loop == <<test, run, testRuns, leaves, leafResults>>
report == <<suite, rows, tallied, planned>>

Verdicts == {"pass", "fail", "error", "inconclusive", "halted"}
Tests == size.tests
RunsGiven == cfg.runs > 0
cancelled == interrupted \/ poisoned
Counted(rs, kinds) == Cardinality({i \in DOMAIN rs : rs[i].result \in kinds})

Init ==
    /\ size \in Sizes
    /\ pc = "boot"
    /\ cfg \in [selected : SUBSET (1..Tests), failOnly : BOOLEAN, runs : {0, size.runs},
                exploreAll : BOOLEAN, cliSeed : {{}} \cup {{s} : s \in Seeds}, seed : {{}}]
    /\ seedFile \in {{}} \cup {{s} : s \in Seeds}
    /\ test = 0 /\ run = 0 /\ testRuns = 0 /\ leaves = 0 /\ leafResults = <<>>
    /\ suite = [matched |-> 0, pass |-> 0, fail |-> 0, inconclusive |-> 0, halted |-> 0, aborted |-> 0]
    /\ rows = <<>> /\ interrupted = FALSE /\ poisoned = FALSE
    /\ exit = {} /\ tallied = <<>> /\ planned = 0

----------------------------------------------------------------------------
(* The seed: the flag, else the cached one, else a fresh one; a seed that   *)
(* did not come from the cache is written to it, if the write succeeds.     *)
ResolveSeed ==
    /\ pc = "boot"
    /\ \E s \in IF cfg.cliSeed # {} THEN cfg.cliSeed ELSE IF seedFile # {} THEN seedFile ELSE Seeds :
          /\ cfg' = [cfg EXCEPT !.seed = {s}]
          /\ seedFile' \in IF cfg.cliSeed = {} /\ seedFile # {} THEN {seedFile} ELSE {seedFile, {s}}
    /\ pc' = "tests"
    /\ UNCHANGED <<loop, report, interrupted, poisoned, exit>>

(* A second interrupt changes nothing more. *)
Interrupt ==
    /\ ~interrupted /\ pc \notin {"boot", "done"}
    /\ interrupted' = TRUE
    /\ UNCHANGED <<pc, cfg, seedFile, loop, report, poisoned, exit>>

----------------------------------------------------------------------------
(* RunAll *)

(* The next test the filter selects; a cancelled suite only counts it. *)
NextTest ==
    /\ pc = "tests" /\ test < Tests
    /\ test' = test + 1
    /\ IF test' \notin cfg.selected
       THEN UNCHANGED <<pc, suite, run, testRuns>>
       ELSE IF cancelled
            THEN /\ suite' = [suite EXCEPT !.matched = @ + 1, !.aborted = @ + 1]
                 /\ UNCHANGED <<pc, run, testRuns>>
            ELSE /\ suite' = [suite EXCEPT !.matched = @ + 1]
                 /\ run' = 0 /\ testRuns' = IF RunsGiven THEN cfg.runs ELSE 1
                 /\ pc' = "runs"
    /\ UNCHANGED <<cfg, seedFile, leaves, leafResults, rows, tallied, planned, interrupted, poisoned, exit>>

(* The head of the loop over runs. *)
NextRun ==
    /\ pc = "runs"
    /\ \/ /\ run >= testRuns
          /\ pc' = "tests" /\ UNCHANGED suite
       \/ /\ run < testRuns /\ cancelled
          /\ suite' = [suite EXCEPT !.aborted = @ + 1]
          /\ pc' = "tests"
       \/ /\ run < testRuns /\ ~cancelled
          /\ pc' = "discover" /\ UNCHANGED suite
    /\ leaves' = 0 /\ leafResults' = <<>>
    /\ UNCHANGED <<cfg, seedFile, test, run, testRuns, rows, tallied, planned, interrupted, poisoned, exit>>

(* One leaf through runTestSafelyLeaf. A poisoned runtime refuses it with a *)
(* failure; a failed teardown is a failure, or an error when a panic        *)
(* follows it, and poisons the runtime.                                     *)
LeafRuns(result) ==
    IF poisoned
    THEN result = "fail" /\ UNCHANGED poisoned
    ELSE \/ UNCHANGED poisoned
         \/ result \in {"fail", "error"} /\ poisoned' = TRUE

Recorded(result) == [test |-> test, result |-> result]

(* The discovery run of leaf 0. With no axes its result is the run's; with  *)
(* axes it only counts the leaves, and leaf 0 runs again.                   *)
Discover ==
    /\ pc = "discover"
    /\ \E result \in Verdicts, n \in 1..MaxLeaves :
          /\ LeafRuns(result)
          /\ leaves' = n /\ planned' = planned + n
          /\ leafResults' = IF n = 1 THEN <<Recorded(result)>> ELSE <<>>
          /\ pc' = IF n = 1 THEN "tally" ELSE "leaves"
    /\ UNCHANGED <<cfg, seedFile, test, run, testRuns, suite, rows, tallied, interrupted, exit>>

(* The leaf loop does not advance. *)
RunLeafAgain ==
    /\ pc = "leaves"
    /\ leafResults = <<>> \/ ~interrupted
    /\ \E result \in Verdicts :
          /\ LeafRuns(result)
          /\ leafResults' = <<Recorded(result)>>
    /\ UNCHANGED <<pc, cfg, seedFile, test, run, testRuns, leaves, report, interrupted, exit>>

(* Leaf 0 runs whatever happened meanwhile; a later one only if ctx lives. *)
RunLeaf ==
    /\ pc = "leaves" /\ Len(leafResults) < leaves
    /\ leafResults = <<>> \/ ~interrupted
    /\ \E result \in Verdicts :
          /\ LeafRuns(result)
          /\ leafResults' = Append(leafResults, Recorded(result))
    /\ pc' = IF Len(leafResults') = leaves THEN "tally" ELSE "leaves"
    /\ UNCHANGED <<cfg, seedFile, test, run, testRuns, leaves, report, interrupted, exit>>

SkipLeaves ==
    /\ pc = "leaves" /\ leafResults # <<>> /\ Len(leafResults) < leaves /\ interrupted
    /\ suite' = [suite EXCEPT !.aborted = @ + (leaves - Len(leafResults))]
    /\ pc' = "tally"
    /\ UNCHANGED <<cfg, seedFile, loop, rows, tallied, planned, interrupted, poisoned, exit>>

(* The counters and the rows --show fail keeps. *)
Kept(r) == ~cfg.failOnly \/ r.result \notin {"pass", "halted"}

(* A halted leaf has no counter. *)
TalliedInNoHalted(s, rs) ==
    [s EXCEPT !.pass = @ + Counted(rs, {"pass"}),
              !.inconclusive = @ + Counted(rs, {"inconclusive"}),
              !.fail = @ + Counted(rs, {"fail", "error"})]

TalliedIn(s, rs) ==
    [s EXCEPT !.pass = @ + Counted(rs, {"pass"}),
              !.inconclusive = @ + Counted(rs, {"inconclusive"}),
              !.halted = @ + Counted(rs, {"halted"}),
              !.fail = @ + Counted(rs, {"fail", "error"})]

(* After the first run of --explore=all the held syscalls say how many runs *)
(* there are; a failure ends the runs of this test when there are several.  *)
Tally ==
    /\ pc = "tally"
    /\ suite' = TalliedIn(suite, leafResults)
    /\ rows' = rows \o SelectSeq(leafResults, Kept)
    /\ tallied' = tallied \o leafResults
    /\ \E held \in 0..size.held :
          testRuns' = IF cfg.exploreAll /\ ~RunsGiven /\ run = 0 /\ held > 0 THEN Order!Factorial(held) ELSE testRuns
    /\ run' = run + 1
    /\ pc' = IF testRuns' > 1 /\ Counted(leafResults, {"fail", "error"}) > 0 THEN "tests" ELSE "runs"
    /\ UNCHANGED <<cfg, seedFile, test, leaves, leafResults, planned, interrupted, poisoned, exit>>

(* The last row takes the blame for a runtime whose shutdown failed, if its *)
(* events, the last test's, hold a shutdown error: one of cleanup's own, or *)
(* one of the last teardown, which RunTestLeaf has already charged.         *)
Blamed ==
    LET last == Len(rows)
        previous == rows[last].result
    IN  /\ rows' = [rows EXCEPT ![last].result = "fail"]
        /\ suite' = IF previous = "fail" THEN suite
                    ELSE [suite EXCEPT !.fail = @ + 1,
                                       !.pass = @ - (IF previous = "pass" THEN 1 ELSE 0),
                                       !.inconclusive = @ - (IF previous = "inconclusive" THEN 1 ELSE 0)]

Cleanup ==
    /\ pc = "tests" /\ test = Tests
    /\ \/ UNCHANGED poisoned
       \/ poisoned' = TRUE
    /\ IF poisoned' /\ rows # <<>> THEN Blamed ELSE UNCHANGED <<rows, suite>>
    /\ pc' = "exit"
    /\ UNCHANGED <<cfg, seedFile, loop, tallied, planned, interrupted, exit>>

ExitCode ==
    IF cfg.selected # 1..Tests /\ suite.matched = 0 THEN 1
    ELSE IF suite.fail > 0 THEN 2
    ELSE IF suite.inconclusive > 0 THEN 3
    ELSE 0

ExitIgnoringClose ==
    /\ pc = "exit"
    /\ poisoned' \in {poisoned, TRUE}
    /\ exit' = {ExitCode}
    /\ pc' = "done"
    /\ UNCHANGED <<cfg, seedFile, loop, report, interrupted>>

(* The deferred Close may fail too, and a failed shutdown overrides the code. *)
Exit ==
    /\ pc = "exit"
    /\ poisoned' \in {poisoned, TRUE}
    /\ exit' = {IF poisoned' THEN 1 ELSE ExitCode}
    /\ pc' = "done"
    /\ UNCHANGED <<cfg, seedFile, loop, report, interrupted>>

Done == pc = "done" /\ UNCHANGED vars

SuiteStep ==
    /\ \/ ResolveSeed \/ NextTest \/ NextRun \/ Discover \/ RunLeaf
       \/ SkipLeaves \/ Tally \/ Cleanup \/ Exit
    /\ UNCHANGED size

Next == SuiteStep \/ (Interrupt /\ UNCHANGED size) \/ Done

Spec == Init /\ [][Next]_vars

(* The process runs on; a signal need not come. *)
FairSpec == Spec /\ WF_vars(SuiteStep)

----------------------------------------------------------------------------

(* An interrupted suite does not read as a complete smaller one: a selected *)
(* test with no result, and a planned leaf with none, is counted in Aborted *)
(* (runTestFanout's skipped, and the two checks of RunAll).  Every other    *)
(* leaf is in exactly one counter of the summary line; only a failed        *)
(* shutdown, charged to a last row that halted or errored, counts a leaf    *)
(* twice (runtime.go:1223-1236).                                            *)
EverythingIsAccounted ==
    LET unrun == {t \in cfg.selected : \A i \in DOMAIN tallied : tallied[i].test # t}
        counted == suite.pass + suite.fail + suite.inconclusive + suite.halted
    IN  pc = "done" =>
          /\ planned + Cardinality(unrun) <= Len(tallied) + suite.aborted
          /\ counted = Len(tallied) \/ (poisoned /\ counted = Len(tallied) + 1)

(* Exit code 0 hides nothing that was measured: no leaf failed, panicked or *)
(* was inconclusive, whatever --show fail dropped, and no teardown failed,  *)
(* cleanup's and Close's included; and if nothing was aborted, every        *)
(* selected test has a result (testStarCmd).                                *)
GreenIsEarned ==
    exit = {0} =>
        /\ Counted(tallied, {"fail", "error", "inconclusive"}) = 0 /\ ~poisoned
        /\ suite.aborted = 0 =>
              \A t \in cfg.selected : \E i \in DOMAIN tallied : tallied[i].test = t

(* The suite ends, with or without an interrupt: the loops over tests, runs *)
(* and leaves terminate, also when --explore=all raises the number of runs. *)
SuiteOver == pc = "done"
============================================================================
