\* Five declarations of a test; suites of two tests; three services and three
\* tests with two faults; three intercepted syscalls.
SPECIFICATION MCSpec
CONSTANTS
    Configs <- AllConfigs
    MaxLeaves = 2
    MaxTests = 3
    MaxFaults = 2
    Calls = {c1, c2, c3}
INVARIANTS
    VerdictIsEarned
    SeenIsDecisive
    EverythingIsAccounted
    GreenIsEarned
    NothingLeft
    FreshServices
    SessionIsHonest
PROPERTIES
    DependentsStopFirst
    LifecycleEnds
