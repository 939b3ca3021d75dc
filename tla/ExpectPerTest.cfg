\* One expect= object over two runs.
SPECIFICATION TestSpec
CONSTANTS
    Configs <- PerTest
    MaxLeaves = 2
    MaxTests = 3
    MaxFaults = 2
    Calls = {c1, c2, c3}
INVARIANT RegistrationsArePerTest
