\* halt() next to an always() violation.
SPECIFICATION TestSpec
CONSTANTS
    Configs <- ExpectAlways
    MaxLeaves = 2
    MaxTests = 3
    MaxFaults = 2
    Calls = {c1, c2, c3}
INVARIANT HaltNeverHidesViolation
