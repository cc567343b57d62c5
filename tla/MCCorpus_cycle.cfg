SPECIFICATION Spec
CONSTANTS
    NumBits = 2
    Traces <- NestedTraces
    Lens = {1}
    Times = {1, 3}
    MaxItems = 3
    MaxSeeds = 2
    MaxLevel = 1
    MaxRestarts = 1
    CycleSchedules = TRUE
    DisableRedundant = FALSE
    CrashingSeeds = TRUE
INVARIANTS RefCount CountersAgree
