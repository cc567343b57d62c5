SPECIFICATION Spec
CONSTANTS
    NumBits = 2
    Traces <- TwoBitTraces
    Lens = {1, 2}
    Times = {1, 3}
    MaxItems = 2
    MaxSeeds = 1
    MaxLevel = 3
    MaxRestarts = 0
    CycleSchedules = TRUE
    DisableRedundant = FALSE
    CrashingSeeds = FALSE
INVARIANTS GivenUpNotPicked
