SPECIFICATION Spec
CONSTANTS
    NumBits = 3
    Traces <- OverlappingTraces
    Lens = {1, 2}
    Times = {1, 3}
    MaxItems = 3
    MaxSeeds = 2
    MaxLevel = 1
    MaxRestarts = 0
    CycleSchedules = FALSE
    DisableRedundant = TRUE
    CrashingSeeds = TRUE
INVARIANTS TypeOK RefCount SeenHasWinner MiniIsOwnTrace CountersAgree SmallestFavored
PROPERTIES CullCovers
