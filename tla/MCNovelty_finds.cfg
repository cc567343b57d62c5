SPECIFICATION Spec
CONSTANTS
    dull = dull
    long = long
    short = short
    other = other
    flaky = flaky
    slow = slow
    crasher = crasher
    Inputs = {dull, long, short, other, flaky, slow, crasher}
    Edges = {1, 2, 3, 4}
    Seeds <- MCSeeds
    Behaviour <- MCBehaviour
    Shorter <- MCShorter
    SanCrashes <- MCSanCrashes
    Configs <- MCConfigs
    CAL_CYCLES = 2
    CAL_CYCLES_LONG = 3
    CAL_CHANCES = 2
    KEEP_UNIQUE_HANG = 2
    KEEP_UNIQUE_CRASH = 2
    MaxItems = 5
INVARIANTS CksumIsOwn VarBytesReal FilesRetain SavedDistinct
PROPERTIES NoFlakyFind
CHECK_DEADLOCK FALSE
