SPECIFICATION FairSpec
CONSTANTS
    ok = ok
    crash = crash
    hang = hang
    Inputs <- MCInputs
    Kind <- MCKind
    Pid = {p1, p2}
    NoPid = NoPid
    NoInput = NoInput
    Mode = "persistent"
    MaxCnt = 2
    KillSignal = "KILL"
INVARIANT TypeOK
INVARIANT PipesInStep
INVARIANT OneChild
INVARIANT MapIsQuiet
INVARIANT VerdictIsOfThisInput
INVARIANT LoopBound
INVARIANT OnlyTheWindowOrphans
PROPERTY Refines
PROPERTY RunReturns
PROPERTY StopTakesEffect
