SPECIFICATION FairSpec
CONSTANTS
    ok = ok
    crash = crash
    hang = hang
    Inputs <- MCInputs
    Kind <- MCKind
    Pid = {p1, p2}
    NoPid = NoPid
    NoInput = NoInput
    Mode = "faux"
    MaxCnt = 2
    KillSignal = "KILL"
PROPERTY Refines
PROPERTY RunReturns
