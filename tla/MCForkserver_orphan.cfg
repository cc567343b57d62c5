SPECIFICATION Spec
CONSTANTS
    ok = ok
    crash = crash
    hang = hang
    Inputs <- MCInputs
    Kind <- MCKind
    Pid = {p1, p2}
    NoPid = NoPid
    NoInput = NoInput
    Mode = "persistent"
    MaxCnt = 2
    KillSignal = "KILL"
INVARIANT NoOrphan
