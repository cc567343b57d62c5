SPECIFICATION Spec
CONSTANTS
    q1 = q1
    q2 = q2
    q3 = q3
    q4 = q4
    Entries <- FourEntries
    NoEntry = NoEntry
    Lens = {1, 2, 4}
    MaxSize = 6
    MaxEntries = 4
    Slack = 1
    U32 = 64
SYMMETRY Sym
INVARIANTS SlotsAgree InBounds VictimExists BufferHolds NoUnderflow
