SPECIFICATION FairSpec
CONSTANTS
    m = m
    s1 = s1
    c0 = c0
    c1 = c1
    c2 = c2
    None = None
    Mains = {m}
    Seeds <- MCSeeds
    Fuzzers = {m, s1}
    Cases = {c0, c1, c2}
    MaxFinds = 1
    MaxEnds = 1
    MaxResume = 1
    MaxFresh = 1
INVARIANTS  MainIsMarked
PROPERTIES MainYields 
