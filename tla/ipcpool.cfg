SPECIFICATION FairSpec
CONSTANTS
    Ranks = {r1, r2}
    Ids = {1, 2}
    None = None
    MaxFaults = 2
    MaxCalls = 4
INVARIANTS TypeOK MemoryIsSound RanksAgree
PROPERTY CallsEnd
CHECK_DEADLOCK FALSE
