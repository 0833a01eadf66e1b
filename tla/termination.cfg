CONSTANTS
    Posts = {p1, p2}
    Workers = {w1, w2}
    None = None
    MaxFaults = 2
SPECIFICATION TerminationSpec
INVARIANTS TerminationTypeOK EngineDownDuringErase
PROPERTIES LockStopsDestroy ServingResumes
CHECK_DEADLOCK FALSE
