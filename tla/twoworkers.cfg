CONSTANTS
    Posts = {p1, p2}
    Workers = {w1, w2}
    None = None
    MaxFaults = 0
SPECIFICATION TerminationSpec
INVARIANT OneTermination
CHECK_DEADLOCK FALSE
