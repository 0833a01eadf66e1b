SPECIFICATION FairSpec
CONSTANTS
    Reqs = {1, 2}
    Blocks = {1, 2, 3}
    Prompt = 2
    MaxNew = 1
    MaxRunning = 2
    Budget = 1
    Depth = 1
    MaxFaults = 1
    MaxAborts = 0
    None = None
    Unready = Unready
PROPERTY TransfersEnd
CHECK_DEADLOCK FALSE
