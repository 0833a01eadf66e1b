SPECIFICATION Spec
CONSTANTS
    Reqs = {1, 2}
    Blocks = {1, 2, 3, 4}
    Prompt = 2
    MaxNew = 2
    MaxRunning = 2
    Budget = 2
    Depth = 2
    MaxFaults = 1
    MaxAborts = 1
    None = None
    Unready = Unready
INVARIANTS TypeOK OwnBlocks OwnKv
CHECK_DEADLOCK FALSE
