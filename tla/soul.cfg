SPECIFICATION FairSpec
CONSTANTS
    reach = reach
    Checks = {reach}
    Requires <- MCRequires
    Reach = {reach}
    Cap = 1
    None = None
    MaxTurns = 2
INVARIANTS TypeOK StoodDownIsQuiet IncidentsTold
PROPERTIES NothingLost LevelIsFollowed
CHECK_DEADLOCK FALSE
