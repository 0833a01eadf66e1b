CONSTANTS
    c1 = c1
    c2 = c2
    c3 = c3
    t1 = t1
    t2 = t2
    Configs = {c1, c2, c3}
    Envs <- OtherHost
    Unset = Unset
    None = None
    MaxStamp = 1
    Tabs = {t1, t2}
    MaxOps = 2
    MaxFaults = 1
    Broken = {c3}
    MaxRestarts = 1
    VerifyEnabled = TRUE
SYMMETRY Symmetry
SPECIFICATION Spec
INVARIANTS TypeOK NoLostUpdate AckedApplyKept EngineIsJustified
PROPERTIES RollbackOnlyFailed LifecycleRefined
CHECK_DEADLOCK FALSE
