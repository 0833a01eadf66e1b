CONSTANTS
    c1 = c1
    c2 = c2
    c3 = c3
    t1 = t1
    t2 = t2
    Configs = {c1, c2}
    Envs <- OtherTemplate
    Unset = Unset
    None = None
    MaxStamp = 0
    Tabs = {t1}
    MaxOps = 1
    MaxFaults = 1
    Broken = {c2}
    MaxRestarts = 3
    VerifyEnabled = TRUE
SPECIFICATION FairSpec
PROPERTIES AckedApplyBoots Settles SelfHeals
CHECK_DEADLOCK FALSE
