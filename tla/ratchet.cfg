CONSTANTS
    Threads = {t1}
    i1 = i1
    i2 = i2
    i3 = i3
    i4 = i4
    Inodes = {i1, i2, i3}
    NoFile = NoFile
    Empty = Empty
    Garbled = Garbled
    MaxRequests = 4
    PageMayDie = TRUE
    MaxBoots = 2
SPECIFICATION SwitchesSpec
INVARIANTS SwitchesTypeOK AckedTightening
PROPERTY RatchetHolds
CHECK_DEADLOCK FALSE
