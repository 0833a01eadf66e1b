CONSTANTS
    None = None
    Torn = Torn
    r1 = r1
    r2 = r2
    Revs = {r1, r2}
    Grafts = TRUE
    Visions = TRUE
    MaxFaults = 2
SPECIFICATION Spec
SYMMETRY Symmetry
INVARIANTS TypeOK ServedIsConsistent BackupsKept WishHonoured
