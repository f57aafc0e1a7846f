SPECIFICATION Spec
CONSTANTS
    Ids = {a, b}
    NoId = none
    Clis = {c1, c2}
    Pids = {1, 2}
    TapOf <- SharedTap
    Pause = {b}
    Oversize = {}
    Untimed = {}
    Faults = {}
    Exclusive = {"delete"}
    MaxCalls = 5
    MaxCreates = 2
    MaxCrashes = 0
    MaxOthers = 0
CHECK_DEADLOCK FALSE
SYMMETRY CliSymmetry
INVARIANTS
    RaceInv
    AtMostOneInit
    TapHeld
