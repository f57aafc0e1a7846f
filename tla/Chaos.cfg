SPECIFICATION Spec
CONSTANTS
    Ids = {a}
    NoId = none
    Clis = {c1, c2}
    Pids = {1, 2}
    TapOf <- OwnTap
    Pause = {}
    Oversize = {}
    Untimed = {}
    Faults = {"spec", "dir", "iso", "tap", "io", "fork", "starttime", "save", "pidfile", "oom", "rm", "tapdel", "setup", "exec"}
    Exclusive = {}
    MaxCalls = 3
    MaxCreates = 2
    MaxCrashes = 1
    MaxOthers = 0
CHECK_DEADLOCK FALSE
SYMMETRY CliSymmetry
INVARIANTS
    TypeOK
    NoSignalToOwnGroup
    OneStartPerGate
PROPERTY ImplementsStartGate
