SPECIFICATION Spec
CONSTANTS
    Ids = {a}
    NoId = none
    Clis = {c1, c2, c3}
    Pids = {1}
    TapOf <- OwnTap
    Pause = {}
    Oversize = {}
    Untimed = {}
    Faults = {"io", "fork", "pidfile", "oom", "setup", "exec"}
    Exclusive = {"create", "delete"}
    MaxCalls = 5
    MaxCreates = 2
    MaxCrashes = 0
    MaxOthers = 1
CHECK_DEADLOCK FALSE
SYMMETRY CliSymmetry
INVARIANTS
    StoppedMeansDead
    NoOrphanInit
    DeletedClean
    TornOnlyWhileSaving
    UndoneClean
    FreshCreate
    LifetimeInv
PROPERTIES
    StatusForward
    ImplementsOci
