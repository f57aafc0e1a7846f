SPECIFICATION Spec
CONSTANTS
    Ids = {a}
    NoId = none
    Clis = {c1, c2}
    Pids = {1, 2}
    TapOf <- OwnTap
    Pause = {}
    Oversize = {}
    Untimed = {}
    Faults = {"setup"}
    Exclusive = {}
    MaxCalls = 4
    MaxCreates = 2
    MaxCrashes = 0
    MaxOthers = 0
CHECK_DEADLOCK FALSE
INVARIANT StoppedMeansDead
