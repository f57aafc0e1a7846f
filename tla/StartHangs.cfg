SPECIFICATION FairSpec
CONSTANTS
    Ids = {a}
    NoId = none
    Clis = {c1, c2}
    Pids = {1}
    TapOf <- OwnTap
    Pause = {}
    Oversize = {}
    Untimed = {}
    Faults = {}
    Exclusive = {"create", "delete"}
    MaxCalls = 3
    MaxCreates = 1
    MaxCrashes = 0
    MaxOthers = 0
CHECK_DEADLOCK FALSE
PROPERTY StartReturns
