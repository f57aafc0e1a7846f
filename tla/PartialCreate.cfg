SPECIFICATION Spec
CONSTANTS
    Ids = {a}
    NoId = none
    Clis = {c1}
    Pids = {1}
    TapOf <- OwnTap
    Pause = {}
    Oversize = {}
    Untimed = {}
    Faults = {"iso"}
    Exclusive = {"create", "start", "state", "kill", "delete"}
    MaxCalls = 2
    MaxCreates = 1
    MaxCrashes = 0
    MaxOthers = 0
CHECK_DEADLOCK FALSE
INVARIANT CreateAtomic
