SPECIFICATION FairSpec
CONSTANTS
    Ids = {a, b, h}
    NoId = none
    Clis = {c1, c2}
    Pids = {1}
    TapOf <- OwnTap
    Pause = {}
    Oversize = {b}
    Untimed = {h}
    Faults = {"pidfile", "setup", "exec"}
    Exclusive = {"create", "delete"}
    MaxCalls = 4
    MaxCreates = 1
    MaxCrashes = 0
    MaxOthers = 0
CHECK_DEADLOCK FALSE
PROPERTIES
    CommandsEnd
