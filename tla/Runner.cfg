CONSTANTS
    Last = 3
    Timed = {1, 3}
    Buffer = 1
    MaxSize = 2
SPECIFICATION RunFairSpec
INVARIANTS RunTypeOK PidFileWhole ConfigBeforeInit FailureLeaves TermLeavesNoInit HooksInOrder NoHookLeft
PROPERTIES CreateEnds TimedHooksEnd
CHECK_DEADLOCK FALSE
