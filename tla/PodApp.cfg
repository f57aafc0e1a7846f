SPECIFICATION PodSpec
CONSTANTS
    Conts = {pause, app}
    NoCont = NoCont
    TapOf <- CutTapName
    Pause = {pause}
    Others = {}
INVARIANT AppServed
CHECK_DEADLOCK FALSE
