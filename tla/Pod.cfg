SPECIFICATION PodFairSpec
CONSTANTS
    Conts = {pause, app}
    NoCont = NoCont
    TapOf <- CutTapName
    Pause = {pause}
    Others = {u1}
INVARIANTS PodTypeOK ServedConnected RaceHasWinner WinInv
PROPERTIES ImplementsAddrOwner SomeoneServed DeviceAppears
CHECK_DEADLOCK FALSE
