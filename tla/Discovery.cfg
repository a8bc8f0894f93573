CONSTANTS
    Proc <- MCProc
    Root = 2
    Address <- MCAddress
    CHANGES = 5
SPECIFICATION Spec
INVARIANT NoRivalMissed
PROPERTIES QuietPollIsRight HelpersAreLeftAlone
CHECK_DEADLOCK FALSE
