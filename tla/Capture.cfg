CONSTANTS
    PIPE = 2
    SIZE = 4
SPECIFICATION FairSpec
INVARIANT WholeOutput
PROPERTY CaptureEnds
CHECK_DEADLOCK FALSE
