CONSTANTS
    Setting <- LiveSetting
    TermSig = {INT}
    CHLD = CHLD
    NoSig = NoSig
    Handler = {h1}
    PIPE_CAP = 1
    MAX_SERVE_ATTEMPTS = 2
SPECIFICATION FairSpec
PROPERTIES SignalEndsRun CommandEndsRun RouteLossEndsRun StartDecides
CHECK_DEADLOCK FALSE
