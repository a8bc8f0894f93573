CONSTANTS
    Setting <- AnySetting
    TermSig = {INT}
    CHLD = CHLD
    NoSig = NoSig
    Handler = {h1, h2}
    PIPE_CAP = 1
    MAX_SERVE_ATTEMPTS = 2
SPECIFICATION Spec
SYMMETRY Symmetry
INVARIANTS TypeOK NoLostSignal NoLostExit CommandStoppedFirst NothingLeftBehind AnnouncedWasPublished
CHECK_DEADLOCK FALSE
