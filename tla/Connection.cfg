CONSTANTS
    Request <- MCRequest
    NoLength = NoLength
    CHUNK = 2
    MAX_HEADER_BYTES = 1
    MAX_REQUEST_BODY_BYTES = 2
    WINDOW = 1
    SENDS <- MCSends
SPECIFICATION FairSpec
INVARIANTS TypeOK RequestIsWhole
PROPERTIES Streams EverythingArrives WorkerReturns
CHECK_DEADLOCK FALSE
