CONSTANTS
    Pid = {1, 2, 3}
    Session = {1}
    Parent <- MCParent
    Leader <- MCLeader
    PortOf <- MCPortOf
SPECIFICATION FairSpec
INVARIANTS TypeOK QuestionHasRow OneRowPerProcess PortListedOnce KillFollowsStop
PROPERTIES CursorStays ListSettles
CHECK_DEADLOCK FALSE
