CONSTANTS
    Pid = {1, 2, 3}
    Session = {1}
    Parent <- MCParent
    Leader <- MCLeader
    PortOf <- MCPortOf
SPECIFICATION Spec
PROPERTY SessionNotKilled
CHECK_DEADLOCK FALSE
