CONSTANTS
    Session = {s1, s2}
    Port = {p1, f1}
    FunnelPort = {f1}
    NoPort = NoPort
    SET_ATTEMPTS = 2
SPECIFICATION FairSpec
INVARIANTS TypeOK OnePerPort SessionHoldsRoute
PROPERTIES Ownership_Spec NoOrphanRoute EndedRunGetsNoRoute LostRouteIsSeen OpenReturns
CHECK_DEADLOCK FALSE
