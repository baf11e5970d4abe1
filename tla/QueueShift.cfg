SPECIFICATION Spec
CHECK_DEADLOCK FALSE
CONSTANTS
    o1 = o1
    o2 = o2
    r1 = r1
    r2 = r2
    s1 = s1
    s2 = s2
    Servers = {s1, s2}
    Orders = {o1, o2}
    Apparatuses = {a1}
    Printing = {a1}
    Strict = {}
    Finite = {a1}
    Arrival <- TwoOrders
    HoldIds = {h1}
    Requests = {r1}
    Server <- OneServer
    MaxRevision = 2
    MaxStops = 1
    MaxCrashes = 1
SYMMETRY Symmetric
INVARIANT TypeOK
INVARIANT StopHasAWayOut
 
PROPERTY ReleasedGoToTheTail
PROPERTY NobodyOvertakesRunningWork
 
INVARIANT TrialMatchesQueue
