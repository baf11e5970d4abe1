SPECIFICATION Spec
CHECK_DEADLOCK FALSE
CONSTANTS
    o1 = o1
    o2 = o2
    r1 = r1
    r2 = r2
    s1 = s1
    s2 = s2
    Servers = {s1, s2}
    Orders = {o1, o2}
    Apparatuses = {a1}
    Printing = {}
    Strict = {a1}
    Finite = {}
    Arrival <- TwoOrders
    HoldIds = {}
    Requests = {r1, r2}
    Server <- TwoServers
    MaxRevision = 1
    MaxStops = 1
    MaxCrashes = 0
SYMMETRY Symmetric
INVARIANT OneOccupant
INVARIANT WorkMatchesQueue
INVARIANT ClosedStaysOut
PROPERTY NoWorkAfterStop
INVARIANT StoppedMachineIsQuiet
