SPECIFICATION Spec
CHECK_DEADLOCK FALSE
CONSTANTS
    o1 = o1
    Orders = {o1, o2}
    MapsAtStart <- OneOrder
    Admins = {c1, c2}
    Keys = {k1}
    NoOrder = NoOrder
    Nothing = Nothing
    MaxAttempts = 3
    MaxRevision = 6
    MaxChanges = 4
    MaxLosses = 1
SYMMETRY Symmetric
INVARIANTS TypeOK OutboxHasNoHole ReplayShowsTheVersion
PROPERTY MoveContract
