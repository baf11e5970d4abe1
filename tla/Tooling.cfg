SPECIFICATION Spec
CONSTANTS
    o1 = o1
    o2 = o2
    a = a
    b = b
    Orders = {o1, o2}
    Molds = {a, b}
    Workers = {w1, w2}
    Needs <- MCNeeds
    Stock <- MCStock
    Strict = {o2}
    None = None
INVARIANTS TypeOK OneOwner OwnedIsAvailable 
PROPERTIES ResumesWithItsMolds RunningOrderKeepsItsMolds
SYMMETRY Symmetric
