SPECIFICATION Spec
CONSTANTS
    None = None
    Batches = {b1, b2}
    Epcs = {e1, e2}
    DirectEpcs = {e2}
    Operations = {p1, p2}
    Goods = {g1, g2}
    MaxRevision = 2
INVARIANTS OperationKeepsItsBatch EveryPrintIsListed StockMatchesItsLabel
PROPERTIES BookedOnce
SYMMETRY Symmetry
