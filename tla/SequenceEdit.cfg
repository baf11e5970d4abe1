SPECIFICATION Spec
CHECK_DEADLOCK FALSE
CONSTANTS
    Ids = {w, x, y, z}
    Blank = blank
    MaxLen = 4
INVARIANTS EditRebuildsTheList GivesUpOnlyOnBadLists
