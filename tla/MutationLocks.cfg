SPECIFICATION FairSpec
CONSTANTS
    Tasks = {t1, t2}
    Keys = {1, 2, 3}
    Mutexes = {1, 2, 3}
INVARIANTS TypeOK Exclusion NoSplitMutex
PROPERTY Served
