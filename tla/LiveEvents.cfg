SPECIFICATION Spec
CONSTANTS
    None = None
    Sockets = {s1}
    Kinds = {"state", "elsewhere"}
    MaxCommits = 2
    MaxGaps = 1
    MaxDrops = 0
    RegistryLimit = 1
    NotifyCapacity = 1
    HistoryEntries = 1
    MaxReads = 2
INVARIANTS TypeOK NothingIsLost
CHECK_DEADLOCK FALSE
