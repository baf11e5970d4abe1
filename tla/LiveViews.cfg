SPECIFICATION Spec
CONSTANTS
    None = None
    Sockets = {s1, s2}
    Kinds = {"colour", "sequence"}
    MaxCommits = 1
    MaxGaps = 0
    MaxDrops = 1
    RegistryLimit = 1
    NotifyCapacity = 1
    HistoryEntries = 2
    MaxReads = 2
INVARIANTS SameRevisionSameQueue 
CHECK_DEADLOCK FALSE
PROPERTY FeedCatchesUp
