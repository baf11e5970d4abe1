SPECIFICATION Spec
CONSTANTS
    None = None
    Sockets = {s1}
    Kinds = {"state"}
    MaxCommits = 1
    MaxGaps = 0
    MaxDrops = 0
    RegistryLimit = 1
    NotifyCapacity = 1
    HistoryEntries = 1
    MaxReads = 2
INVARIANT SettledClientIsCurrent
CHECK_DEADLOCK FALSE
