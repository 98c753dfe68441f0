SPECIFICATION AdvisorySpec
CONSTANTS
    Captures <- MCCaptures
    MaxRuns = 5
    MaxDeletions = 1
    MaxWindows = 7
    MinHistory = 2
    MinTrain = 3
    MinSessions = 2
    Gate = 1008
    RarityRatio = 5
    MaxItems = 2
CHECK_DEADLOCK FALSE
INVARIANTS
    HistoryIsTheNewest
    AnomaliesHaveHistory
PROPERTY
    WarmupNeverRegresses
