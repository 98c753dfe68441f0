SPECIFICATION Spec
CONSTANTS
    Runs = {1, 2}
    Workers = {w1}
    Clients = {c1}
    w1 = w1
    c1 = c1
    MaxCrashes = 0
    MaxFaults = 1
    MaxRetries = 1
INVARIANTS
    TypeOK
    AckedCancelHonoured
    CompletedIsPublished
    AppendedOnce
