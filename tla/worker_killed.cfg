SPECIFICATION Spec
CONSTANTS
    Runs = {1}
    Workers = {w1}
    Clients = {c1}
    w1 = w1
    c1 = c1
    MaxCrashes = 0
    MaxFaults = 0
    MaxRetries = 0
INVARIANTS
    WorkerSurvives
