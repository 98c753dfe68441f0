SPECIFICATION LiveSpec
CONSTANTS
    Runs = {1, 2}
    Workers = {w1}
    Clients = {}
    w1 = w1
    MaxCrashes = 2
    MaxFaults = 2
    MaxRetries = 0
INVARIANTS
    WorkerSurvives
PROPERTIES
    ImplementsLifecycle
    Drained
