SPECIFICATION Spec
CONSTANTS
    Uploads = {u1, u2, u3, u4}
    Identities = {empty, wrong, small, large, huge}
    WrongMagic = {wrong}
    SizeOf <- MCSizes
    u1 = u1
    u2 = u2
    u3 = u3
    u4 = u4
    empty = empty
    wrong = wrong
    small = small
    large = large
    huge = huge
    MaxCapture = 3
    MaxJobs = 2
    MaxBytes = 4
    ThreadCounts = {1, 2}
SYMMETRY UploadSymmetry
CHECK_DEADLOCK FALSE
INVARIANTS
    RefusalLeavesNothing
    JobHasCapture
    JobOverrunBounded
    SerialByteLimit
    DuplicatesBounded
