SPECIFICATION Spec
CONSTANTS
    Frames = {1, 2}
    Tags = {"a1"}
    Flows <- MCFlows
    Rows <- MCRows
    FrameShapes <- MCFrameShapes
    Ssl <- MCSsl
    MaxRows = 3
    MaxFrames = 2
    MergeWindow = 2
    SessionBound = 2
CHECK_DEADLOCK FALSE
INVARIANTS
    IdentityIsUnanimous
    MergeKeepsEvents
    
    TruncationNeverAccuses
