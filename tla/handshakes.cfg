SPECIFICATION Spec
CONSTANTS
    MaxEventsPerFlow = 2
    ConnRows <- MCConnRows
    ReconShapes <- MCReconShapes
    SslRows <- MCSslRows
    HelloFrames <- MCHelloFrames
    GroupNames <- MCGroupNames
    KnownSuites = {"tls13", "ECDHE", "RSA"}
    MaxEvents = 3
    MaxFrames = 2
CHECK_DEADLOCK FALSE
INVARIANTS
    CompleteMeansWhole
    VerdictIgnoresEventOrder
    FramesFollowMessages
    SecrecyIsGrounded
