SPECIFICATION Spec
CONSTANTS
    Frames = {1, 2, 3, 4}
    Tags = {"a", "b"}
    MaxEvents = 4
    Observations <- MCObservations
CHECK_DEADLOCK FALSE
INVARIANTS
    VerdictOfTranscript
    NeverInventTls
    BadVerdictShowsItsFrame
PROPERTY
    VerdictOnlyRises
