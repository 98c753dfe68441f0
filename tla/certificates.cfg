SPECIFICATION Spec
CONSTANTS
    Certs <- MCCerts
    Fuids <- MCFuids
    FileRows <- MCFileRows
    SslRows <- MCSslRows
    Lower <- MCLower
    BadLabel = "bad"
    Starred = {"*", "m*"}
    AnchorSubjects = {"root"}
    ExpectedHostname <- NoId
    AnalysisTime = 4
    WarningWindow = 2
    MaxCertificates = 3
    MaxChainDepth = 3
    MaxSanEntries = 3
CHECK_DEADLOCK FALSE
INVARIANTS
    OneCertificatePerPlace
    VerdictsHaveReasons
    PathVerdictsAreGrounded
    IdentityNeedsItsParentDomain
