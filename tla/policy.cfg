SPECIFICATION Spec
CONSTANTS
    Rules <- MCRules
    Roles <- MCRoles
    Clock = "capture_start_time"
    FlowShapes <- MCFlowShapes
    SessionShapes <- MCSessionShapes
    HandshakeShapes <- MCHandshakeShapes
    CertificateShapes <- MCCertificateShapes
    Assets <- MCAssets
    AnalysisDay = 3
    MaxEvidence = 4
    MaxFindings = 4
    MaxChecks = 6
CHECK_DEADLOCK FALSE
INVARIANTS
    LossNeverFlipsAVerdict
    ChecksAgreeWithFindings
    HeadlineIsHonest
    BreakdownsAddUp
    ClustersKeepTheWorst
