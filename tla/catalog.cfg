SPECIFICATION Spec
CONSTANTS
    Cases = {c1, c2, c3}
    Readers = {r1}
    MaxReports = 2
    MaxPublishes = 4
    MaxPowerLosses = 1
SYMMETRY CaseSymmetry
CHECK_DEADLOCK FALSE
INVARIANTS
    ReadersNeverFail
    PublishedIsServed
    CatalogIsReadable
PROPERTIES
    DamageIsNeverHidden
