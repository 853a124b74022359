SPECIFICATION Spec
CONSTANTS
    MaxTouched = 2
INVARIANTS
    ManifestMeansComplete
    ResultIsTruthful
PROPERTIES
    ForeignIsSpared
    CommittedIsKept
CHECK_DEADLOCK FALSE
