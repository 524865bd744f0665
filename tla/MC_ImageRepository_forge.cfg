\* Stolen Timestamp key: the Snapshot may be rolled back.
CONSTANTS
    k1 = k1
    k2 = k2
    Keys <- MCKeys
    MaxVersion = 3
    MaxRoot = 3
    MaxRotations = 3
    None = None
    NoHash = NoHash
    ForgeTimestamp = TRUE
    HonestFirstRoot = TRUE
    CrashPossible = FALSE
SPECIFICATION Spec
SYMMETRY KeySymmetry
PROPERTY MetaNoRollback
