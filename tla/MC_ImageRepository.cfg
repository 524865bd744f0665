\* Honest first Root, no stolen key, crashes possible.
CONSTANTS
    k1 = k1
    k2 = k2
    Keys <- MCKeys
    MaxVersion = 3
    MaxRoot = 3
    MaxRotations = 3
    None = None
    NoHash = NoHash
    ForgeTimestamp = FALSE
    HonestFirstRoot = TRUE
    CrashPossible = TRUE
SPECIFICATION Spec
SYMMETRY KeySymmetry
INVARIANT TypeOK
INVARIANT RootChainValid
INVARIANT UpdateLeavesVerifiableStore
PROPERTY MetaNoRollback
