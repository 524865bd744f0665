\* No power loss, and a first Root taken on trust whatever version it
\* declares: every stored role is signed under the latest Root.
CONSTANTS
    k1 = k1
    k2 = k2
    Keys <- MCKeys
    MaxVersion = 3
    MaxRoot = 3
    MaxRotations = 3
    None = None
    NoHash = NoHash
    ForgeTimestamp = FALSE
    HonestFirstRoot = FALSE
    CrashPossible = FALSE
SPECIFICATION Spec
SYMMETRY KeySymmetry
INVARIANT StoredUnderLatestRoot
