\* Roots up to version 3, with power loss between storeRoot and
\* clearNonRootMeta.
CONSTANTS
    MaxRoot = 3
    CrashPossible = TRUE
SPECIFICATION Spec
INVARIANT TypeOK
