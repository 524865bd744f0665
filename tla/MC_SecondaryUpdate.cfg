\* Roots up to version 3: two rotations of each repository; no power loss
\* between storeRoot and clearNonRootMeta.
CONSTANTS
    MaxRoot = 3
    CrashPossible = FALSE
SPECIFICATION Spec
PROPERTY InstallUnderCurrentRoots
