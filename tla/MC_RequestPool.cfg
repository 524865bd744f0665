\* Three objects, concurrency up to 2, every mode and fsck setting.
\* The loop ends for good when the pool is idle: no deadlock check.
CONSTANTS
    o1 = o1
    o2 = o2
    o3 = o3
    Objects <- MCObjects
    MaxConcurrency = 2
SPECIFICATION Spec
INVARIANTS
    TypeOK
    InFlightBounded
    ExitAccountsAll
PROPERTY
    PoolTerminates
CHECK_DEADLOCK FALSE
