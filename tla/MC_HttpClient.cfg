\* Two retries, limits 2 (get) and 3 (post/put), bodies up to 4 bytes.
CONSTANTS
    RetryTimes = 2
    MaxSize = 2
    RespLimit = 3
    MaxBody = 4
SPECIFICATION Spec
INVARIANTS
    TypeOK
    OkResponseIsLastBody
    RetriesExact
