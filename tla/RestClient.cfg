SPECIFICATION Spec
CONSTANTS
    s1 = s1
    s2 = s2
    s3 = s3
    Callers <- MCCallers
    Walks = 3
    Permits = 2
    MinInterval = 1
    Capacity = 2
    Rate = 1
    Cost = 2
    MaxAttempts = 2
    MaxDelay = 1
    MaxPages = 2
    MaxCancels = 1
INVARIANTS
    SpentBucketIsNotOverdrawn
PROPERTIES
    EveryWalkEnds
