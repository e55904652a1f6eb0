SPECIFICATION MCSpec
CONSTANTS
    Tickers <- MCTickers
    MaxPages = 2
    MaxTime = 2
    MaxFaults = 1
    Unread = Unread
    Undetermined = Undetermined
    Determined = Determined
    Unbounded = Unbounded
    Values <- MCValues
    Strikes <- MCStrikes
    Domains <- MCDomains
    MaxMembers = 3
INVARIANTS
    NothingIsOmitted
    NoFalseAccusation
    CitableIsFinal
    SupportMeansCovered
    GapIsReal
\* The enumeration ends with its evidence, and every member has been read.
CHECK_DEADLOCK FALSE
