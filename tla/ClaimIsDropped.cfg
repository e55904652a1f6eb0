SPECIFICATION Spec
CHECK_DEADLOCK FALSE
CONSTANTS
    Markets = {1, 2, 3}
    Market <- MCMarket
    AskedMarkets = {1}
    AskedEvents = {1}
    Count = 2
    Fees <- MCFees
    MaxAge <- MCMaxAge
    MaxSessions = 1
    MaxFrames = 1
    MaxFaults = 0
    MaxIssues = 1
INVARIANT ClaimIsReplayedAsRecorded
