SPECIFICATION Spec
CHECK_DEADLOCK FALSE
CONSTANTS
    Markets = {1, 2, 3}
    Market <- MCMarket
    AskedMarkets = {}
    AskedEvents = {1}
    Count = 2
    Fees <- MCFees
    MaxAge <- MCMaxAge
    MaxSessions = 2
    MaxFrames = 1
    MaxFaults = 2
    MaxIssues = 1
INVARIANTS
    VerifiedReplayIsTheSession
    AbsentMeansUnissued
