SPECIFICATION FairCollectorSpec
CONSTANTS
  m1 = m1
  Markets <- MCMarkets
  Sids <- MCSids
  Slots <- MCSlots
  SidOf <- MCSidOf
  ChannelOf <- MCChannelOf
  MaxFrames <- MCMaxFrames
  MaxEpoch = 1
  MaxQuantity = 1
  MaxAttempts = 1
  StopOnJournalFailure = TRUE
PROPERTIES
  TearDownLeavesNothingStale
  JournalFailureIsFinal
  AlarmEndsConnection
  DeadTransportIsLeft
  BrokenFeedStops
\* run() returns.
CHECK_DEADLOCK FALSE
