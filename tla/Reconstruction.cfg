SPECIFICATION Spec
CONSTANTS
  m1 = m1
  m2 = m2
  Markets <- MCMarkets
  Sids <- MCSids
  Slots <- MCSlots
  SidOf <- MCSidOf
  ChannelOf <- MCChannelOf
  MaxEpoch = 2
  MaxFrames <- MCMaxFrames
  MaxQuantity = 1
SYMMETRY MCSymmetry
INVARIANTS
  ProvenanceIsExact
  EligibleMatchesVenue
  EligibleIsAuditable
  ViolatedSidShowsNothing
PROPERTIES
  LossIsJustified
  FeedSpec
\* The last connection is closed for good, or every bound is reached.
CHECK_DEADLOCK FALSE
