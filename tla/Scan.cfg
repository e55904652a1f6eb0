SPECIFICATION MCSpec
CONSTANTS
    m1 = m1
    m2 = m2
    Markets = {m1, m2}
    Orders <- MCOrders
    Prices <- MCPrices
    Notional <- MCNotional
    Multipliers = {1, 2}
    FeePerUnit <- MCFeePerUnit
    FeeScale = 10
    Steps = {1, 3}
    CoarseStep = 3
    MaxQuantity = 3
    Ladders <- MCLadders
    Faults = {"none", "book_integrity", "book_epoch", "journal", "connection", "scalar",
              "no_notional", "excluded", "other_book", "wrong_claim", "uncovered",
              "stale_relation", "stale_certificate", "wrong_market", "notional", "void_state"}
    Timelines <- MCTimelines
    Instants = {1, 2}
INVARIANTS
    NetFeeIsBounded
    ProvenClaimPays
    ProvenLossLoses
    SweepMissesNothing
PROPERTIES
    NetFeeNeverFalls
CHECK_DEADLOCK FALSE
