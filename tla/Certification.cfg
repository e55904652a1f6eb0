SPECIFICATION Spec
CONSTANTS
    Markets <- MCMarkets
    Documents <- MCDocuments
    Sources <- MCSources
    Published <- MCDocuments
    Content <- MCContent
    Declared <- MCDeclared
    Lineages <- MCLineages
    History <- MCHistory
    IssuedOn <- MCIssuedOn
    Campaigns <- MCCampaigns
    Reviewers <- MCReviewers
    MaxAmendments = 1
    MaxFaults = 1
CONSTRAINT MCConstraint
ACTION_CONSTRAINT MCActionConstraint
INVARIANTS
    ActiveMeansTrue
    ActiveMeansReviewed
    CertificatesAreBacked
    DerivedExactlyOneHolds
PROPERTIES
    RecordsAreKept
\* Captures are bounded.
CHECK_DEADLOCK FALSE
