SPECIFICATION Spec
CONSTANTS
    Markets <- MCMarkets
    Documents <- MCDocuments
    Sources <- MCSources
    Published <- MCDocuments
    Content <- MCContent
    Declared <- MCDeclared
    Lineages <- MCLineages
    History <- MCHistory
    IssuedOn <- MCIssuedOn
    Campaigns <- MCCampaigns
    Reviewers <- MCReviewers
    MaxAmendments = 1
    MaxFaults = 1
PROPERTIES
    RecordsAreNeverRewritten
\* Captures are bounded.
CHECK_DEADLOCK FALSE
