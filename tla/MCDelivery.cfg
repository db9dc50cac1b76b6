SPECIFICATION FairSpec
CONSTANTS
    Ids <- MCIds
    Designs <- MCDesigns
    Inputs <- MCInputs
    CampaignsOf <- MCCampaignsOf
    PageSize = 1
    MaxActs = 3
    SameSecond = FALSE
    Overlap = FALSE
    DailySync = TRUE
    Partial = FALSE
    MaxFailures = 1
INVARIANTS
    DeliveryTypeOK
    FreshHtmlIsTrue
    RecordMatchesMailbox
PROPERTIES
    PassLeavesNothingStale
    MailboxCatchesUp
CHECK_DEADLOCK FALSE
