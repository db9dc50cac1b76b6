SPECIFICATION Spec
CONSTANTS
    Ids <- MCIds
    Designs <- MCDesigns
    Inputs <- MCInputs
    CampaignsOf <- MCCampaignsOf
    PageSize = 1
    MaxActs = 3
    SameSecond = TRUE
    Overlap = TRUE
    DailySync = TRUE
    Partial = FALSE
    MaxFailures = 1
INVARIANT
    FreshHtmlIsTrue
CHECK_DEADLOCK FALSE
