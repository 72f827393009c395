SPECIFICATION Spec
CONSTANTS
    Instances <- TwoInstances
    CampaignIds <- TwoCampaigns
    MaxConcurrency = 2
CONSTRAINT OneOrTwoCampaigns
INVARIANT ConcurrencyHeld
INVARIANT NoRequestLeft
INVARIANT SuccessIsComplete
CHECK_DEADLOCK FALSE
