SPECIFICATION Spec
CONSTANTS
    Campaigns <- MCTwoCampaigns
    Contacts <- MCSharedAndOther
    Numbers = {"n1", "n2"}
    CampaignOf <- MCCampaignOf
    NumberOf <- MCNumberOf
    Policy <- MCOneTry
    MaxCalls = 2
    MaxConcurrent = 1
    MaxRinging = 2
    TrunkBreakerCount = 2
    ProviderBreakerCount = 2
    Scenarios <- MCSharing
INVARIANTS
    OneCallPerNumber
PROPERTIES
    BreakerJudgesItsRun
