SPECIFICATION FairSpec
CONSTANTS
    Campaigns <- MCTwoCampaigns
    Contacts <- MCSharedNumber
    Numbers = {"n1"}
    CampaignOf <- MCCampaignOf
    NumberOf <- MCNumberOf
    Policy <- MCPolicy
    MaxCalls = 2
    MaxConcurrent = 1
    MaxRinging = 2
    TrunkBreakerCount = 2
    ProviderBreakerCount = 2
    Scenarios <- MCListed
PROPERTIES
    ListedIsSkipped
