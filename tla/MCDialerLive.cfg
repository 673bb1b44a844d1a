SPECIFICATION FairSpec
CONSTANTS
    Campaigns <- MCTwoCampaigns
    Contacts <- MCSharedNumber
    Numbers = {"n1"}
    CampaignOf <- MCCampaignOf
    NumberOf <- MCNumberOf
    Policy <- MCOneTry
    MaxCalls = 2
    MaxConcurrent = 1
    MaxRinging = 1
    TrunkBreakerCount = 2
    ProviderBreakerCount = 2
    Scenarios <- MCLive
PROPERTIES
    AttemptsSettle
    CampaignDrains
    ToldIsSkipped
