SPECIFICATION Spec
CONSTANTS
    Campaigns <- MCOneCampaign
    Contacts <- MCTwoContacts
    Numbers = {"n1", "n2"}
    CampaignOf <- MCCampaignOf
    NumberOf <- MCNumberOf
    Policy <- MCPolicy
    MaxCalls = 2
    MaxConcurrent = 1
    MaxRinging = 2
    TrunkBreakerCount = 2
    ProviderBreakerCount = 2
    Scenarios <- MCFaults
INVARIANTS
    LiveIsDialing
    DialingIsWatched
    CountedOnce
    NotCalledAgain
    CompletedIsQuiet
    LedgerAgrees
    CountersAgree
PROPERTIES
    DNCIsFinal
