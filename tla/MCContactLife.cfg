SPECIFICATION Spec
CONSTANTS
    Policy <- MCPolicy
    Ends <- MCEnds
    Leads <- MCLeads
    MaxRevisions = 2
INVARIANTS
    PickedUpIsSettled
    DialsBounded
CHECK_DEADLOCK FALSE
