SPECIFICATION Spec
CONSTANTS
    r1 = r1
    r2 = r2
    Requests = {r1, r2}
    Scenarios <- OneDrop
CHECK_DEADLOCK FALSE
INVARIANTS
    ReadyHasAPhone
