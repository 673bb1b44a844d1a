SPECIFICATION Spec
CONSTANTS
    c1 = c1
    c2 = c2
    c3 = c3
    A = A
    B = B
    m1 = m1
    NoOne = NoOne
    Channels = {c1, c2, c3}
    Agents = {A, B}
    Ids = {m1}
    t1 = t1
    Moves = {t1}
    Scenarios <- AllScenarios
CHECK_DEADLOCK FALSE
INVARIANTS
    RegistryAgrees
    TalkIsOneCall
    NoGhosts
    OneRowPerLeg
    WorkIsForARow
    LineAgrees
