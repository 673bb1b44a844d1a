SPECIFICATION FairSpec
CONSTANTS
    k1 = k1
    k2 = k2
    k3 = k3
    Keys <- MCKeys
    Outbound <- MCOutbound
    Withdrawable <- MCOutbound
    Cap = 2
    InboundReserve = 1
    CanHold = TRUE
    MaxMade = 3
INVARIANTS WithinCap SlotPerDialog NoMissedWakeup
PROPERTIES KeptIsHeld WaiterReturns
