SPECIFICATION FairSpec
CONSTANTS
    Caller = Caller
    NoLeg = NoLeg
    l1 = l1
    l2 = l2
    Legs <- TwoLegs
    MaxFaults = 1
    MaxDrops = 1
INVARIANTS
    OnlyTheWinnerTalks
    EndIsHonest
PROPERTIES
    CallerReleased
CHECK_DEADLOCK FALSE
