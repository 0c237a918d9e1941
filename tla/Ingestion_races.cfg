SPECIFICATION BothFair
CONSTANTS
    a = a
    s = s
    k = k
    n = n
    m = m
    w1 = w1
    w2 = w2
    Null = Null
    Calls <- TwoCalls
    Callers <- OneCaller
    Numbers <- OneNumber
    Campaigns <- OneCampaign
    CampaignOf <- ToCampaign
    Events <- FiveEvents
    Workers <- TwoWorkers
    MaxRedeliveries = 1
    MaxAborts = 1
    Nobody = Nobody
    Requests = {w1, w2}
    HandBuilt = {h, g}
    Built = {crm1, crm2}
    MaxVersions = 3
    MaxActs = 4
    MaxCuts = 1
INVARIANTS
    RowTellsEvents
    CountedOnce
    NumbersAreRight
PROPERTIES
    AllFinish
CHECK_DEADLOCK FALSE
