SPECIFICATION BothFair
CONSTANTS
    w1 = w1
    w2 = w2
    t1 = t1
    t2 = t2
    NoJob = NoJob
    Webhooks <- TwoDeliveries
    Words <- TwoWords
    Mixes <- OneByOne
    Jobs <- AllReports
    MaxAttempts = 2
    MaxCrashes = 1
    MaxToggles = 1
    MaxLapses = 1
    Mms <- BothTexts
    Ttl = 3
    Gap = 1
    MaxTime = 9
    MaxTries = 2
    MaxMisses = 1
INVARIANTS
    ReportsAreRight
    PicturesHold
PROPERTIES
    AllSettle
CHECK_DEADLOCK FALSE
