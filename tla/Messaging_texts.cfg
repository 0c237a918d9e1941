SPECIFICATION FairSpec
CONSTANTS
    m1 = m1
    m2 = m2
    h1 = h1
    NoJob = NoJob
    Msgs <- TwoMsgs
    Jobs <- SendAndRelay
    BodyOf <- OwnBodies
    Requests <- OneRequest
    MaxAttempts = 2
    MaxCrashes = 1
    MaxTexts = 2
INVARIANTS
    TextsAreHonest
PROPERTIES
    QueuedIsDecided
CHECK_DEADLOCK FALSE
