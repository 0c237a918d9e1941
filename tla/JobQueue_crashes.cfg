SPECIFICATION AllFair
CONSTANTS
    j1 = j1
    j2 = j2
    j3 = j3
    d1 = d1
    d2 = d2
    call = call
    text = text
    NoJob = NoJob
    Nothing = Nothing
    Jobs <- ThreeJobs
    Drainers <- TwoDrainers
    MaxAttempts = 2
    Delays <- SomeDelay
    Late = 1
    MaxCrashes = 2
    Poison <- OnePoison
    MaxFeeds = 2
    MaxFaults = 1
    into = into
    out = out
    worker = worker
    operator = operator
    MaxStates = 2
    Silent = Silent
    MaxEdits = 1
INVARIANTS
    ExclusiveClaim
    RowsAccountedFor
    BooksAreHonest
PROPERTIES
    KeepsPromise
    WorkIsDone
CHECK_DEADLOCK FALSE
