SPECIFICATION MirrorFairSpec
CONSTANTS
    NoJob = NoJob
    Jobs <- AllJobs
    Posts <- TwoPosts
    Mixes <- SomeLines
    Strangers <- TextOfAStranger
    MaxAttempts = 2
    MaxCrashes = 1
    MaxFaults = 1
INVARIANTS
    MirroredWhole
    NothingMissed
PROPERTIES
    EverythingArrives
CHECK_DEADLOCK FALSE
