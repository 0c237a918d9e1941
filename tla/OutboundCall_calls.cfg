SPECIFICATION FairSpec
CONSTANTS
    Caller = caller
    Dialled = dialled
    Op = op
    Callee = callee
    Agents = {a1, a2}
    Manual = m
    Jobs = {a1, a2, m}
    NoJob = nojob
    MaxAttempts = 2
    MaxCrashes = 1
    MaxFaults = 1
    DailyMax = 2
INVARIANTS CapsHold CallsEndClean RoutedRight
PROPERTY EveryCallEnds
CHECK_DEADLOCK FALSE
