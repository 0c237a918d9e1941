SPECIFICATION BothFair
CONSTANTS
    r1 = r1
    NoJob = NoJob
    Recs <- OneRec
    Jobs <- SixJobs
    MaxAttempts = 2
    DeleteRemote = TRUE
    MaxPolls = 1
    MaxCrashes = 1
    d1 = d1
    d2 = d2
    w1 = w1
    w2 = w2
    t1 = t1
    c1 = c1
    a1 = a1
    NoDid = NoDid
    Dids = {d1, d2}
    Desks = {w1, w2}
    Texts = {t1}
    Calls = {c1}
    Through <- Both
    Replies = {a1}
    MaxTime = 4
    MaxActs = 2
    MaxCuts = 1
INVARIANTS
    InputIsKept
    ThreadIsTrue
PROPERTIES
    EverythingSettles
CHECK_DEADLOCK FALSE
