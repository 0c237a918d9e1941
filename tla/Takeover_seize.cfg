SPECIFICATION Three
CONSTANTS
    NoOne = NoOne
    ana = ana
    bob = bob
    s1 = s1
    s2 = s2
    s3 = s3
    s4 = s4
    t1 = t1
    t2 = t2
    r1 = r1
    r2 = r2
    r3 = r3
    q1 = q1
    q2 = q2
    hello = hello
    Supervisors <- TwoSupervisors
    MaxFaults = 1
    Percent = 50
    MaxSets = 1
INVARIANTS
    SupervisorPrevails
    CapAndReceiptsHold
    CallerNotStranded
SYMMETRY Alike
CHECK_DEADLOCK FALSE
