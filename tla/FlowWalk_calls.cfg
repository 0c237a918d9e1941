SPECIFICATION BothFair
CONSTANTS
    f1 = f1
    f2 = f2
    f3 = f3
    main = main
    office = office
    e = e
    a = a
    b = b
    Nowhere = Nowhere
    c = c
    d = d
    p = p
    NoFlow = NoFlow
    Flows = {f1, f2, f3}
    Numbers = {main, office}
    Graphs <- AllGraphs
    Libraries <- Ordinary
    Lines <- AllLines
    Nets = {TRUE, FALSE}
    Transfers <- Legs
    TransferTo = office
    MaxSteps = 4
    MaxVersions = 2
    MaxEdits = 2
    MaxFaults = 1
    MaxEvents = 2
INVARIANTS
    LibraryHolds
    NoDeadAir
    AskedAndHeard
PROPERTIES
    CallsEnd
CHECK_DEADLOCK FALSE
