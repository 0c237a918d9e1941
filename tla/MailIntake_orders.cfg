SPECIFICATION AllFair
CONSTANTS
    order = order
    other = other
    third = third
    ann = ann
    NoJob = NoJob
    Nobody = Nobody
    Mails <- Three
    Contents <- AllContents
    CustomerOf <- ForAnn
    Jobs <- SomeJobs
    Configs = {"api", "webhook", "unset"}
    CrmKinds = {"authorization"}
    Batch = 2
    MaxAttempts = 2
    MaxCrashes = 1
    MaxOutages = 1
    NoPhone = NoPhone
    Sheets <- SomeSheets
    People <- TwoPeople
    MaxRuns = 2
    MaxKills = 1
    MaxSpoils = 1
    MaxLeads = 1
    MaxCuts = 1
    MaxRelays = 1
    MaxDeletes = 2
INVARIANTS
    ScriptsAreHonest
    LogIsHonest
PROPERTIES
    MailIsStored
CHECK_DEADLOCK FALSE
