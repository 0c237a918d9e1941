SPECIFICATION Both
CONSTANTS
    MaxTurns = 2
    MaxFaults = 1
    address = address
    balance = balance
    Facts <- TwoFacts
    Agents <- FiveAgents
    MaxCalls = 2
    MaxEdits = 1
    MaxSlips = 1
INVARIANTS
    SessionIsHonest
    ContextIsHonest
PROPERTIES
    AllSettle
CHECK_DEADLOCK FALSE
