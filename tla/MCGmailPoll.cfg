SPECIFICATION Spec
CONSTANTS
    poller = poller  web = web  mail1 = mail1  mail2 = mail2  mail3 = mail3
    Proc <- TwoSyncers
    NoOne = NoOne
    StaleAfter = 1
    MaxRun = 1
    Msg <- ThreeMails
    NoMsg = NoMsg
    Cap = 2
    Lookback = 2
    FirstHistoryId = 0
    HistoryLabels = "current"
    Poison = {}
    Faults <- SurvivableFaults
    MaxFaults = 2
SYMMETRY Interchangeable
INVARIANTS
    TypeOK
    AccountedFor
    RecordedQuarantineIsReal
    OnePassAtATime
PROPERTIES
    PassesImplementOneSync
