SPECIFICATION FairSpec
CONSTANTS
    poller = poller  web = web  mail1 = mail1  mail2 = mail2  mail3 = mail3
    Proc <- TwoSyncers
    NoOne = NoOne
    StaleAfter = 1
    MaxRun = 1
    Msg <- ThreeMails
    NoMsg = NoMsg
    Cap = 2
    Lookback = 3
    FirstHistoryId = 1
    HistoryLabels = "at_arrival"
    Poison = {}
    Faults <- PassEndingFaults
    MaxFaults = 1
PROPERTIES
    EveryMessageHandled
    HiddenMailIsRecorded
    SyncingGoesOn
