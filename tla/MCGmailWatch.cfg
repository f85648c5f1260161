SPECIFICATION Spec
CONSTANTS
    poller = poller  web = web  mail1 = mail1  mail2 = mail2  mail3 = mail3
    Proc <- OneSyncer
    NoOne = NoOne
    StaleAfter = 1
    MaxRun = 1
    Msg <- TwoMails
    NoMsg = NoMsg
    Cap = 2
    Lookback = 3
    FirstHistoryId = 1
    HistoryLabels = "current"
    Poison = {}
    Faults = {"watch"}
    MaxFaults = 1
INVARIANTS
    MissedMailIsCaughtUp
