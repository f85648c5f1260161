SPECIFICATION Spec
CONSTANTS
    poller = poller  web = web  mail1 = mail1  mail2 = mail2  mail3 = mail3
    Proc <- TwoSyncers
    NoOne = NoOne
    StaleAfter = 1
    MaxRun = 2
    Msg <- TwoMails
    NoMsg = NoMsg
    Cap = 2
    Lookback = 3
    FirstHistoryId = 1
    HistoryLabels = "at_arrival"
    Poison <- RefusedMail
    Faults = {"id_clash", "watch", "crash", "raise", "retrieve"}
    MaxFaults = 1
SYMMETRY TwoInterchangeable
INVARIANTS
    AccountedFor
