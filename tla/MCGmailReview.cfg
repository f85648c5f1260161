SPECIFICATION ReviewSpec
CONSTANTS
    poller = poller  alice = alice  bob = bob
    mail1 = mail1
    Proc <- OneSyncer
    Admin <- TwoAdmins
    Msg <- OneMail
    MaxReviews = 3
    MaxRun = 1
    Faults = {"action", "refused", "crash", "web_crash"}
    MaxFaults = 1
    StaleAfter = 1
    NoOne = NoOne
    NoMsg = NoMsg
    Cap = 2
    Lookback = 3
    FirstHistoryId = 1
    HistoryLabels = "at_arrival"
    Poison = {}
INVARIANTS
    MailboxTruth
    LastDecisionWins
PROPERTIES
    ReleaseIsFinal
