SPECIFICATION Spec
CONSTANTS
    poller = poller  web = web  admin = admin  mail1 = mail1  mail2 = mail2  mail3 = mail3
    Proc <- TwoSyncers
    NoOne = NoOne
    StaleAfter = 0
    MaxRun = 1
    Admin <- OneAdmin
    Msg <- TwoMails
    MessageId <- Shared
    NoId = NoId
    Malformed = {}
    Limit = 2
    Faults <- FaultNames
    MaxFaults = 1
    MaxReleases = 1
SYMMETRY Interchangeable
INVARIANTS
    QuarantineMatchesRows
