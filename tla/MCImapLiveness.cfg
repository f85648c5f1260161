SPECIFICATION FairSpec
CONSTANTS
    poller = poller  web = web  admin = admin  mail1 = mail1  mail2 = mail2  mail3 = mail3
    Proc <- TwoSyncers
    NoOne = NoOne
    StaleAfter = 0
    MaxRun = 0
    Admin <- OneAdmin
    Msg <- ThreeMails
    MessageId <- Distinct
    NoId = NoId
    Malformed <- Unreadable
    Limit = 2
    Faults <- PassFaults
    MaxFaults = 1
    MaxReleases = 1
PROPERTIES
    EveryMessageScanned
