SPECIFICATION Spec
CONSTANTS
    inbox1 = inbox1  inbox2 = inbox2  req1 = req1  req2 = req2
    Mailbox <- TwoMailboxes
    Req <- TwoRequests
    Ops <- OpNames
    Connected <- FirstConnected
    Day = 2
    Jitter = 1
    RenewWithin = 2
    WatchFor = 4
    MaxTicks = 6
    MaxRequests = 3
SYMMETRY Interchangeable
INVARIANTS
    AtMostOneActive
    DisconnectedHoldsNoRefreshToken
    PushLapsesBriefly
CHECK_DEADLOCK FALSE
