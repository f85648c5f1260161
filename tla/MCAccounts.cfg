SPECIFICATION Spec
CONSTANTS
    ann = ann  bob = bob  eve = eve  dan = dan  mail1 = mail1
    browser1 = browser1  browser2 = browser2
    Username <- People
    Email <- OneEmail
    Seeded <- SeededPair
    Client <- TwoBrowsers
    MaxRequests = 6
SYMMETRY Interchangeable
INVARIANTS
    AdminRemains
    SessionsAreCurrent
    RetiredSecretsStayOut
PROPERTIES
    RightsChangeByConsole
CHECK_DEADLOCK FALSE
