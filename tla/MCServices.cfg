\* Two connections and two MAIL commands; three requests about an account; two domains.
SPECIFICATION ServicesSpec
CONSTANTS
    c1 = c1
    c2 = c2
    m1 = m1
    m2 = m2
    a1 = a1
    a2 = a2
    NoSender = NoSender
    Connections = {c1, c2}
    Messages = {m1, m2}
    Addresses = {a1, a2}
    MaxRecipients = 2
    MaxMails = 2
    MaxFaults = 1
    p1 = p1
    p2 = p2
    Passwords = {p1, p2}
    FirstPassword = p1
    NoSecret = NoSecret
    MaxRequests = 3
    MaxFailures = 1
    d1 = d1
    d2 = d2
    ask1 = ask1
    NoId = NoId
    Worker = Worker
    DomainIds = {d1, d2}
    Demands = {ask1}
    Checks <- MCChecks
    DkimCheck = "dkim"
    BatchLimit = 1
    MaxRounds = 2
    MaxZoneChanges = 1
    MaxOverrides = 1
    MaxMishaps = 1
INVARIANTS
    ServicesTypeOK
    DeliveredAsAsked
    SessionsAreEntitled
    AnswersHold
    ChecksAreTrue
PROPERTIES
    GracefulStop
    VerifiedStands
CHECK_DEADLOCK FALSE
