\* Violated: a failed lookup skips a recipient that has an account.
SPECIFICATION Spec
CONSTANTS
    c1 = c1
    m1 = m1
    a1 = a1
    a2 = a2
    NoSender = NoSender
    Connections = {c1}
    Messages = {m1}
    Addresses = {a1, a2}
    MaxRecipients = 2
    MaxMails = 1
    MaxFaults = 1
INVARIANTS
    AckedIsStoredAlways
CHECK_DEADLOCK FALSE
