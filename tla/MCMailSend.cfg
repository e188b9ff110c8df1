\* Two requests on two messages, with one failure.
SPECIFICATION FairSpec
CONSTANTS
    loc = loc
    ext = ext
    m1 = m1
    m2 = m2
    r1 = r1
    r2 = r2
    r3 = r3
    Messages = {m1, m2}
    Local = {loc}
    External = {ext}
    Envelopes <- MCEnvelopes
    Requests = {r1, r2}
    NoMessage = NoMessage
    MaxFaults = 1
INVARIANTS
    TypeOK
    SentAsListed
PROPERTIES
    EveryoneServed
CHECK_DEADLOCK FALSE
