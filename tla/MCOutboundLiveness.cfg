\* Liveness: more messages than a batch holds, one relay worker.
SPECIFICATION FairSpec
CONSTANTS
    ann = ann
    bob = bob
    nil = nil
    d1 = d1
    d2 = d2
    w1 = w1
    w2 = w2
    m1 = m1
    m2 = m2
    m3 = m3
    NoMessage = NoMessage
    NoDomain = NoDomain
    Messages = {m1, m2}
    Owner <- MCOwner
    Addresses = {ann, bob, nil}
    Envelopes <- MCOneDomain
    Domains = {d1, d2}
    DomainOf <- MCDomainOf
    MXHosts <- MCSingleMX
    Workers = {w1}
    BatchLimit = 1
    MaxAttempts = 3
    MaxFaults = 1
PROPERTIES
    EventuallySettled
CHECK_DEADLOCK FALSE
