\* Safety: two relay workers race for two messages.
SPECIFICATION Spec
CONSTANTS
    ann = ann
    bob = bob
    nil = nil
    d1 = d1
    d2 = d2
    w1 = w1
    w2 = w2
    m1 = m1
    m2 = m2
    m3 = m3
    NoMessage = NoMessage
    NoDomain = NoDomain
    Messages = {m1, m2}
    Owner <- MCOwner
    Addresses = {ann, bob, nil}
    Envelopes <- MCEnvelopes
    Domains = {d1, d2}
    DomainOf <- MCDomainOf
    MXHosts <- MCMXHosts
    Workers = {w1, w2}
    BatchLimit = 2
    MaxAttempts = 2
    MaxFaults = 1
SYMMETRY MCSymmetry
INVARIANTS
    TypeOK
    ClaimExclusive
    SentIsHandled
    CopiesBounded
    StrandedOnlyByFault
PROPERTIES
    PromiseKept
CHECK_DEADLOCK FALSE
