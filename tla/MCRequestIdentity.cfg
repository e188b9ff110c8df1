\* Violated: the handlers of four services look under a key of their own.
SPECIFICATION Spec
CONSTANTS
    u1 = u1
    t1 = t1
    r1 = r1
    NoUser = NoUser
    Services = {"mail", "drive", "contacts", "keyserver", "calendar"}
    Setter <- MCSetter
    Getter <- MCGetter
    Users = {u1}
    Tokens = {t1}
    Requests = {r1}
INVARIANTS
    HandlerKnowsUser
CHECK_DEADLOCK FALSE
