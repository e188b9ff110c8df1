--------------------------- MODULE MCEventBroker -----------------------------
(* The instance of EventBroker that TLC checks: two streams of one user.    *)
EXTENDS EventBroker, TLC

CONSTANTS u1, s1, s2, p1, p2

MCUserOf == [s \in Streams |-> u1]
=============================================================================
