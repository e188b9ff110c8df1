--------------------------- MODULE MCOutboundQueue ---------------------------
(* The instances of OutboundQueue that TLC checks: a domain with a backup   *)
(* host, one without, and an address no domain can be read from.            *)
EXTENDS OutboundQueue, TLC

CONSTANTS ann, bob, nil, d1, d2, w1, w2, m1, m2, m3

\* Every message has a user of its own.
MCOwner     == [m \in Messages |-> m]
MCDomainOf  == (ann :> d1) @@ (bob :> d2) @@ (nil :> NoDomain)
MCMXHosts   == (d1 :> 2) @@ (d2 :> 1)
MCEnvelopes == {{ann, bob}, {nil}}

\* Messages and workers are interchangeable (for the safety run).
MCSymmetry == Permutations(Messages) \cup Permutations(Workers)

\* For the liveness run: one domain with one host.
MCSingleMX    == [d \in Domains |-> 1]
MCOneDomain   == {{ann}}
=============================================================================
