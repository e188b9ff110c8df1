--------------------------- MODULE OutboundPromise ---------------------------
(***************************************************************************)
(* What the outbound queue promises about a message, without rows, workers *)
(* or hosts: it is transmitted only between its acceptance and its         *)
(* settlement, an address gets no more than a fixed number of copies of    *)
(* it, it is settled as "sent" only when each routable address got a copy  *)
(* or was refused by the remote side, and a settlement is final.           *)
(*                                                                         *)
(* A message whose sender's account disappears is "withdrawn"; copies of   *)
(* it may still leave, because a relay worker may already hold it.         *)
(***************************************************************************)
EXTENDS Naturals

CONSTANTS Messages, Addresses,
          CanRoute,   \* the addresses a message can be routed to
          MaxCopies   \* copies an address may get of one message, per address

VARIABLES outcome, wanted, copies, refused
vars == <<outcome, wanted, copies, refused>>

Init ==
    /\ outcome = [m \in Messages |-> "none"]
    /\ wanted = [m \in Messages |-> {}]
    /\ copies = [m \in Messages |-> [a \in Addresses |-> 0]]
    /\ refused = [m \in Messages |-> {}]

Accept(m, to) ==
    /\ outcome[m] = "none"
    /\ to # {}
    /\ outcome' = [outcome EXCEPT ![m] = "open"]
    /\ wanted' = [wanted EXCEPT ![m] = to]
    /\ UNCHANGED <<copies, refused>>

\* The addresses in S each get one more copy; those in X are given up on.
Transmit(m, S, X) ==
    /\ outcome[m] \in {"open", "withdrawn"}
    /\ S \subseteq wanted[m] \cap CanRoute
    /\ X \subseteq wanted[m] \cap CanRoute
    /\ \A a \in S : copies[m][a] < MaxCopies[a]
    /\ copies' = [copies EXCEPT ![m] =
                    [a \in Addresses |-> IF a \in S THEN @[a] + 1 ELSE @[a]]]
    /\ refused' = [refused EXCEPT ![m] = @ \cup X]
    /\ UNCHANGED <<outcome, wanted>>

\* Every address that can be routed got a copy or was refused.
Handled(m) == \A a \in wanted[m] \cap CanRoute : copies[m][a] > 0 \/ a \in refused[m]

Settle(m, o) ==
    /\ outcome[m] = "open"
    /\ o \in {"sent", "failed"}
    /\ o = "sent" => Handled(m)
    /\ outcome' = [outcome EXCEPT ![m] = o]
    /\ UNCHANGED <<wanted, copies, refused>>

\* Several messages are withdrawn at once.
Withdraw(M) ==
    /\ \A m \in M : outcome[m] # "none"
    /\ outcome' = [m \in Messages |-> IF m \in M THEN "withdrawn" ELSE outcome[m]]
    /\ UNCHANGED <<wanted, copies, refused>>

Next ==
    \/ \E m \in Messages, to \in SUBSET Addresses : Accept(m, to)
    \/ \E m \in Messages, S, X \in SUBSET Addresses : Transmit(m, S, X)
    \/ \E m \in Messages, o \in {"sent", "failed"} : Settle(m, o)
    \/ \E M \in SUBSET Messages : Withdraw(M)

Spec == Init /\ [][Next]_vars
=============================================================================
