------------------------ MODULE OutboundQueue_proofs -------------------------
(***************************************************************************)
(* Proofs about OutboundQueue for every set of messages, addresses,        *)
(* domains and workers and every choice of the other constants: IInv is    *)
(* inductive, the safety properties follow from it, and with it every step *)
(* of the queue is a step of OutboundPromise or leaves it unchanged.       *)
(***************************************************************************)
EXTENDS OutboundQueue, FiniteSetTheorems, TLAPS

(* Arithmetic of allowances, so that no later step multiplies. *)

LEMMA AllowanceType ==
    ASSUME NEW n \in Nat, NEW a \in Addresses
    PROVE  Allowance(n, a) \in Nat
  BY OutboundAssumption DEF Allowance

LEMMA AllowanceStep ==
    ASSUME NEW n \in Nat \ {0}, NEW a \in Addresses
    PROVE  /\ Allowance(n - 1, a) \in Nat
           /\ Allowance(n - 1, a) <= Allowance(n, a)
           /\ DomainOf[a] \in Domains =>
                Allowance(n, a) = Allowance(n - 1, a) + MXHosts[DomainOf[a]]
  <1>1. CASE DomainOf[a] \in Domains
    <2>1. MXHosts[DomainOf[a]] \in Nat BY <1>1, OutboundAssumption
    <2>2. \A k \in Nat : n * k = (n - 1) * k + k /\ (n - 1) * k \in Nat
      OBVIOUS
    <2>3. QED BY <1>1, <2>1, <2>2 DEF Allowance
  <1>2. CASE DomainOf[a] \notin Domains BY <1>2 DEF Allowance
  <1>3. QED BY <1>1, <1>2

LEMMA AllowanceMonotone ==
    ASSUME NEW n \in Nat, NEW k \in Nat, n <= k, NEW a \in Addresses
    PROVE  Allowance(n, a) <= Allowance(k, a)
  <1>1. \A j \in Nat : n * j <= k * j
    OBVIOUS
  <1>2. QED BY <1>1, OutboundAssumption DEF Allowance

\* 2^n counts the subsets of a set of n elements.
LEMMA BackoffType ==
    ASSUME NEW n \in Nat
    PROVE  Backoff(n) \in Nat
  <1>1. IsFiniteSet(1..n) /\ Cardinality(1..n) = n BY FS_Interval
  <1>2. IsFiniteSet(SUBSET (1..n)) /\ Cardinality(SUBSET (1..n)) = 2^n BY <1>1, FS_SUBSET
  <1>3. QED BY <1>2, FS_CardinalityType DEF Backoff

-----------------------------------------------------------------------------
LEMMA InitIInv == Init => IInv
  <1> SUFFICES ASSUME Init PROVE IInv
    OBVIOUS
  <1>1. TypeOK BY OutboundAssumption DEF Init, TypeOK, Statuses
  <1>2. \A w \in Workers : InFlight(w) = {} BY DEF Init, InFlight
  <1>3. ClaimExclusive /\ HeldRows /\ AttemptLeft /\ Nesting /\ Accounted
    BY <1>2, OutboundAssumption DEF Init, ClaimExclusive, HeldRows, AttemptLeft, Nesting, Accounted
  <1>4. Unspent /\ CopiesBounded
    BY AllowanceType, OutboundAssumption DEF Init, Unspent, CopiesBounded
  <1>5. SentIsHandled /\ StrandedOnlyByFault
    BY DEF Init, SentIsHandled, StrandedOnlyByFault, Stranded
  <1>6. QED BY <1>1, <1>3, <1>4, <1>5 DEF IInv

LEMMA EnqueueIInv ==
    ASSUME IInv, NEW m \in Messages, NEW to \in Envelopes, EnqueueOutbound(m, to)
    PROVE  IInv'
  <1> USE DEF IInv, EnqueueOutbound, locals, progress, remote
  <1>1. TypeOK' BY OutboundAssumption DEF TypeOK, Statuses
  <1>2. \A w \in Workers : InFlight(w)' = InFlight(w) /\ m \notin InFlight(w)
    BY DEF InFlight, HeldRows
  <1>3. ClaimExclusive' /\ HeldRows' /\ AttemptLeft' /\ Nesting'
    BY <1>2 DEF ClaimExclusive, HeldRows, AttemptLeft, Nesting, TypeOK
  <1>4. Accounted' BY <1>2 DEF Accounted, Routable, Reached, InFlight, TypeOK
  <1>5. Unspent' /\ CopiesBounded' BY DEF Unspent, CopiesBounded
  <1>6. SentIsHandled' /\ StrandedOnlyByFault'
    BY <1>2 DEF SentIsHandled, StrandedOnlyByFault, Stranded, Held, Routable, Reached, TypeOK
  <1>7. QED BY <1>1, <1>3, <1>4, <1>5, <1>6

LEMMA DeleteUserIInv ==
    ASSUME IInv, NEW u, DeleteUser(u)
    PROVE  IInv'
  <1> USE DEF IInv, DeleteUser, locals, progress, remote
  <1>1. TypeOK' BY DEF TypeOK, Statuses
  <1>2. \A w \in Workers : InFlight(w)' = InFlight(w) BY DEF InFlight
  <1>3. ClaimExclusive' /\ HeldRows' /\ AttemptLeft' /\ Nesting' /\ Accounted'
    BY <1>2 DEF ClaimExclusive, HeldRows, AttemptLeft, Nesting, Accounted, Routable,
                Reached, InFlight, TypeOK
  <1>4. Unspent' /\ CopiesBounded' BY DEF Unspent, CopiesBounded
  <1>5. SentIsHandled' /\ StrandedOnlyByFault'
    BY <1>2 DEF SentIsHandled, StrandedOnlyByFault, Stranded, Held, Routable, Reached, TypeOK
  <1>6. QED BY <1>1, <1>3, <1>4, <1>5

LEMMA TickIInv ==
    ASSUME IInv, Tick
    PROVE  IInv'
  BY DEF IInv, Tick, table, locals, progress, remote, TypeOK, ClaimExclusive, HeldRows,
         AttemptLeft, Nesting, Accounted, Unspent, CopiesBounded, SentIsHandled,
         StrandedOnlyByFault, Stranded, Held, InFlight, Routable, Reached

\* A due row is in no worker's hands and has an attempt left.
LEMMA DueRows ==
    ASSUME IInv, NEW m \in Due
    PROVE  /\ m \in Messages
           /\ \A w \in Workers : m \notin InFlight(w)
           /\ attempts[m] \in Nat
           /\ attempts[m] < MaxAttempts
  <1>1. m \in Messages /\ status[m] \in {"queued", "deferred"} BY DEF Due, Pending
  <1>2. \A w \in Workers : m \notin InFlight(w) BY <1>1 DEF IInv, HeldRows
  <1>3. attempts[m] \in Nat /\ MaxAttempts \in Nat \ {0}
    BY <1>1, OutboundAssumption DEF IInv, TypeOK
  <1>4. attempts[m] = 0 \/ attempts[m] < MaxAttempts BY <1>1 DEF IInv, AttemptLeft
  <1>5. QED BY <1>1, <1>2, <1>3, <1>4

LEMMA ClaimIInv ==
    ASSUME IInv, NEW w \in Workers, NEW S, Claim(w, S)
    PROVE  IInv'
  <1> USE DEF IInv, Claim, MarkSending, progress, remote
  <1>1. S \subseteq Due /\ S \subseteq Messages BY DEF Claimable, Due
  <1>2. \A m \in S : /\ \A v \in Workers : m \notin InFlight(v)
                     /\ attempts[m] \in Nat /\ attempts[m] < MaxAttempts
    BY <1>1, DueRows
  <1>3. TypeOK' BY <1>1, <1>2, OutboundAssumption DEF TypeOK, Statuses
  <1>4. /\ InFlight(w) = {} /\ InFlight(w)' = S
        /\ \A v \in Workers \ {w} : InFlight(v)' = InFlight(v)
    BY DEF InFlight, Idle, TypeOK
  <1>5. ClaimExclusive' /\ HeldRows' /\ AttemptLeft' /\ Nesting'
    <2>1. ClaimExclusive' BY <1>1, <1>2, <1>4 DEF ClaimExclusive
    <2>2. \A v \in Workers : current'[v] \notin batch'[v]
      BY <1>1, OutboundAssumption DEF HeldRows, Idle, TypeOK
    <2>3. \A m \in S : status'[m] = "sending" /\ attempts'[m] > 0 /\ seen'[w][m] = attempts'[m]
      BY <1>1, <1>2 DEF TypeOK
    <2>4. \A v \in Workers \ {w} : \A m \in InFlight(v) :
             /\ status'[m] = status[m] /\ attempts'[m] = attempts[m]
             /\ seen'[v][m] = seen[v][m]
      BY <1>2, OutboundAssumption DEF TypeOK, InFlight
    <2>5. HeldRows'
      <3> SUFFICES ASSUME NEW v \in Workers, NEW m \in InFlight(v)'
                   PROVE  /\ status'[m] \in {"sending", "gone"}
                          /\ attempts'[m] > 0
                          /\ seen'[v][m] = attempts'[m]
        BY <2>2 DEF HeldRows
      <3>1. CASE v = w BY <3>1, <1>4, <2>3
      <3>2. CASE v # w
        <4>1. v \in Workers \ {w} /\ m \in InFlight(v) BY <3>2, <1>4
        <4>2. status[m] \in {"sending", "gone"} /\ attempts[m] > 0 /\ seen[v][m] = attempts[m]
          BY <4>1 DEF HeldRows
        <4>3. QED BY <4>1, <4>2, <2>4
      <3>3. QED BY <3>1, <3>2
    <2>6. AttemptLeft' /\ Nesting' BY DEF AttemptLeft, Nesting, TypeOK
    <2>7. QED BY <2>1, <2>5, <2>6
  <1>6. Accounted' BY DEF Accounted, Routable, Reached, TypeOK
  <1>7. \A m \in Messages : attempts'[m] \in Nat /\ (m \notin S => attempts'[m] = attempts[m])
                            /\ (m \in S => attempts'[m] = attempts[m] + 1)
    BY DEF TypeOK
  <1>8. CopiesBounded'
    <2> SUFFICES ASSUME NEW m \in Messages, NEW a \in Addresses
                 PROVE  copies[m][a] <= Allowance(attempts'[m], a)
      BY DEF CopiesBounded
    <2>1. /\ copies[m][a] <= Allowance(attempts[m], a) /\ copies[m][a] \in Nat
          /\ attempts[m] \in Nat
      BY DEF CopiesBounded, TypeOK
    <2>2. CASE m \in S BY <2>1, <2>2, <1>7, AllowanceType, AllowanceMonotone
    <2>3. QED BY <2>1, <2>2, <1>7
  <1>9. Unspent'
    <2>1. \A v \in Workers, a \in Addresses : \A m \in batch'[v] :
             copies'[m][a] <= Allowance(attempts'[m] - 1, a)
      <3> SUFFICES ASSUME NEW v \in Workers, NEW a \in Addresses, NEW m \in batch'[v]
                   PROVE  copies[m][a] <= Allowance(attempts'[m] - 1, a)
        OBVIOUS
      <3>1. CASE v = w
        <4>1. m \in S /\ attempts'[m] - 1 = attempts[m] BY <3>1, <1>1, <1>2, <1>7 DEF TypeOK
        <4>2. QED BY <4>1, <1>1 DEF CopiesBounded
      <3>2. CASE v # w
        <4>1. m \in batch[v] /\ m \in Messages /\ m \notin S BY <3>2, <1>2 DEF TypeOK, InFlight
        <4>2. QED BY <4>1, <1>7 DEF Unspent
      <3>3. QED BY <3>1, <3>2
    <2>2. \A v \in Workers : current[v] # NoMessage => current[v] \in Messages \ S
      BY <1>2 DEF InFlight, TypeOK
    <2>3. \A v \in Workers : current[v] # NoMessage => attempts'[current[v]] = attempts[current[v]]
      BY <2>2, <1>7
    <2>4. QED BY <2>1, <2>3 DEF Unspent
  <1>10. SentIsHandled' BY DEF SentIsHandled, Routable, Reached, TypeOK
  <1>11. StrandedOnlyByFault'
    <2>1. \A m \in Messages : m \in Held => m \in Held' BY <1>4 DEF Held
    <2>2. \A m \in S : m \in Held' BY <1>4 DEF Held
    <2>3. \A m \in Messages \ S : status'[m] = status[m] BY DEF TypeOK
    <2>4. QED BY <2>1, <2>2, <2>3 DEF StrandedOnlyByFault, Stranded
  <1>12. QED BY <1>3, <1>5, <1>6, <1>8, <1>9, <1>10, <1>11

LEMMA ClaimLostIInv ==
    ASSUME IInv, NEW w \in Workers, NEW S, ClaimLost(w, S)
    PROVE  IInv'
  <1> USE DEF IInv, ClaimLost, MarkSending, progress, remote, locals
  <1>1. S \subseteq Due /\ S \subseteq Messages BY DEF Claimable, Due
  <1>2. \A m \in S : /\ \A v \in Workers : m \notin InFlight(v)
                     /\ attempts[m] \in Nat /\ attempts[m] < MaxAttempts
    BY <1>1, DueRows
  <1>3. TypeOK' BY <1>1, <1>2, OutboundAssumption DEF TypeOK, Statuses
  <1>4. /\ \A v \in Workers : InFlight(v)' = InFlight(v)
        /\ \A v \in Workers : \A m \in InFlight(v) :
             m \in Messages /\ status'[m] = status[m] /\ attempts'[m] = attempts[m]
    BY <1>2, OutboundAssumption DEF InFlight, TypeOK
  <1>5. ClaimExclusive' /\ HeldRows' /\ AttemptLeft' /\ Nesting'
    <2>1. ClaimExclusive' /\ HeldRows' BY <1>4 DEF ClaimExclusive, HeldRows
    <2>2. AttemptLeft' /\ Nesting' BY DEF AttemptLeft, Nesting, TypeOK
    <2>3. QED BY <2>1, <2>2
  <1>6. Accounted' BY DEF Accounted, Routable, Reached, TypeOK
  <1>7. Unspent' BY <1>4 DEF Unspent, InFlight
  <1>8. CopiesBounded'
    <2> SUFFICES ASSUME NEW m \in Messages, NEW a \in Addresses
                 PROVE  copies[m][a] <= Allowance(attempts'[m], a)
      BY DEF CopiesBounded
    <2>1. /\ copies[m][a] <= Allowance(attempts[m], a) /\ copies[m][a] \in Nat
          /\ attempts[m] \in Nat
      BY DEF CopiesBounded, TypeOK
    <2>2. attempts'[m] = attempts[m] \/ attempts'[m] = attempts[m] + 1 BY DEF TypeOK
    <2>3. QED BY <2>1, <2>2, AllowanceType, AllowanceMonotone
  <1>9. SentIsHandled' /\ StrandedOnlyByFault'
    BY DEF SentIsHandled, Routable, Reached, TypeOK, StrandedOnlyByFault
  <1>10. QED BY <1>3, <1>5, <1>6, <1>7, <1>8, <1>9

LEMMA BeginSendIInv ==
    ASSUME IInv, NEW w \in Workers, NEW m \in Messages, BeginSend(w, m)
    PROVE  IInv'
  <1> USE DEF IInv, BeginSend, table, remote
  <1>1. TypeOK' BY DEF TypeOK, Routable
  <1>2. \A v \in Workers : InFlight(v)' = InFlight(v) BY OutboundAssumption DEF InFlight, TypeOK
  <1>3. ClaimExclusive' /\ HeldRows' /\ AttemptLeft' /\ Nesting'
    BY <1>2, OutboundAssumption DEF ClaimExclusive, HeldRows, AttemptLeft, Nesting, TypeOK
  <1>4. Accounted' BY DEF Accounted, Routable, Reached, TypeOK
  <1>5. CopiesBounded' /\ SentIsHandled' /\ StrandedOnlyByFault'
    BY <1>2 DEF CopiesBounded, SentIsHandled, Routable, Reached, StrandedOnlyByFault,
                Stranded, Held
  <1>6. Unspent' BY OutboundAssumption DEF Unspent, Nesting, TypeOK
  <1>7. QED BY <1>1, <1>3, <1>4, <1>5, <1>6

LEMMA BeginDomainIInv ==
    ASSUME IInv, NEW w \in Workers, NEW d \in Domains, BeginDomain(w, d)
    PROVE  IInv'
  <1> USE DEF IInv, BeginDomain, table, locals, remote
  <1>1. TypeOK' BY DEF TypeOK
  <1>2. \A v \in Workers : InFlight(v)' = InFlight(v) BY DEF InFlight
  <1>3. ClaimExclusive' /\ HeldRows' /\ AttemptLeft'
    BY <1>2 DEF ClaimExclusive, HeldRows, AttemptLeft
  <1>4. Nesting' /\ Accounted'
    BY OutboundAssumption DEF Nesting, Accounted, Routable, Reached, TypeOK
  <1>5. CopiesBounded' /\ SentIsHandled' /\ StrandedOnlyByFault'
    BY <1>2 DEF CopiesBounded, SentIsHandled, Routable, Reached, StrandedOnlyByFault,
                Stranded, Held
  <1>6. Unspent'
    <2>1. \A v \in Workers \ {w} : /\ todo'[v] = todo[v] /\ domain'[v] = domain[v]
                                   /\ host'[v] = host[v]
      BY DEF TypeOK
    <2>2. \A a \in Addresses : DomainOf[a] \in todo[w] =>
             copies[current[w]][a] <= Allowance(attempts[current[w]] - 1, a)
      BY DEF Unspent
    <2>3. todo'[w] \subseteq todo[w] /\ domain'[w] = d /\ d \in todo[w] /\ host'[w] = 1
      BY DEF TypeOK
    <2>4. current[w] \in Messages /\ attempts[current[w]] \in Nat \ {0}
      BY DEF TypeOK, HeldRows, InFlight
    <2>5. \A a \in Addresses : /\ Allowance(attempts[current[w]] - 1, a) \in Nat
                               /\ copies[current[w]][a] \in Nat
      BY <2>4, AllowanceStep DEF TypeOK
    <2>6. QED BY <2>1, <2>2, <2>3, <2>5 DEF Unspent
  <1>7. QED BY <1>1, <1>3, <1>4, <1>5, <1>6

\* The message a worker is sending, and its allowance for an address of the
\* domain being tried.
LEMMA SendingFacts ==
    ASSUME IInv, NEW w \in Workers, Sending(w)
    PROVE  /\ current[w] \in Messages
           /\ domain[w] \in Domains
           /\ host[w] \in 1..MXHosts[domain[w]]
           /\ status[current[w]] \in {"sending", "gone"}
           /\ attempts[current[w]] \in 1..MaxAttempts
           /\ Group(current[w], domain[w]) \subseteq Routable(current[w])
           /\ \A a \in Group(current[w], domain[w]) :
                copies[current[w]][a] + 1
                  <= Allowance(attempts[current[w]] - 1, a) + host[w]
  <1> USE DEF IInv, Sending
  <1>1. current[w] \in Messages /\ domain[w] \in Domains BY DEF TypeOK
  <1>2. host[w] \in 1..MXHosts[domain[w]] BY DEF Nesting
  <1>3. status[current[w]] \in {"sending", "gone"} /\ attempts[current[w]] \in 1..MaxAttempts
    BY <1>1, OutboundAssumption DEF HeldRows, InFlight, TypeOK
  <1>4. Group(current[w], domain[w]) \subseteq Routable(current[w]) BY <1>1 DEF Group, Routable
  <1>5. ASSUME NEW a \in Group(current[w], domain[w])
        PROVE  copies[current[w]][a] + 1 <= Allowance(attempts[current[w]] - 1, a) + host[w]
    <2>1. a \in Addresses /\ DomainOf[a] = domain[w] BY <1>1 DEF Group, TypeOK
    <2>2. copies[current[w]][a] <= Allowance(attempts[current[w]] - 1, a) + host[w] - 1
      BY <2>1 DEF Unspent
    <2>3. /\ copies[current[w]][a] \in Nat /\ host[w] \in Nat
          /\ Allowance(attempts[current[w]] - 1, a) \in Nat
      BY <1>1, <1>2, <1>3, <2>1, AllowanceStep, OutboundAssumption DEF TypeOK
    <2>4. QED BY <2>2, <2>3
  <1>6. QED BY <1>1, <1>2, <1>3, <1>4, <1>5

\* What a host takes stays within the allowance, and concerns nobody else.
LEMMA TakeFacts ==
    ASSUME IInv, NEW w \in Workers, Sending(w),
           NEW S, S \subseteq Group(current[w], domain[w]), Take(w, S)
    PROVE  /\ copies' \in [Messages -> [Addresses -> Nat]]
           /\ \A m \in Messages, a \in Addresses :
                /\ copies[m][a] <= copies'[m][a]
                /\ m # current[w] \/ DomainOf[a] # domain[w] => copies'[m][a] = copies[m][a]
                /\ copies'[m][a] <= Allowance(attempts[m], a)
           /\ \A a \in Addresses : DomainOf[a] = domain[w] =>
                copies'[current[w]][a] <= Allowance(attempts[current[w]] - 1, a) + host[w]
           /\ \A a \in S : copies'[current[w]][a] > 0
  <1> DEFINE m == current[w]
  <1>1. /\ m \in Messages /\ domain[w] \in Domains /\ attempts[m] \in Nat \ {0}
        /\ host[w] \in 1..MXHosts[domain[w]] /\ MXHosts[domain[w]] \in Nat
        /\ S \subseteq Addresses
        /\ \A a \in S : DomainOf[a] = domain[w]
    BY SendingFacts, OutboundAssumption DEF Group, IInv, TypeOK
  <1>2. /\ copies' \in [Messages -> [Addresses -> Nat]]
        /\ \A k \in Messages, a \in Addresses :
             copies'[k][a] = IF k = m /\ a \in S THEN copies[k][a] + 1 ELSE copies[k][a]
    BY <1>1 DEF Take, IInv, TypeOK
  <1>3. \A k \in Messages, a \in Addresses :
             copies[k][a] \in Nat /\ copies[k][a] <= Allowance(attempts[k], a)
    BY DEF IInv, TypeOK, CopiesBounded
  <1>4. \A a \in Addresses : DomainOf[a] = domain[w] =>
             /\ copies[m][a] <= Allowance(attempts[m] - 1, a) + host[w] - 1
             /\ Allowance(attempts[m] - 1, a) \in Nat
             /\ Allowance(attempts[m], a) = Allowance(attempts[m] - 1, a) + MXHosts[domain[w]]
    BY <1>1, AllowanceStep DEF IInv, Unspent, Sending
  <1>5. \A a \in Addresses : DomainOf[a] = domain[w] =>
             copies'[m][a] <= Allowance(attempts[m] - 1, a) + host[w]
    BY <1>1, <1>2, <1>3, <1>4
  <1>6. \A k \in Messages, a \in Addresses : copies'[k][a] <= Allowance(attempts[k], a)
    <2> SUFFICES ASSUME NEW k \in Messages, NEW a \in Addresses
                 PROVE  copies'[k][a] <= Allowance(attempts[k], a)
      OBVIOUS
    <2>1. CASE k = m /\ DomainOf[a] = domain[w] BY <2>1, <1>1, <1>2, <1>4, <1>5
    <2>2. CASE ~(k = m /\ DomainOf[a] = domain[w]) BY <2>2, <1>1, <1>2, <1>3
    <2>3. QED BY <2>1, <2>2
  <1>7. QED BY <1>1, <1>2, <1>3, <1>5, <1>6

\* The message a worker is sending is in no other worker's hands.
LEMMA OnlyHolder ==
    ASSUME IInv, NEW w \in Workers, current[w] # NoMessage
    PROVE  /\ current[w] \notin batch[w]
           /\ \A v \in Workers \ {w} : current[v] # current[w] /\ current[w] \notin batch[v]
  BY DEF IInv, HeldRows, ClaimExclusive, InFlight

\* A transmission changes the copies of no message that is waiting in a batch
\* or that another worker is sending.
LEMMA OthersUntouched ==
    ASSUME IInv, NEW w \in Workers, Sending(w),
           NEW S, S \subseteq Group(current[w], domain[w]), Take(w, S)
    PROVE  /\ \A v \in Workers, a \in Addresses : \A m \in batch[v] : copies'[m][a] = copies[m][a]
           /\ \A v \in Workers \ {w}, a \in Addresses : current[v] # NoMessage =>
                copies'[current[v]][a] = copies[current[v]][a]
  <1>1. \A m \in Messages \ {current[w]}, a \in Addresses : copies'[m][a] = copies[m][a]
    BY TakeFacts
  <1>2. current[w] # NoMessage BY DEF Sending
  <1>3. \A v \in Workers : current[w] \notin batch[v] /\ batch[v] \subseteq Messages
    BY <1>2, OnlyHolder DEF IInv, TypeOK
  <1>4. \A v \in Workers \ {w} : current[v] # NoMessage =>
           current[v] \in Messages \ {current[w]}
    BY <1>2, OnlyHolder DEF IInv, TypeOK
  <1>5. QED BY <1>1, <1>3, <1>4

LEMMA HostAcceptsIInv ==
    ASSUME IInv, NEW w \in Workers, NEW S, HostAccepts(w, S)
    PROVE  IInv'
  <1> USE DEF IInv, HostAccepts, table, locals
  <1>1. /\ current[w] \in Messages /\ domain[w] \in Domains
        /\ Group(current[w], domain[w]) \subseteq Addresses
    BY SendingFacts DEF Group, TypeOK
  <1>2. TypeOK' BY <1>1, TakeFacts DEF TypeOK
  <1>3. \A v \in Workers : InFlight(v)' = InFlight(v) BY DEF InFlight
  <1>4. ClaimExclusive' /\ HeldRows' /\ AttemptLeft'
    BY <1>3 DEF ClaimExclusive, HeldRows, AttemptLeft
  <1>5. Nesting' BY DEF Nesting, TypeOK, Sending
  <1>6. \A m \in Messages, a \in Addresses : Reached(m, a) => Reached(m, a)'
    BY TakeFacts, <1>1 DEF Reached, TypeOK
  <1>7. \A a \in Group(current[w], domain[w]) : Reached(current[w], a)'
    BY TakeFacts, <1>1 DEF Reached, TypeOK
  <1>8. Accounted'
    <2> SUFFICES ASSUME NEW v \in Workers, current[v] # NoMessage, ~lastErr[v],
                        NEW a \in Routable(current[v]),
                        DomainOf[a] \notin todo[v] \cup {domain'[v]}
                 PROVE  Reached(current[v], a)'
      BY DEF Accounted, Routable
    <2>1. a \in Addresses /\ current[v] \in Messages /\ a \in rcpts[current[v]]
      BY DEF Routable, TypeOK
    <2>2. CASE v = w /\ DomainOf[a] = domain[w] BY <2>1, <2>2, <1>7 DEF Group
    <2>3. CASE ~(v = w /\ DomainOf[a] = domain[w])
      <3>1. DomainOf[a] # domain[v] BY <2>3, <1>1 DEF TypeOK
      <3>2. Reached(current[v], a) BY <3>1 DEF Accounted
      <3>3. QED BY <2>1, <3>2, <1>6
    <2>4. QED BY <2>2, <2>3
  <1>9. Unspent'
    <2>1. \A v \in Workers, a \in Addresses : \A m \in batch[v] : copies'[m][a] = copies[m][a]
      BY OthersUntouched
    <2>2. \A v \in Workers \ {w}, a \in Addresses : current[v] # NoMessage =>
             /\ copies'[current[v]][a] = copies[current[v]][a]
             /\ todo'[v] = todo[v] /\ domain'[v] = domain[v] /\ host'[v] = host[v]
      BY OthersUntouched DEF TypeOK
    <2>3. \A a \in Addresses : DomainOf[a] \in todo[w] =>
             copies'[current[w]][a] = copies[current[w]][a]
      BY <1>1, TakeFacts DEF Nesting, Sending
    <2>4. domain'[w] = NoDomain /\ todo'[w] = todo[w] BY DEF TypeOK
    <2>5. QED BY <2>1, <2>2, <2>3, <2>4 DEF Unspent
  <1>10. CopiesBounded' BY TakeFacts DEF CopiesBounded
  <1>11. SentIsHandled' /\ StrandedOnlyByFault'
    BY <1>3, <1>6 DEF SentIsHandled, Routable, TypeOK, StrandedOnlyByFault, Stranded, Held
  <1>12. QED BY <1>2, <1>4, <1>5, <1>8, <1>9, <1>10, <1>11

\* Giving up on a host, whatever it did with the message.
LEMMA NextHostIInv ==
    ASSUME IInv, NEW w \in Workers, Sending(w), NextHost(w),
           UNCHANGED <<table, now, locals, todo, refused, faults>>,
           NEW S, S \subseteq Group(current[w], domain[w]), Take(w, S)
    PROVE  IInv'
  <1> USE DEF IInv, table, locals
  <1>1. /\ current[w] \in Messages /\ domain[w] \in Domains
        /\ Group(current[w], domain[w]) \subseteq Addresses
        /\ host[w] \in 1..MXHosts[domain[w]] /\ MXHosts[domain[w]] \in Nat
    BY SendingFacts, OutboundAssumption DEF Group, TypeOK
  <1>0. /\ domain' \in [Workers -> Domains \cup {NoDomain}]
        /\ host' \in [Workers -> Nat]
        /\ lastErr' \in [Workers -> BOOLEAN]
        /\ \A v \in Workers \ {w} : /\ domain'[v] = domain[v] /\ host'[v] = host[v]
                                    /\ lastErr'[v] = lastErr[v]
        /\ \/ /\ domain'[w] = domain[w] /\ lastErr'[w] = lastErr[w]
              /\ host'[w] = host[w] + 1 /\ host[w] < MXHosts[domain[w]]
           \/ domain'[w] = NoDomain /\ lastErr'[w] = TRUE
    <2>1. CASE host[w] < MXHosts[domain[w]]
      <3>1. /\ host' = [host EXCEPT ![w] = host[w] + 1] /\ domain' = domain /\ lastErr' = lastErr
            /\ host[w] + 1 \in Nat
        BY <2>1, <1>1 DEF NextHost
      <3>2. host' \in [Workers -> Nat] BY <3>1 DEF TypeOK
      <3>3. domain' \in [Workers -> Domains \cup {NoDomain}] /\ lastErr' \in [Workers -> BOOLEAN]
        BY <3>1 DEF TypeOK
      <3>4. host'[w] = host[w] + 1 /\ \A v \in Workers \ {w} : host'[v] = host[v] BY <3>1 DEF TypeOK
      <3>5. /\ domain'[w] = domain[w] /\ lastErr'[w] = lastErr[w]
            /\ \A v \in Workers \ {w} : domain'[v] = domain[v] /\ lastErr'[v] = lastErr[v]
        BY <3>1, Zenon
      <3>6. QED BY <2>1, <3>2, <3>3, <3>4, <3>5
    <2>2. CASE ~(host[w] < MXHosts[domain[w]])
      <3>1. /\ host' = [host EXCEPT ![w] = 0] /\ domain' = [domain EXCEPT ![w] = NoDomain]
            /\ lastErr' = [lastErr EXCEPT ![w] = TRUE]
        BY <2>2, <1>1 DEF NextHost
      <3>2. /\ host' \in [Workers -> Nat] /\ domain' \in [Workers -> Domains \cup {NoDomain}]
            /\ lastErr' \in [Workers -> BOOLEAN]
        BY <3>1 DEF TypeOK
      <3>3. /\ domain'[w] = NoDomain
            /\ \A v \in Workers \ {w} : host'[v] = host[v] /\ domain'[v] = domain[v]
        BY <3>1 DEF TypeOK
      <3>4. lastErr'[w] = TRUE /\ \A v \in Workers \ {w} : lastErr'[v] = lastErr[v]
        BY <3>1 DEF TypeOK
      <3>5. QED BY <3>2, <3>3, <3>4
    <2>3. QED BY <2>1, <2>2
  <1>2. TypeOK' BY <1>1, <1>0, TakeFacts DEF TypeOK
  <1>3. \A v \in Workers : InFlight(v)' = InFlight(v) BY DEF InFlight
  <1>4. ClaimExclusive' /\ HeldRows' /\ AttemptLeft'
    BY <1>3 DEF ClaimExclusive, HeldRows, AttemptLeft
  <1>5. Nesting' BY <1>1, <1>0, OutboundAssumption DEF Nesting, Sending
  <1>6. \A m \in Messages, a \in Addresses : Reached(m, a) => Reached(m, a)'
    <2>1. \A m \in Messages, a \in Addresses : copies[m][a] <= copies'[m][a] BY TakeFacts
    <2>2. \A m \in Messages, a \in Addresses : copies[m][a] \in Nat /\ copies'[m][a] \in Nat
      BY <1>2 DEF TypeOK
    <2>3. QED BY <2>1, <2>2 DEF Reached
  <1>7. Accounted' BY <1>1, <1>6, <1>0 DEF Accounted, Routable, TypeOK
  <1>8. Unspent'
    <2>1. \A v \in Workers, a \in Addresses : \A m \in batch[v] : copies'[m][a] = copies[m][a]
      BY OthersUntouched
    <2>2. \A v \in Workers \ {w}, a \in Addresses : current[v] # NoMessage =>
             /\ copies'[current[v]][a] = copies[current[v]][a]
             /\ domain'[v] = domain[v] /\ host'[v] = host[v]
      BY <1>0, OthersUntouched
    <2>3. \A a \in Addresses : DomainOf[a] \in todo[w] =>
             copies'[current[w]][a] = copies[current[w]][a]
      BY <1>1, TakeFacts DEF Nesting, Sending
    <2>4. \/ domain'[w] = NoDomain
          \/ domain'[w] = domain[w] /\ host'[w] = host[w] + 1
      BY <1>0
    <2>5. \A a \in Addresses : DomainOf[a] = domain[w] =>
             copies'[current[w]][a] <= Allowance(attempts[current[w]] - 1, a) + host[w]
      BY TakeFacts
    <2>6. \A a \in Addresses : Allowance(attempts[current[w]] - 1, a) \in Nat
      BY SendingFacts, AllowanceStep, OutboundAssumption
    <2>7. \A a \in Addresses : DomainOf[a] = domain'[w] /\ domain'[w] # NoDomain =>
             copies'[current[w]][a] <= Allowance(attempts[current[w]] - 1, a) + host'[w] - 1
      BY <1>1, <2>4, <2>5, <2>6
    <2>8. QED BY <2>1, <2>2, <2>3, <2>7 DEF Unspent
  <1>9. CopiesBounded' BY TakeFacts DEF CopiesBounded
  <1>10. SentIsHandled' /\ StrandedOnlyByFault'
    BY <1>3, <1>6 DEF SentIsHandled, Routable, TypeOK, StrandedOnlyByFault, Stranded, Held
  <1>11. QED BY <1>2, <1>4, <1>5, <1>7, <1>8, <1>9, <1>10

LEMMA ReplyLostIInv ==
    ASSUME IInv, NEW w \in Workers, NEW S, ReplyLost(w, S)
    PROVE  IInv'
  BY NextHostIInv DEF ReplyLost

LEMMA HostFailsIInv ==
    ASSUME IInv, NEW w \in Workers, HostFails(w)
    PROVE  IInv'
  <1>1. Take(w, {}) BY SendingFacts DEF HostFails, remote, Take, IInv, TypeOK
  <1>2. QED BY <1>1, NextHostIInv DEF HostFails, remote

\* Leaving a message behind: the worker keeps its batch, the others theirs.
LEMMA ForgetFacts ==
    ASSUME IInv, NEW w \in Workers, SendDone(w), Forget(w)
    PROVE  /\ current' \in [Workers -> Messages \cup {NoMessage}]
           /\ seen' \in [Workers -> [Messages -> 0..MaxAttempts]]
           /\ lastErr' \in [Workers -> BOOLEAN]
           /\ current'[w] = NoMessage /\ lastErr'[w] = FALSE
           /\ \A v \in Workers \ {w} : current'[v] = current[v] /\ lastErr'[v] = lastErr[v]
           /\ \A v \in Workers, m \in Messages \ {current[w]} :
                /\ m \in InFlight(v)' <=> m \in InFlight(v)
                /\ seen'[v][m] = seen[v][m]
           /\ \A v \in Workers : \A m \in InFlight(v)' : m \in Messages \ {current[w]}
  <1>1. /\ current' = [current EXCEPT ![w] = NoMessage]
        /\ seen' = [seen EXCEPT ![w][current[w]] = 0]
        /\ lastErr' = [lastErr EXCEPT ![w] = FALSE]
        /\ batch' = batch
        /\ current[w] \in Messages
    BY DEF Forget, SendDone, IInv, TypeOK
  <1>2. /\ current' \in [Workers -> Messages \cup {NoMessage}]
        /\ current'[w] = NoMessage
        /\ \A v \in Workers \ {w} : current'[v] = current[v]
    BY <1>1 DEF IInv, TypeOK
  <1>3. /\ lastErr' \in [Workers -> BOOLEAN]
        /\ lastErr'[w] = FALSE
        /\ \A v \in Workers \ {w} : lastErr'[v] = lastErr[v]
    BY <1>1 DEF IInv, TypeOK
  <1>4. /\ seen' \in [Workers -> [Messages -> 0..MaxAttempts]]
        /\ \A v \in Workers, m \in Messages \ {current[w]} : seen'[v][m] = seen[v][m]
    BY <1>1, OutboundAssumption DEF IInv, TypeOK
  <1>5. InFlight(w)' = batch[w] /\ \A v \in Workers \ {w} : InFlight(v)' = InFlight(v)
    BY <1>1, <1>2 DEF InFlight
  <1>6. \A v \in Workers, m \in Messages \ {current[w]} : m \in InFlight(v)' <=> m \in InFlight(v)
    BY <1>5 DEF InFlight
  <1>7. ASSUME NEW v \in Workers, NEW m \in InFlight(v)'
        PROVE  m \in Messages \ {current[w]}
    <2>1. current[w] \notin batch[w] /\ batch[w] \subseteq Messages
      BY OnlyHolder, <1>1, OutboundAssumption DEF IInv, TypeOK
    <2>2. v # w => current[w] \notin InFlight(v) /\ InFlight(v) \subseteq Messages
      BY OnlyHolder, <1>1, OutboundAssumption DEF InFlight, IInv, TypeOK
    <2>3. QED BY <1>5, <2>1, <2>2
  <1>8. QED BY <1>2, <1>3, <1>4, <1>6, <1>7

\* Recording an outcome s for the message that a worker has finished sending.
LEMMA SettleIInv ==
    ASSUME IInv, NEW w \in Workers, SendDone(w), Forget(w),
           NEW s \in {"gone", "sent", "failed", "deferred"},
           s = "sent" => ~lastErr[w],
           s = "deferred" => attempts[current[w]] < MaxAttempts,
           status' = [status EXCEPT ![current[w]] = s],
           nextRetryAt' \in [Messages -> Nat],
           UNCHANGED <<attempts, rcpts, now, remote, faults>>
    PROVE  IInv'
  <1> USE DEF IInv, remote
  <1>0. /\ current' \in [Workers -> Messages \cup {NoMessage}]
        /\ current'[w] = NoMessage
        /\ \A v \in Workers \ {w} : current'[v] = current[v]
        /\ \A v \in Workers, m \in Messages \ {current[w]} :
             /\ m \in InFlight(v)' <=> m \in InFlight(v)
             /\ seen'[v][m] = seen[v][m]
        /\ \A v \in Workers : \A m \in InFlight(v)' : m \in Messages \ {current[w]}
    BY ForgetFacts
  <1>1. current[w] \in Messages /\ todo[w] = {} /\ domain[w] = NoDomain BY DEF SendDone, TypeOK
  <1>2. UNCHANGED <<batch, todo, domain, host>> BY DEF Forget
  <1>3. /\ status' \in [Messages -> Statuses] /\ status'[current[w]] = s
        /\ \A m \in Messages \ {current[w]} : status'[m] = status[m]
    BY <1>1 DEF TypeOK, Statuses
  <1>4. TypeOK' BY <1>2, <1>3, ForgetFacts DEF TypeOK
  <1>5. ClaimExclusive'
    <2> SUFFICES ASSUME NEW v \in Workers, NEW u \in Workers, v # u,
                        NEW m \in InFlight(v)', m \in InFlight(u)'
                 PROVE  FALSE
      BY DEF ClaimExclusive
    <2>1. m \in Messages \ {current[w]} BY <1>0
    <2>2. m \in InFlight(v) /\ m \in InFlight(u) BY <2>1, <1>0
    <2>3. QED BY <2>2 DEF ClaimExclusive
  <1>6. HeldRows'
    <2>1. \A v \in Workers : current'[v] \notin batch'[v]
      <3>1. \A v \in Workers : current[v] \notin batch[v] /\ NoMessage \notin batch[v]
        BY OutboundAssumption DEF HeldRows, TypeOK
      <3>2. QED BY <1>0, <1>2, <3>1
    <2>2. ASSUME NEW v \in Workers, NEW m \in InFlight(v)'
          PROVE  /\ status'[m] \in {"sending", "gone"}
                 /\ attempts'[m] > 0
                 /\ seen'[v][m] = attempts'[m]
      <3>1. m \in Messages \ {current[w]} /\ m \in InFlight(v) BY <1>0
      <3>2. status[m] \in {"sending", "gone"} /\ attempts[m] > 0 /\ seen[v][m] = attempts[m]
        BY <3>1 DEF HeldRows
      <3>3. QED BY <3>1, <3>2, <1>0, <1>3
    <2>3. QED BY <2>1, <2>2 DEF HeldRows
  <1>7. AttemptLeft' BY <1>1, <1>3 DEF AttemptLeft
  <1>8. Nesting'
    <2>1. /\ current'[w] = NoMessage /\ lastErr'[w] = FALSE
          /\ \A v \in Workers \ {w} : current'[v] = current[v] /\ lastErr'[v] = lastErr[v]
      BY ForgetFacts
    <2> SUFFICES ASSUME NEW v \in Workers
                 PROVE  /\ current'[v] = NoMessage =>
                             todo[v] = {} /\ domain[v] = NoDomain /\ ~lastErr'[v]
                        /\ domain[v] # NoDomain =>
                             domain[v] \notin todo[v] /\ host[v] \in 1..MXHosts[domain[v]]
      BY <1>2 DEF Nesting
    <2>2. CASE v = w BY <2>1, <2>2, <1>1
    <2>3. CASE v # w BY <2>1, <2>3 DEF Nesting
    <2>4. QED BY <2>2, <2>3
  <1>9. Accounted' BY <1>2, ForgetFacts DEF Accounted, Routable, Reached
  <1>10. Unspent' BY <1>2, ForgetFacts DEF Unspent
  <1>11. CopiesBounded' BY DEF CopiesBounded
  <1>12. SentIsHandled'
    <2> SUFFICES ASSUME NEW m \in Messages, status'[m] = "sent", NEW a \in Routable(m)
                 PROVE  Reached(m, a)
      BY DEF SentIsHandled, Routable, Reached
    <2>1. CASE m = current[w]
      <3>1. DomainOf[a] \notin todo[w] \cup {domain[w]} BY <1>1, OutboundAssumption DEF Routable
      <3>2. QED BY <2>1, <3>1, <1>3 DEF Accounted, SendDone
    <2>2. CASE m # current[w] BY <2>2, <1>3 DEF SentIsHandled
    <2>3. QED BY <2>1, <2>2
  <1>13. StrandedOnlyByFault'
    <2> SUFFICES ASSUME NEW m \in Messages, status'[m] = "sending", m \notin Held'
                 PROVE  faults > 0
      BY DEF StrandedOnlyByFault, Stranded
    <2>1. m # current[w] /\ status[m] = "sending" BY <1>3
    <2>2. ASSUME NEW v \in Workers, m \in InFlight(v)
          PROVE  FALSE
      <3>1. m \in InFlight(v)' BY <2>1, <2>2, <1>0
      <3>2. QED BY <3>1 DEF Held
    <2>3. QED BY <2>1, <2>2 DEF StrandedOnlyByFault, Stranded, Held
  <1>14. QED BY <1>4, <1>5, <1>6, <1>7, <1>8, <1>9, <1>10, <1>11, <1>12, <1>13

LEMMA MarkMessageSentIInv ==
    ASSUME IInv, NEW w \in Workers, MarkMessageSent(w)
    PROVE  IInv'
  <1> DEFINE s == IF status[current[w]] = "gone" THEN "gone" ELSE "sent"
  <1>1. status' = [status EXCEPT ![current[w]] = s]
    BY DEF MarkMessageSent, SetStatus, SendDone, IInv, TypeOK
  <1>2. nextRetryAt' \in [Messages -> Nat] BY DEF MarkMessageSent, IInv, TypeOK
  <1>3. QED BY <1>1, <1>2, SettleIInv DEF MarkMessageSent

\* The worker's copy of the attempts is the row's, so a deferred row has one left.
LEMMA MarkMessageFailedIInv ==
    ASSUME IInv, NEW w \in Workers, MarkMessageFailed(w)
    PROVE  IInv'
  <1> DEFINE m == current[w]
             n == seen[w][m]
             s == IF status[m] = "gone" THEN "gone"
                  ELSE IF n >= MaxAttempts THEN "failed" ELSE "deferred"
  <1>1. m \in Messages /\ n = attempts[m] /\ n \in 0..MaxAttempts
    BY DEF MarkMessageFailed, SendDone, IInv, TypeOK, HeldRows, InFlight
  <1>2. status' = [status EXCEPT ![m] = s] BY <1>1 DEF MarkMessageFailed, SetStatus, IInv, TypeOK
  <1>3. s = "deferred" => attempts[m] < MaxAttempts BY <1>1, OutboundAssumption
  <1>4. nextRetryAt' \in [Messages -> Nat]
    <2>1. Backoff(n) \in Nat BY <1>1, BackoffType, OutboundAssumption
    <2>2. QED BY <1>1, <2>1 DEF MarkMessageFailed, IInv, TypeOK
  <1>5. QED BY <1>2, <1>3, <1>4, SettleIInv DEF MarkMessageFailed

\* Losing track of rows cannot hurt the rows: what the workers still hold, they
\* held before, and a fault excuses the rows left in 'sending'.
LEMMA DropIInv ==
    ASSUME IInv, TypeOK', UNCHANGED <<table, now, remote>>, faults' > 0,
           \A v \in Workers :
             /\ batch'[v] \subseteq batch[v]
             /\ \/ /\ current'[v] = current[v] /\ todo'[v] = todo[v] /\ domain'[v] = domain[v]
                   /\ host'[v] = host[v] /\ lastErr'[v] = lastErr[v]
                \/ /\ current'[v] = NoMessage /\ todo'[v] = {} /\ domain'[v] = NoDomain
                   /\ lastErr'[v] = FALSE
             /\ \A m \in InFlight(v)' : m \in InFlight(v) /\ seen'[v][m] = seen[v][m]
    PROVE  IInv'
  <1> USE DEF IInv, table, remote
  <1>1. ClaimExclusive' /\ HeldRows' /\ AttemptLeft'
    <2>1. \A v \in Workers : current'[v] \notin batch'[v]
      <3>1. \A v \in Workers : current[v] \notin batch[v] /\ NoMessage \notin batch[v]
        BY OutboundAssumption DEF HeldRows, TypeOK
      <3>2. QED BY <3>1
    <2>2. QED BY <2>1 DEF ClaimExclusive, HeldRows, AttemptLeft
  <1>2. Nesting' /\ Accounted' BY DEF Nesting, Accounted, Routable, Reached
  <1>3. Unspent' /\ CopiesBounded'
    <2>1. CopiesBounded' BY DEF CopiesBounded
    <2>2. \A v \in Workers, a \in Addresses : \A m \in batch'[v] :
             copies[m][a] <= Allowance(attempts[m] - 1, a)
      BY DEF Unspent
    <2>3. ASSUME NEW v \in Workers, NEW a \in Addresses, current'[v] # NoMessage
          PROVE  /\ DomainOf[a] \in todo'[v] =>
                      copies[current'[v]][a] <= Allowance(attempts[current'[v]] - 1, a)
                 /\ DomainOf[a] = domain'[v] /\ domain'[v] # NoDomain =>
                      copies[current'[v]][a]
                        <= Allowance(attempts[current'[v]] - 1, a) + host'[v] - 1
      BY <2>3 DEF Unspent
    <2>4. QED BY <2>1, <2>2, <2>3 DEF Unspent
  <1>4. SentIsHandled' /\ StrandedOnlyByFault'
    BY DEF SentIsHandled, Routable, Reached, StrandedOnlyByFault
  <1>5. QED BY <1>1, <1>2, <1>3, <1>4

LEMMA MarkLostIInv ==
    ASSUME IInv, NEW w \in Workers, MarkLost(w)
    PROVE  IInv'
  <1>1. SendDone(w) /\ Forget(w) /\ UNCHANGED <<table, now, remote>> /\ faults' = faults + 1
    BY DEF MarkLost
  <1>2. UNCHANGED <<batch, todo, domain, host>> BY <1>1 DEF Forget
  <1>3. faults' \in 0..MaxFaults /\ faults' > 0 BY OutboundAssumption DEF MarkLost, IInv, TypeOK
  <1>4. TypeOK' BY <1>1, <1>2, <1>3, ForgetFacts DEF IInv, TypeOK, table, remote
  <1>5. todo[w] = {} /\ domain[w] = NoDomain BY <1>1 DEF SendDone
  <1>6. ASSUME NEW v \in Workers, NEW m \in InFlight(v)'
        PROVE  m \in InFlight(v) /\ seen'[v][m] = seen[v][m]
    <2>1. /\ \A u \in Workers, k \in Messages \ {current[w]} :
               /\ k \in InFlight(u)' <=> k \in InFlight(u)
               /\ seen'[u][k] = seen[u][k]
          /\ \A u \in Workers : \A k \in InFlight(u)' : k \in Messages \ {current[w]}
      BY <1>1, ForgetFacts
    <2>2. QED BY <2>1
  <1>7. ASSUME NEW v \in Workers
        PROVE  \/ /\ current'[v] = current[v] /\ todo'[v] = todo[v] /\ domain'[v] = domain[v]
                  /\ host'[v] = host[v] /\ lastErr'[v] = lastErr[v]
               \/ /\ current'[v] = NoMessage /\ todo'[v] = {} /\ domain'[v] = NoDomain
                  /\ lastErr'[v] = FALSE
    <2>1. CASE v = w BY <2>1, <1>1, <1>2, <1>5, ForgetFacts
    <2>2. CASE v # w BY <2>2, <1>1, <1>2, ForgetFacts
    <2>3. QED BY <2>1, <2>2
  <1>8. QED BY <1>1, <1>2, <1>3, <1>4, <1>6, <1>7, DropIInv

LEMMA CrashIInv ==
    ASSUME IInv, NEW w \in Workers, Crash(w)
    PROVE  IInv'
  <1>1. faults' \in 0..MaxFaults /\ faults' > 0 BY OutboundAssumption DEF Crash, IInv, TypeOK
  <1>2. TypeOK' BY <1>1, OutboundAssumption DEF Crash, IInv, TypeOK, table, remote
  <1>3. /\ batch'[w] = {} /\ current'[w] = NoMessage /\ todo'[w] = {}
        /\ domain'[w] = NoDomain /\ lastErr'[w] = FALSE
        /\ InFlight(w)' = {}
    BY DEF Crash, IInv, TypeOK, InFlight
  <1>4. \A v \in Workers \ {w} :
           /\ batch'[v] = batch[v] /\ current'[v] = current[v] /\ todo'[v] = todo[v]
           /\ domain'[v] = domain[v] /\ host'[v] = host[v] /\ lastErr'[v] = lastErr[v]
           /\ InFlight(v)' = InFlight(v) /\ seen'[v] = seen[v]
    BY DEF Crash, IInv, TypeOK, InFlight
  <1>5. UNCHANGED <<table, now, remote>> BY DEF Crash
  <1>6. QED BY <1>1, <1>2, <1>3, <1>4, <1>5, DropIInv

-----------------------------------------------------------------------------
(* IInv is inductive. *)

LEMMA StepIInv == IInv /\ [Next]_vars => IInv'
  <1> SUFFICES ASSUME IInv, [Next]_vars
               PROVE  IInv'
    OBVIOUS
  <1>1. CASE \E m \in Messages, to \in Envelopes : EnqueueOutbound(m, to) BY <1>1, EnqueueIInv
  <1>2. CASE \E m \in Messages : DeleteUser(Owner[m]) BY <1>2, DeleteUserIInv
  <1>3. CASE Tick BY <1>3, TickIInv
  <1>4. ASSUME NEW w \in Workers, Relay(w)
        PROVE  IInv'
    BY <1>4, ClaimIInv, BeginSendIInv, BeginDomainIInv, HostAcceptsIInv, HostFailsIInv,
       ReplyLostIInv, MarkMessageSentIInv, MarkMessageFailedIInv DEF Relay
  <1>5. ASSUME NEW w \in Workers, Fault(w)
        PROVE  IInv'
    BY <1>5, ClaimLostIInv, MarkLostIInv, CrashIInv DEF Fault
  <1>6. CASE UNCHANGED vars
    BY <1>6 DEF vars, table, locals, progress, remote, IInv, TypeOK, ClaimExclusive, HeldRows,
                AttemptLeft, Nesting, Accounted, Unspent, CopiesBounded, SentIsHandled,
                StrandedOnlyByFault, Stranded, Held, InFlight, Routable, Reached
  <1>7. QED BY <1>1, <1>2, <1>3, <1>4, <1>5, <1>6 DEF Next

LEMMA Invariance == Spec => []IInv
  BY InitIInv, StepIInv, PTL DEF Spec

\* Every variable keeps its type; attempts never exceeds max_attempts.
THEOREM TypeCorrect == Spec => []TypeOK
  BY Invariance, PTL DEF IInv

\* Two relay workers never hold the same message.
THEOREM ExclusiveClaims == Spec => []ClaimExclusive
  BY Invariance, PTL DEF IInv

\* 'sent' is never recorded while a routable address got neither a copy nor
\* a refusal.
THEOREM SentOnlyWhenHandled == Spec => []SentIsHandled
  BY Invariance, PTL DEF IInv

\* An address gets at most one copy for each attempt and host of its domain.
THEOREM DuplicatesBounded == Spec => []CopiesBounded
  BY Invariance, PTL DEF IInv

\* Without crashes and failed database calls no row stays behind in 'sending'.
THEOREM NoStrandingWithoutFaults == Spec => []StrandedOnlyByFault
  BY Invariance, PTL DEF IInv

-----------------------------------------------------------------------------
(* The queue implements OutboundPromise. *)

LEMMA InitPromise == Init => Promise!Init
  BY DEF Init, Promise!Init, Outcome

\* A transmission happens only to a message that is not settled, and leaves
\* room for what it adds.
LEMMA TransmitPromise ==
    ASSUME IInv, NEW w \in Workers, Sending(w),
           NEW S, S \subseteq Group(current[w], domain[w]), Take(w, S),
           NEW X, X \subseteq Group(current[w], domain[w]),
           refused' = [refused EXCEPT ![current[w]] = @ \cup X],
           UNCHANGED table
    PROVE  Promise!Transmit(current[w], S, X)
  <1> DEFINE m == current[w]
  <1>1. /\ m \in Messages /\ status[m] \in {"sending", "gone"}
        /\ Group(m, domain[w]) \subseteq Routable(m)
        /\ attempts[m] \in 1..MaxAttempts
    BY SendingFacts
  <1>2. Outcome(m) \in {"open", "withdrawn"} BY <1>1 DEF Outcome
  <1>3. S \subseteq Addresses /\ Routable(m) \subseteq Addresses BY <1>1 DEF Routable, IInv, TypeOK
  <1>4. ASSUME NEW a \in S
        PROVE  copies[m][a] < Allowance(MaxAttempts, a)
    <2>1. /\ a \in Addresses /\ copies[m][a] \in Nat
          /\ copies'[m][a] <= Allowance(attempts[m], a)
          /\ copies'[m][a] = copies[m][a] + 1
      <3>1. a \in Addresses /\ copies[m][a] \in Nat BY <1>1, <1>3 DEF IInv, TypeOK
      <3>2. copies'[m][a] = copies[m][a] + 1 BY <1>1, <3>1 DEF Take, IInv, TypeOK
      <3>3. QED BY <1>1, <3>1, <3>2, TakeFacts
    <2>2. /\ Allowance(attempts[m], a) <= Allowance(MaxAttempts, a)
          /\ Allowance(attempts[m], a) \in Nat /\ Allowance(MaxAttempts, a) \in Nat
      BY <1>1, <2>1, AllowanceMonotone, AllowanceType, OutboundAssumption
    <2>3. QED BY <2>1, <2>2
  <1>5. \A k \in Messages : Outcome(k)' = Outcome(k) BY DEF Outcome, table
  <1>6. QED BY <1>1, <1>2, <1>3, <1>4, <1>5 DEF Promise!Transmit, Take, Routable, table

LEMMA MarkPromise ==
    ASSUME IInv, NEW w \in Workers, SendDone(w), NEW m \in Messages, m = current[w],
           NEW s \in {"sent", "failed", "deferred"},
           SetStatus(m, s), s = "sent" => ~lastErr[w],
           UNCHANGED <<rcpts, remote>>
    PROVE  [Promise!Next]_(Promise!vars)
  <1>1. /\ m \in Messages /\ status[m] \in {"sending", "gone"}
        /\ todo[w] = {} /\ domain[w] = NoDomain
    BY DEF SendDone, IInv, TypeOK, HeldRows, InFlight
  <1>0. /\ status'[m] = IF status[m] = "gone" THEN "gone" ELSE s
        /\ \A k \in Messages \ {m} : status'[k] = status[k]
    BY <1>1 DEF SetStatus, IInv, TypeOK
  <1>2. \A k \in Messages \ {m} : Outcome(k)' = Outcome(k) BY <1>0 DEF Outcome
  <1>3. CASE status[m] = "gone" \/ s = "deferred"
    <2>1. Outcome(m)' = Outcome(m) BY <1>1, <1>3, <1>0 DEF Outcome
    <2>2. \A k \in Messages : Outcome(k)' = Outcome(k) BY <1>2, <2>1
    <2>3. QED BY <2>2 DEF Promise!vars, remote
  <1>4. CASE status[m] # "gone" /\ s \in {"sent", "failed"}
    <2>1. Outcome(m) = "open" /\ Outcome(m)' = s BY <1>1, <1>4, <1>0 DEF Outcome
    <2>2. s = "sent" => \A a \in Routable(m) : Reached(m, a)
      <3> SUFFICES ASSUME s = "sent", NEW a \in Routable(m)
                   PROVE  Reached(m, a)
        OBVIOUS
      <3>1. DomainOf[a] \notin todo[w] \cup {domain[w]} BY <1>1, OutboundAssumption DEF Routable
      <3>2. QED BY <3>1 DEF IInv, Accounted, SendDone
    <2>3. Promise!Settle(m, s)
      <3>1. [k \in Messages |-> Outcome(k)'] = [[k \in Messages |-> Outcome(k)] EXCEPT ![m] = s]
        BY <1>1, <1>2, <2>1
      <3>2. s = "sent" => Promise!Handled(m) BY <2>2 DEF Promise!Handled, Routable, Reached
      <3>3. QED BY <1>1, <1>4, <2>1, <3>1, <3>2 DEF Promise!Settle, remote
    <2>4. QED BY <1>1, <1>4, <2>3 DEF Promise!Next
  <1>5. QED BY <1>3, <1>4

LEMMA StepPromise == IInv /\ [Next]_vars => [Promise!Next]_(Promise!vars)
  <1> SUFFICES ASSUME IInv, [Next]_vars
               PROVE  [Promise!Next]_(Promise!vars)
    OBVIOUS
  <1>1. ASSUME NEW m \in Messages, NEW to \in Envelopes, EnqueueOutbound(m, to)
        PROVE  Promise!Next
    <2>1. Promise!Accept(m, to)
      BY <1>1, OutboundAssumption DEF EnqueueOutbound, Promise!Accept, Outcome, remote, IInv, TypeOK
    <2>2. QED BY <2>1, OutboundAssumption DEF Promise!Next
  <1>2. ASSUME NEW u, DeleteUser(u)
        PROVE  Promise!Next
    <2> DEFINE M == {m \in Messages : Owner[m] = u /\ status[m] # "none"}
    <2>1. Promise!Withdraw(M) BY <1>2 DEF DeleteUser, Promise!Withdraw, Outcome, remote
    <2>2. QED BY <2>1 DEF Promise!Next
  <1>3. CASE Tick BY <1>3 DEF Tick, Promise!vars, Outcome, table, remote
  <1>4. ASSUME NEW w \in Workers, Relay(w)
        PROVE  [Promise!Next]_(Promise!vars)
    <2>1. ASSUME NEW S, Claimable(S), MarkSending(S), UNCHANGED remote
          PROVE  UNCHANGED Promise!vars
      <3>1. \A m \in Messages : Outcome(m)' = Outcome(m)
        BY <2>1 DEF MarkSending, Claimable, Due, Pending, Outcome
      <3>2. QED BY <2>1, <3>1 DEF Promise!vars, MarkSending, remote
    <2>2. ASSUME NEW S, Claim(w, S)
          PROVE  UNCHANGED Promise!vars
      BY <2>1, <2>2 DEF Claim
    <2>3. ASSUME NEW m \in Messages, BeginSend(w, m)
          PROVE  UNCHANGED Promise!vars
      BY <2>3 DEF BeginSend, Promise!vars, Outcome, table, remote
    <2>4. ASSUME NEW d \in Domains, BeginDomain(w, d)
          PROVE  UNCHANGED Promise!vars
      BY <2>4 DEF BeginDomain, Promise!vars, Outcome, table, remote
    <2>5. ASSUME NEW S, HostAccepts(w, S)
          PROVE  Promise!Next
      <3> DEFINE X == Group(current[w], domain[w]) \ S
      <3>1. Promise!Transmit(current[w], S, X) BY <2>5, TransmitPromise DEF HostAccepts
      <3>2. current[w] \in Messages /\ S \in SUBSET Addresses /\ X \in SUBSET Addresses
        BY <2>5, SendingFacts DEF HostAccepts, Group, IInv, TypeOK
      <3>3. QED BY <3>1, <3>2 DEF Promise!Next
    <2>6. CASE HostFails(w) BY <2>6 DEF HostFails, Promise!vars, Outcome, table, remote
    <2>7. ASSUME NEW S, ReplyLost(w, S)
          PROVE  Promise!Next
      <3>1. refused' = [refused EXCEPT ![current[w]] = @ \cup {}]
        BY <2>7 DEF ReplyLost, IInv, TypeOK
      <3>2. Promise!Transmit(current[w], S, {}) BY <2>7, <3>1, TransmitPromise DEF ReplyLost
      <3>3. current[w] \in Messages /\ S \in SUBSET Addresses
        BY <2>7, SendingFacts DEF ReplyLost, Group, IInv, TypeOK
      <3>4. QED BY <3>2, <3>3 DEF Promise!Next
    <2>8. CASE MarkMessageSent(w)
      <3>1. current[w] \in Messages BY <2>8 DEF MarkMessageSent, SendDone, IInv, TypeOK
      <3>2. QED BY <2>8, <3>1, MarkPromise DEF MarkMessageSent
    <2>9. CASE MarkMessageFailed(w)
      <3>1. current[w] \in Messages BY <2>9 DEF MarkMessageFailed, SendDone, IInv, TypeOK
      <3>2. QED BY <2>9, <3>1, MarkPromise DEF MarkMessageFailed
    <2>10. QED BY <1>4, <2>2, <2>3, <2>4, <2>5, <2>6, <2>7, <2>8, <2>9 DEF Relay
  <1>5. ASSUME NEW w \in Workers, Fault(w)
        PROVE  UNCHANGED Promise!vars
    <2>1. ASSUME NEW S, ClaimLost(w, S)
          PROVE  UNCHANGED Promise!vars
      <3>1. \A m \in Messages : Outcome(m)' = Outcome(m)
        BY <2>1 DEF ClaimLost, MarkSending, Claimable, Due, Pending, Outcome
      <3>2. QED BY <2>1, <3>1 DEF ClaimLost, Promise!vars, MarkSending, remote
    <2>2. CASE MarkLost(w) BY <2>2 DEF MarkLost, Promise!vars, Outcome, table, remote
    <2>3. CASE Crash(w) BY <2>3 DEF Crash, Promise!vars, Outcome, table, remote
    <2>4. QED BY <1>5, <2>1, <2>2, <2>3 DEF Fault
  <1>6. CASE UNCHANGED vars BY <1>6 DEF vars, table, remote, Promise!vars, Outcome
  <1>7. QED BY <1>1, <1>2, <1>3, <1>4, <1>5, <1>6 DEF Next

\* Each behaviour of the queue and its relay workers, faults included, is one
\* the promise allows.
THEOREM Refinement == Spec => PromiseKept
  BY Invariance, InitPromise, StepPromise, PTL DEF Spec, Promise!Spec, PromiseKept
=============================================================================
