---------------------------- MODULE OutboundQueue ----------------------------
(***************************************************************************)
(* The outbound mail queue of the mail service: the table outbound_queue,  *)
(* the relay workers that claim its rows and the SMTP sender they call.    *)
(*                                                                         *)
(* A relay worker wakes up every five seconds, claims a batch of due rows  *)
(* in one UPDATE ... FOR UPDATE SKIP LOCKED statement, sends the messages  *)
(* of the batch one after the other and records the outcome of each.  A    *)
(* message is sent domain by domain, and for each domain its MX hosts are  *)
(* tried in order of preference until one of them takes the message.       *)
(*                                                                         *)
(* What is abstracted: contents, addresses and hosts are model values;     *)
(* DKIM signing is skipped, because every row is enqueued with a NULL      *)
(* domain_id; the clock counts minutes and stands still while no row waits *)
(* for it.                                                                 *)
(***************************************************************************)
EXTENDS Integers, FiniteSets

CONSTANTS Messages,    \* rows that may be inserted into outbound_queue
          Owner,       \* the user a row belongs to (user_id)
          Addresses,   \* recipient addresses
          Envelopes,   \* the recipient lists that messages are enqueued with
          Domains,     \* the mail domains of well-formed addresses
          DomainOf,    \* the domain of an address, NoDomain if it has no '@'
          MXHosts,     \* how many hosts deliverToDomain tries for a domain
          Workers,     \* relay workers, one per running mail service
          BatchLimit,  \* rows claimed at a time (10 in processQueue)
          MaxAttempts, \* max_attempts of a row (5 by default)
          MaxFaults,   \* bound on crashes and failed database calls
          NoMessage, NoDomain

ASSUME OutboundAssumption ==
    /\ Envelopes \subseteq (SUBSET Addresses) \ {{}}
    /\ DomainOf \in [Addresses -> Domains \cup {NoDomain}]
    /\ MXHosts \in [Domains -> Nat \ {0}]
    /\ BatchLimit \in Nat \ {0}
    /\ MaxAttempts \in Nat \ {0}
    /\ MaxFaults \in Nat
    /\ NoMessage \notin Messages
    /\ NoDomain \notin Domains

VARIABLES
    \* the table outbound_queue
    status,       \* the status column; "none" before the INSERT, "gone" after a cascade
    attempts,     \* the attempts column
    nextRetryAt,  \* the next_retry_at column, in minutes
    rcpts,        \* to_addresses, cc_addresses and bcc_addresses together
    now,          \* NOW(), in minutes
    \* the local state of the relay workers
    batch,        \* claimed messages the loop of processQueue has not reached
    seen,         \* msg.Attempts, as the claim returned it
    current,      \* the message being sent
    todo,         \* domains of grouped that Send has not reached
    domain,       \* the domain deliverToDomain is working on
    host,         \* the index in mxRecords of the host being tried
    lastErr,      \* whether Send has recorded an error
    \* the world outside
    copies,       \* how often a remote host took the message for an address
    refused,      \* addresses a RCPT TO was refused for and given up on
    faults

table    == <<status, attempts, nextRetryAt, rcpts>>
progress == <<todo, domain, host, lastErr>>
locals   == <<batch, seen, current>>
remote   == <<copies, refused>>
vars     == <<table, now, locals, progress, remote, faults>>

Statuses == {"none", "queued", "sending", "deferred", "sent", "failed", "gone"}

-----------------------------------------------------------------------------
(* The rows a claim may take and the messages a worker has taken.          *)

\* Mutant: rows another worker is sending are claimed again.
PendingOrSending(m) == status[m] \in {"queued", "deferred", "sending"}

\* Mutant: deferred rows are forgotten by the claim.
PendingOnlyQueued(m) == status[m] = "queued"

Pending(m) == status[m] \in {"queued", "deferred"}

Due == {m \in Messages : Pending(m) /\ nextRetryAt[m] <= now}

InFlight(w) == batch[w] \cup ({current[w]} \ {NoMessage})

Held == UNION {InFlight(w) : w \in Workers}

\* groupByDomain: an address without a domain is in no group.
Group(m, d) == {a \in rcpts[m] : DomainOf[a] = d}

Routable(m) == {a \in rcpts[m] : DomainOf[a] \in Domains}

\* The exponential delay of MarkMessageFailed, in minutes.
Backoff(n) == 2^n

Idle(w)      == batch[w] = {} /\ current[w] = NoMessage
Sending(w)   == current[w] # NoMessage /\ domain[w] # NoDomain
SendDone(w)  == current[w] # NoMessage /\ domain[w] = NoDomain /\ todo[w] = {}

-----------------------------------------------------------------------------
Init ==
    /\ status = [m \in Messages |-> "none"]
    /\ attempts = [m \in Messages |-> 0]
    /\ nextRetryAt = [m \in Messages |-> 0]
    /\ rcpts = [m \in Messages |-> {}]
    /\ now = 0
    /\ batch = [w \in Workers |-> {}]
    /\ seen = [w \in Workers |-> [m \in Messages |-> 0]]
    /\ current = [w \in Workers |-> NoMessage]
    /\ todo = [w \in Workers |-> {}]
    /\ domain = [w \in Workers |-> NoDomain]
    /\ host = [w \in Workers |-> 0]
    /\ lastErr = [w \in Workers |-> FALSE]
    /\ copies = [m \in Messages |-> [a \in Addresses |-> 0]]
    /\ refused = [m \in Messages |-> {}]
    /\ faults = 0

\* EnqueueOutbound: the INSERT, with the column defaults of migration 014.
EnqueueOutbound(m, to) ==
    /\ status[m] = "none"
    /\ to \in Envelopes
    /\ status' = [status EXCEPT ![m] = "queued"]
    /\ nextRetryAt' = [nextRetryAt EXCEPT ![m] = now]
    /\ rcpts' = [rcpts EXCEPT ![m] = to]
    /\ UNCHANGED <<attempts, now, locals, progress, remote, faults>>

\* Deleting a user deletes its rows (ON DELETE CASCADE), claimed ones too.
DeleteUser(u) ==
    /\ \E m \in Messages : Owner[m] = u /\ status[m] \notin {"none", "gone"}
    /\ status' = [m \in Messages |->
                    IF Owner[m] = u /\ status[m] # "none" THEN "gone" ELSE status[m]]
    /\ UNCHANGED <<attempts, nextRetryAt, rcpts, now, locals, progress, remote, faults>>

\* A minute passes while some row waits for its next attempt.
Tick ==
    /\ \E m \in Messages : Pending(m) /\ nextRetryAt[m] > now
    /\ now' = now + 1
    /\ UNCHANGED <<table, locals, progress, remote, faults>>

-----------------------------------------------------------------------------
(* GetQueuedMessages: the LIMIT earliest of the due rows become 'sending'. *)

\* A batch the sub-select may return: ties on next_retry_at in any order.
Claimable(S) ==
    /\ S # {}
    /\ S \subseteq Due
    /\ Cardinality(S) <= BatchLimit
    /\ S # Due => Cardinality(S) = BatchLimit
    /\ \A m \in S, k \in Due \ S : nextRetryAt[m] <= nextRetryAt[k]

\* Mutant: the claim does not count the attempt.
MarkSendingUncounted(S) ==
    /\ status' = [m \in Messages |-> IF m \in S THEN "sending" ELSE status[m]]
    /\ UNCHANGED <<attempts, nextRetryAt, rcpts>>

MarkSending(S) ==
    /\ status' = [m \in Messages |-> IF m \in S THEN "sending" ELSE status[m]]
    /\ attempts' = [m \in Messages |-> IF m \in S THEN attempts[m] + 1 ELSE attempts[m]]
    /\ UNCHANGED <<nextRetryAt, rcpts>>

\* Mutant: the claim returns the number of attempts before this one.
ClaimOldCount(w, S) ==
    /\ Idle(w)
    /\ Claimable(S)
    /\ MarkSending(S)
    /\ batch' = [batch EXCEPT ![w] = S]
    /\ seen' = [seen EXCEPT ![w] = [m \in Messages |-> IF m \in S THEN attempts[m] ELSE 0]]
    /\ UNCHANGED <<now, current, progress, remote, faults>>

Claim(w, S) ==
    /\ Idle(w)
    /\ Claimable(S)
    /\ MarkSending(S)
    /\ batch' = [batch EXCEPT ![w] = S]
    /\ seen' = [seen EXCEPT ![w] = [m \in Messages |-> IF m \in S THEN attempts[m] + 1 ELSE 0]]
    /\ UNCHANGED <<now, current, progress, remote, faults>>

\* The UPDATE commits but reading its rows fails: processQueue gives up.
ClaimLost(w, S) ==
    /\ faults < MaxFaults
    /\ Idle(w)
    /\ Claimable(S)
    /\ MarkSending(S)
    /\ faults' = faults + 1
    /\ UNCHANGED <<now, locals, progress, remote>>

-----------------------------------------------------------------------------
(* Sender.Send for one message of the batch.                               *)

\* sendMessage joins the three address lists and Send groups them by domain.
BeginSend(w, m) ==
    /\ current[w] = NoMessage
    /\ m \in batch[w]
    /\ batch' = [batch EXCEPT ![w] = @ \ {m}]
    /\ current' = [current EXCEPT ![w] = m]
    /\ todo' = [todo EXCEPT ![w] = {DomainOf[a] : a \in Routable(m)}]
    /\ UNCHANGED <<table, now, seen, domain, host, lastErr, remote, faults>>

\* The next domain of the range over grouped, in any order (a Go map).
BeginDomain(w, d) ==
    /\ current[w] # NoMessage
    /\ domain[w] = NoDomain
    /\ d \in todo[w]
    /\ todo' = [todo EXCEPT ![w] = @ \ {d}]
    /\ domain' = [domain EXCEPT ![w] = d]
    /\ host' = [host EXCEPT ![w] = 1]
    /\ UNCHANGED <<table, now, locals, lastErr, remote, faults>>

\* The remote host takes the message for the addresses in S.
Take(w, S) ==
    copies' = [copies EXCEPT ![current[w]] =
                 [a \in Addresses |-> IF a \in S THEN @[a] + 1 ELSE @[a]]]

\* Mutant: Send returns the outcome of the domain it tried last.
HostAcceptsForgets(w, S) ==
    /\ Sending(w)
    /\ S # {}
    /\ S \subseteq Group(current[w], domain[w])
    /\ Take(w, S)
    /\ refused' = [refused EXCEPT ![current[w]] = @ \cup (Group(current[w], domain[w]) \ S)]
    /\ domain' = [domain EXCEPT ![w] = NoDomain]
    /\ host' = [host EXCEPT ![w] = 0]
    /\ lastErr' = [lastErr EXCEPT ![w] = FALSE]
    /\ UNCHANGED <<table, now, locals, todo, faults>>

\* deliverToHost returns nil.  Refused RCPT TOs are logged and forgotten; a
\* host that refused all of them does not answer 354 to DATA (external).
HostAccepts(w, S) ==
    /\ Sending(w)
    /\ S # {}
    /\ S \subseteq Group(current[w], domain[w])
    /\ Take(w, S)
    /\ refused' = [refused EXCEPT ![current[w]] = @ \cup (Group(current[w], domain[w]) \ S)]
    /\ domain' = [domain EXCEPT ![w] = NoDomain]
    /\ host' = [host EXCEPT ![w] = 0]
    /\ UNCHANGED <<table, now, locals, todo, lastErr, faults>>

\* deliverToHost returns an error: the next host is tried, and after the last
\* one Send keeps the error and goes on with the other domains.
NextHost(w) ==
    IF host[w] < MXHosts[domain[w]]
    THEN /\ host' = [host EXCEPT ![w] = @ + 1]
         /\ UNCHANGED <<domain, lastErr>>
    ELSE /\ host' = [host EXCEPT ![w] = 0]
         /\ domain' = [domain EXCEPT ![w] = NoDomain]
         /\ lastErr' = [lastErr EXCEPT ![w] = TRUE]

\* The connection, a command or the DATA is refused: nothing was taken.
HostFails(w) ==
    /\ Sending(w)
    /\ NextHost(w)
    /\ UNCHANGED <<table, now, locals, todo, remote, faults>>

\* The host took the message but its reply to the final dot never arrived.
ReplyLost(w, S) ==
    /\ Sending(w)
    /\ S # {}
    /\ S \subseteq Group(current[w], domain[w])
    /\ Take(w, S)
    /\ NextHost(w)
    /\ UNCHANGED <<table, now, locals, todo, refused, faults>>

-----------------------------------------------------------------------------
(* Recording the outcome.  A row that is gone is not updated.              *)

Forget(w) ==
    /\ current' = [current EXCEPT ![w] = NoMessage]
    /\ seen' = [seen EXCEPT ![w][current[w]] = 0]
    /\ lastErr' = [lastErr EXCEPT ![w] = FALSE]
    /\ UNCHANGED <<batch, todo, domain, host>>

SetStatus(m, s) ==
    status' = [status EXCEPT ![m] = IF @ = "gone" THEN @ ELSE s]

\* MarkMessageSent
MarkMessageSent(w) ==
    /\ SendDone(w)
    /\ ~lastErr[w]
    /\ SetStatus(current[w], "sent")
    /\ Forget(w)
    /\ UNCHANGED <<attempts, nextRetryAt, rcpts, now, remote, faults>>

\* Mutant: one attempt too many is allowed.
MarkMessageFailedLate(w) ==
    LET m == current[w]
        n == seen[w][m]
    IN  /\ SendDone(w)
        /\ lastErr[w]
        /\ SetStatus(m, IF n > MaxAttempts THEN "failed" ELSE "deferred")
        /\ nextRetryAt' = [nextRetryAt EXCEPT ![m] = now + Backoff(n)]
        /\ Forget(w)
        /\ UNCHANGED <<attempts, rcpts, now, remote, faults>>

\* Mutant: the loop over the batch stops at the first failed delivery.
MarkMessageFailedBreak(w) ==
    LET m == current[w]
        n == seen[w][m]
    IN  /\ SendDone(w)
        /\ lastErr[w]
        /\ SetStatus(m, IF n >= MaxAttempts THEN "failed" ELSE "deferred")
        /\ nextRetryAt' = [nextRetryAt EXCEPT ![m] = now + Backoff(n)]
        /\ batch' = [batch EXCEPT ![w] = {}]
        /\ seen' = [seen EXCEPT ![w] = [k \in Messages |-> 0]]
        /\ current' = [current EXCEPT ![w] = NoMessage]
        /\ lastErr' = [lastErr EXCEPT ![w] = FALSE]
        /\ UNCHANGED <<attempts, rcpts, now, todo, domain, host, remote, faults>>

\* MarkMessageFailed, with the attempts and max_attempts the claim returned.
MarkMessageFailed(w) ==
    LET m == current[w]
        n == seen[w][m]
    IN  /\ SendDone(w)
        /\ lastErr[w]
        /\ SetStatus(m, IF n >= MaxAttempts THEN "failed" ELSE "deferred")
        /\ nextRetryAt' = [nextRetryAt EXCEPT ![m] =
                             IF status[m] = "gone" THEN @ ELSE now + Backoff(n)]
        /\ Forget(w)
        /\ UNCHANGED <<attempts, rcpts, now, remote, faults>>

\* Either UPDATE fails; sendMessage ignores the error it returns.
MarkLost(w) ==
    /\ faults < MaxFaults
    /\ SendDone(w)
    /\ Forget(w)
    /\ faults' = faults + 1
    /\ UNCHANGED <<table, now, remote>>

\* The process stops, for an update or a failure, and a new one starts.
Crash(w) ==
    /\ faults < MaxFaults
    /\ ~Idle(w)
    /\ batch' = [batch EXCEPT ![w] = {}]
    /\ seen' = [seen EXCEPT ![w] = [m \in Messages |-> 0]]
    /\ current' = [current EXCEPT ![w] = NoMessage]
    /\ todo' = [todo EXCEPT ![w] = {}]
    /\ domain' = [domain EXCEPT ![w] = NoDomain]
    /\ host' = [host EXCEPT ![w] = 0]
    /\ lastErr' = [lastErr EXCEPT ![w] = FALSE]
    /\ faults' = faults + 1
    /\ UNCHANGED <<table, now, remote>>

-----------------------------------------------------------------------------
\* The steps of a relay worker that nothing outside has to bring about.
Relay(w) ==
    \/ \E S \in SUBSET Messages : Claim(w, S)
    \/ \E m \in Messages : BeginSend(w, m)
    \/ \E d \in Domains : BeginDomain(w, d)
    \/ \E S \in SUBSET Addresses : HostAccepts(w, S)
    \/ HostFails(w)
    \/ \E S \in SUBSET Addresses : ReplyLost(w, S)
    \/ MarkMessageSent(w)
    \/ MarkMessageFailed(w)

Fault(w) ==
    \/ \E S \in SUBSET Messages : ClaimLost(w, S)
    \/ MarkLost(w)
    \/ Crash(w)

Next ==
    \/ \E m \in Messages, to \in Envelopes : EnqueueOutbound(m, to)
    \/ \E m \in Messages : DeleteUser(Owner[m])
    \/ Tick
    \/ \E w \in Workers : Relay(w) \/ Fault(w)

Spec == Init /\ [][Next]_vars

(* The ticker of a worker keeps firing, every read has a deadline (five     *)
(* minutes per connection), so a worker never rests while it has something  *)
(* to do; and time passes.                                                  *)
Fairness == WF_vars(Tick) /\ \A w \in Workers : WF_vars(Relay(w))

FairSpec == Spec /\ Fairness

-----------------------------------------------------------------------------
(* Properties                                                              *)

TypeOK ==
    /\ status \in [Messages -> Statuses]
    /\ attempts \in [Messages -> 0..MaxAttempts]
    /\ nextRetryAt \in [Messages -> Nat]
    /\ rcpts \in [Messages -> SUBSET Addresses]
    /\ now \in Nat
    /\ batch \in [Workers -> SUBSET Messages]
    /\ seen \in [Workers -> [Messages -> 0..MaxAttempts]]
    /\ current \in [Workers -> Messages \cup {NoMessage}]
    /\ todo \in [Workers -> SUBSET Domains]
    /\ domain \in [Workers -> Domains \cup {NoDomain}]
    /\ host \in [Workers -> Nat]
    /\ lastErr \in [Workers -> BOOLEAN]
    /\ copies \in [Messages -> [Addresses -> Nat]]
    /\ refused \in [Messages -> SUBSET Addresses]
    /\ faults \in 0..MaxFaults

\* No two relay workers hold the same message, although nothing but the
\* status column keeps them apart (FOR UPDATE SKIP LOCKED only separates
\* claims that run at the same time).
ClaimExclusive ==
    \A w, v \in Workers : w # v => InFlight(w) \cap InFlight(v) = {}

Reached(m, a) == copies[m][a] > 0 \/ a \in refused[m]

\* A row reads 'sent' only if every address the sender can route got a copy
\* or was refused by its host: an error for one domain is not forgotten when
\* a later domain succeeds.
SentIsHandled ==
    \A m \in Messages : status[m] = "sent" =>
        \A a \in Routable(m) : Reached(m, a)

\* What n attempts may bring an address: one copy for each host of its domain.
Allowance(n, a) == IF DomainOf[a] \in Domains THEN n * MXHosts[DomainOf[a]] ELSE 0

\* The retries go to all the recipients again, and so do the other hosts of
\* a domain after a lost reply; still an address gets at most one copy for
\* each attempt and host of its domain.
CopiesBounded ==
    \A m \in Messages, a \in Addresses : copies[m][a] <= Allowance(attempts[m], a)

Stranded(m) == status[m] = "sending" /\ m \notin Held

\* A row is left in 'sending' with no worker on it only after a crash or a
\* failed database call (no claim selects such a row again).
StrandedOnlyByFault == (\E m \in Messages : Stranded(m)) => faults > 0

\* Every accepted message is settled in the end, unless its row is stranded
\* or its sender deleted: backlogs longer than a batch, retries and slow hosts
\* do not starve it.
EventuallySettled ==
    \A m \in Messages :
        status[m] = "queued" ~> (status[m] \in {"sent", "failed", "gone"} \/ Stranded(m))

\* The queue as OutboundPromise sees it.
Outcome(m) ==
    CASE status[m] = "none" -> "none"
      [] status[m] = "gone" -> "withdrawn"
      [] status[m] \in {"sent", "failed"} -> status[m]
      [] OTHER -> "open"

Promise == INSTANCE OutboundPromise WITH
    outcome <- [m \in Messages |-> Outcome(m)],
    wanted <- rcpts,
    CanRoute <- {a \in Addresses : DomainOf[a] \in Domains},
    MaxCopies <- [a \in Addresses |-> Allowance(MaxAttempts, a)]

\* The queue keeps the promise.
PromiseKept == Promise!Spec

-----------------------------------------------------------------------------
(* The inductive invariant behind the safety properties (proved in          *)
(* OutboundQueue_proofs).                                                   *)

\* A held row is in 'sending' (or gone), and the worker knows its attempts.
HeldRows ==
    \A w \in Workers :
        /\ current[w] \notin batch[w]
        /\ \A m \in InFlight(w) :
             /\ status[m] \in {"sending", "gone"}
             /\ attempts[m] > 0
             /\ seen[w][m] = attempts[m]

\* A row that can be claimed has an attempt left.
AttemptLeft ==
    \A m \in Messages :
        /\ status[m] \in {"none", "queued"} => attempts[m] = 0
        /\ status[m] = "deferred" => attempts[m] < MaxAttempts

\* The nesting of Send, deliverToDomain and deliverToHost.
Nesting ==
    \A w \in Workers :
        /\ current[w] = NoMessage => todo[w] = {} /\ domain[w] = NoDomain /\ ~lastErr[w]
        /\ domain[w] # NoDomain =>
             domain[w] \notin todo[w] /\ host[w] \in 1..MXHosts[domain[w]]

\* While Send has seen no error, the domains behind it are taken care of.
Accounted ==
    \A w \in Workers :
        current[w] # NoMessage /\ ~lastErr[w] =>
            \A a \in Routable(current[w]) :
                DomainOf[a] \in todo[w] \cup {domain[w]} \/ Reached(current[w], a)

\* The running attempt has not used its allowance before its host is tried.
Unspent ==
    /\ \A w \in Workers, a \in Addresses : \A m \in batch[w] :
          copies[m][a] <= Allowance(attempts[m] - 1, a)
    /\ \A w \in Workers, a \in Addresses :
          current[w] # NoMessage =>
            LET m == current[w] IN
            /\ DomainOf[a] \in todo[w] => copies[m][a] <= Allowance(attempts[m] - 1, a)
            /\ DomainOf[a] = domain[w] /\ domain[w] # NoDomain =>
                 copies[m][a] <= Allowance(attempts[m] - 1, a) + host[w] - 1

IInv ==
    /\ TypeOK
    /\ ClaimExclusive
    /\ HeldRows
    /\ AttemptLeft
    /\ Nesting
    /\ Accounted
    /\ Unspent
    /\ CopiesBounded
    /\ SentIsHandled
    /\ StrandedOnlyByFault
=============================================================================
