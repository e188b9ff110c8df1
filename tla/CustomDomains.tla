---------------------------- MODULE CustomDomains ----------------------------
(***************************************************************************)
(* The verification of custom domains in the mail service: a domain is     *)
(* added with its DKIM key, the DNS worker checks a batch of those that    *)
(* are not verified at every tick, the owner may ask for a check at once   *)
(* and delete the domain, an administrator may declare it verified.  A     *)
(* check asks DNS for one record after another and then writes what it     *)
(* found, whatever was written meanwhile.                                  *)
(*                                                                         *)
(* A domain is told by the id of its row: one that is added again is       *)
(* another one.  What is abstracted: names and their syntax, the values of *)
(* the records, the log of the checks, and the mailboxes of a domain.      *)
(***************************************************************************)
EXTENDS Naturals, Sequences, FiniteSets, SequencesExt

CONSTANTS DomainIds,       \* ids of the rows of custom_domains, each used once
          Checks,          \* the records in the order in which they are looked up
          DkimCheck,       \* the one that needs the row of the DKIM key
          BatchLimit,      \* LIMIT 50 in GetPendingDomains
          Worker,          \* the DNS worker
          Demands,         \* requests of the owner for a check, each made once
          NoId,
          MaxRounds,       \* bound on the ticks of the worker
          MaxZoneChanges,  \* bound on the changes in DNS
          MaxOverrides,    \* bound on the decisions of the administrator
          MaxMishaps       \* bound on failed lookups and statements and on restarts

ASSUME CustomDomainsAssumption ==
    /\ IsFiniteSet(DomainIds)
    /\ Checks \in Seq(ToSet(Checks))
    /\ BatchLimit \in Nat \ {0}
    /\ DkimCheck \in ToSet(Checks)
    /\ Worker \notin Demands
    /\ NoId \notin DomainIds

Checkers == Demands \cup {Worker}
Records  == ToSet(Checks)

VARIABLES
    domain,       \* the rows of custom_domains, with that of dkim_keys
    lastChecked,  \* <<e, d>>: both have a last_checked_at, that of e is not after that of d
    zone,         \* the records that DNS has right for each domain
    adding,       \* the domain whose key is still to be stored
    batch,        \* the rest of the worker's batch
    check,        \* the check each checker is at
    used,         \* how much of each bound
    past          \* history: what the properties compare a row with

customVars == <<domain, lastChecked, zone, adding, batch, check, used, past>>

NoRow   == [there |-> FALSE, ever |-> FALSE, keyed |-> FALSE, status |-> "pending", flags |-> {}]
NoCheck == [of |-> NoId, left |-> <<>>, found |-> {}, done |-> FALSE, current |-> FALSE]

\* exact:  the last write was that of a check that began after the last change in DNS
\*         and none of whose lookups failed or came before the key.
\* waited: how many batches have left the domain out since it was checked.
\* stood:  it was verified when the last batch was selected, and has been since.
NoPast == [exact |-> FALSE, waited |-> 0, stood |-> FALSE]

CustomInit ==
    /\ domain = [d \in DomainIds |-> NoRow]
    /\ lastChecked = {}
    /\ zone \in {[d \in DomainIds |-> {}], [d \in DomainIds |-> Records]}
    /\ adding = NoId
    /\ batch = <<>>
    /\ check = [c \in Checkers |-> NoCheck]
    /\ used = [rounds |-> 0, changes |-> 0, overrides |-> 0, mishaps |-> 0]
    /\ past = [d \in DomainIds |-> NoPast]

Checked == {d \in DomainIds : <<d, d>> \in lastChecked}

\* Before in ORDER BY last_checked_at ASC NULLS FIRST.
Earlier(e, d) == d \in Checked /\ (e \in Checked => e # d /\ <<e, d>> \in lastChecked)

Takes(what, bound) == used[what] < bound /\ used' = [used EXCEPT ![what] = @ + 1]

-----------------------------------------------------------------------------
(* Adding and deleting                                                     *)

CreateDomain(d) ==
    /\ adding = NoId
    /\ ~domain[d].ever
    /\ domain' = [domain EXCEPT ![d].there = TRUE, ![d].ever = TRUE]
    /\ adding' = d
    /\ UNCHANGED <<lastChecked, zone, batch, check, used, past>>

\* The foreign key refuses the key of a domain that was deleted.
CreateDKIMKey ==
    /\ adding # NoId
    /\ domain' = [domain EXCEPT ![adding].keyed = @ \/ domain[adding].there]
    /\ adding' = NoId
    /\ UNCHANGED <<lastChecked, zone, batch, check, used, past>>

Deleted(d) == [domain EXCEPT ![d] = [NoRow EXCEPT !.ever = TRUE]]
Unranked(d) == lastChecked \cap ((DomainIds \ {d}) \X (DomainIds \ {d}))

\* No key is made, or its insert fails: the domain is deleted again.
NoKey ==
    /\ adding # NoId
    /\ Takes("mishaps", MaxMishaps)
    /\ domain' = Deleted(adding)
    /\ lastChecked' = Unranked(adding)
    /\ past' = [past EXCEPT ![adding] = NoPast]
    /\ adding' = NoId
    /\ UNCHANGED <<zone, batch, check>>

DeleteDomain(d) ==
    /\ domain[d].there
    /\ domain' = Deleted(d)
    /\ lastChecked' = Unranked(d)
    /\ past' = [past EXCEPT ![d] = NoPast]
    /\ UNCHANGED <<zone, adding, batch, check, used>>

-----------------------------------------------------------------------------
(* Checks                                                                  *)

BeginCheck(c, d) ==
    [check EXCEPT ![c] = [of |-> d, left |-> Checks, found |-> {}, done |-> FALSE, current |-> TRUE]]
EndCheck(c) == [check EXCEPT ![c] = [NoCheck EXCEPT !.done = TRUE]]

\* checkDKIM finds no key of a domain that is gone or still being added.
Finds(c, record) ==
    /\ record \in zone[check[c].of]
    /\ record = DkimCheck => domain[check[c].of].keyed

\* checkMX, checkSPF, checkDKIM, checkDMARC
Lookup(c) ==
    /\ check[c].left # <<>>
    /\ LET record == Head(check[c].left) IN
         check' = [check EXCEPT ![c].left = Tail(@),
                                ![c].found = @ \cup {r \in {record} : Finds(c, r)},
                                ![c].current = @ /\ (record = DkimCheck => domain[check[c].of].keyed)]
    /\ UNCHANGED <<domain, lastChecked, zone, adding, batch, used, past>>

\* A lookup that fails counts as a record that is not there.
LookupFails(c) ==
    /\ check[c].left # <<>>
    /\ Takes("mishaps", MaxMishaps)
    /\ check' = [check EXCEPT ![c].left = Tail(@), ![c].current = FALSE]
    /\ UNCHANGED <<domain, lastChecked, zone, adding, batch, past>>

\* last_checked_at = now()
Stamped(d) == Unranked(d) \cup ((Checked \cup {d}) \X {d})

Status(flags) == IF flags = Records THEN "verified" ELSE "verifying"

\* Mutant: a flag that was set once stays.
UpdateDomainVerificationAdding(c) ==
    LET d == check[c].of
        flags == domain[d].flags \cup check[c].found IN
    /\ d # NoId /\ check[c].left = <<>>
    /\ check' = EndCheck(c)
    /\ IF domain[d].there
       THEN /\ domain' = [domain EXCEPT ![d].flags = flags, ![d].status = Status(flags)]
            /\ lastChecked' = Stamped(d)
            /\ past' = [past EXCEPT ![d] =
                  [exact |-> check[c].current, waited |-> 0,
                   stood |-> past[d].stood /\ flags = Records]]
       ELSE UNCHANGED <<domain, lastChecked, past>>
    /\ UNCHANGED <<zone, adding, batch, used>>

\* UpdateDomainVerification, which asks for the id only.
UpdateDomainVerification(c) ==
    LET d == check[c].of IN
    /\ d # NoId /\ check[c].left = <<>>
    /\ check' = EndCheck(c)
    /\ IF domain[d].there
       THEN /\ domain' = [domain EXCEPT ![d].flags = check[c].found,
                                        ![d].status = Status(check[c].found)]
            /\ lastChecked' = Stamped(d)
            /\ past' = [past EXCEPT ![d] =
                  [exact |-> check[c].current, waited |-> 0,
                   stood |-> past[d].stood /\ check[c].found = Records]]
       ELSE UNCHANGED <<domain, lastChecked, past>>
    /\ UNCHANGED <<zone, adding, batch, used>>

\* The statement fails, which is logged.
UpdateFails(c) ==
    /\ check[c].of # NoId /\ check[c].left = <<>>
    /\ Takes("mishaps", MaxMishaps)
    /\ check' = EndCheck(c)
    /\ UNCHANGED <<domain, lastChecked, zone, adding, batch, past>>

-----------------------------------------------------------------------------
(* The worker, the owner and the administrator                             *)

\* Mutant: every domain is checked at every tick.
PendingAll == {d \in DomainIds : domain[d].there}

Pending == {d \in DomainIds : domain[d].there /\ domain[d].status \in {"pending", "verifying"}}

\* The batches that the query may answer: it leaves open how those that were never
\* checked are ordered among themselves.
Batches ==
    {rows \in BoundedSeq(Pending, BatchLimit) :
        /\ IsInjective(rows)
        /\ \A i, j \in DOMAIN rows : i < j => ~Earlier(rows[j], rows[i])
        /\ \A d \in Pending \ ToSet(rows) :
               Len(rows) = BatchLimit /\ \A e \in ToSet(rows) : ~Earlier(d, e)}

\* checkAll: the rows of the batch, as they are now.
GetPendingDomains ==
    /\ batch = <<>> /\ check[Worker].of = NoId
    /\ Pending # {}
    /\ Takes("rounds", MaxRounds)
    /\ batch' \in Batches
    /\ past' = [d \in DomainIds |->
          [past[d] EXCEPT
             !.waited = IF d \in Pending \ ToSet(batch') THEN @ + 1 ELSE @,
             !.stood = domain[d].there /\ domain[d].status = "verified"]]
    /\ UNCHANGED <<domain, lastChecked, zone, adding, check>>

CheckNext ==
    /\ batch # <<>> /\ check[Worker].of = NoId
    /\ check' = BeginCheck(Worker, Head(batch))
    /\ batch' = Tail(batch)
    /\ UNCHANGED <<domain, lastChecked, zone, adding, used, past>>

\* VerifyDomain: GetDomain, then checkDomain in the request.
CheckDomainDirect(c, d) ==
    /\ c # Worker /\ ~check[c].done /\ check[c].of = NoId
    /\ domain[d].there
    /\ check' = BeginCheck(c, d)
    /\ UNCHANGED <<domain, lastChecked, zone, adding, batch, used, past>>

AdminOverrideDomainVerify(d) ==
    /\ domain[d].there
    /\ Takes("overrides", MaxOverrides)
    /\ domain' = [domain EXCEPT ![d].status = "verified", ![d].flags = Records]
    /\ past' = [past EXCEPT ![d].exact = FALSE]
    /\ UNCHANGED <<lastChecked, zone, adding, batch, check>>

\* The process stops; checkAll begins anew when it is back.
Restart ==
    /\ Takes("mishaps", MaxMishaps)
    /\ batch' = <<>>
    /\ adding' = NoId
    /\ check' = [c \in Checkers |-> IF check[c].of = NoId THEN check[c]
                                    ELSE [NoCheck EXCEPT !.done = TRUE]]
    /\ UNCHANGED <<domain, lastChecked, zone, past>>

\* The owner of the DNS zone adds or removes a record.
ZoneChanges(d, record) ==
    /\ Takes("changes", MaxZoneChanges)
    /\ zone' = [zone EXCEPT ![d] = IF record \in @ THEN @ \ {record} ELSE @ \cup {record}]
    /\ check' = [c \in Checkers |-> [check[c] EXCEPT !.current = @ /\ check[c].of # d]]
    /\ past' = [past EXCEPT ![d].exact = FALSE]
    /\ UNCHANGED <<domain, lastChecked, adding, batch>>

CustomNext ==
    \/ \E d \in DomainIds :
         \/ CreateDomain(d) \/ DeleteDomain(d) \/ AdminOverrideDomainVerify(d)
         \/ \E c \in Checkers : CheckDomainDirect(c, d)
         \/ \E record \in Records : ZoneChanges(d, record)
    \/ CreateDKIMKey \/ NoKey \/ GetPendingDomains \/ CheckNext \/ Restart
    \/ \E c \in Checkers :
         Lookup(c) \/ LookupFails(c) \/ UpdateDomainVerification(c) \/ UpdateFails(c)

CustomSpec == CustomInit /\ [][CustomNext]_customVars

-----------------------------------------------------------------------------
(* Properties                                                              *)

CustomTypeOK ==
    /\ \A d \in DomainIds :
         /\ domain[d].there \in BOOLEAN /\ domain[d].keyed \in BOOLEAN
         /\ domain[d].there => domain[d].ever
         /\ domain[d].status \in {"pending", "verifying", "verified"}
         /\ domain[d].flags \subseteq Records
         /\ zone[d] \subseteq Records
    /\ lastChecked \subseteq Checked \X Checked
    /\ \A d, e \in Checked :
         /\ domain[d].there
         /\ d # e => (<<d, e>> \in lastChecked <=> <<e, d>> \notin lastChecked)
    /\ adding \in DomainIds \cup {NoId}
    /\ Len(batch) <= BatchLimit
    /\ \A c \in Checkers : check[c].of \in DomainIds \cup {NoId}

\* What a row says of DNS is true, or DNS has changed since the check that was written
\* last began, one of its lookups failed, or an administrator decided.
FlagsAreOfZone == \A d \in DomainIds : past[d].exact => domain[d].flags = zone[d]

\* A domain is verified exactly when each of its records is.
VerifiedIsWhole ==
    \A d \in DomainIds : domain[d].status = "verified" <=> domain[d].flags = Records

\* A domain without a key is being added, unless something failed.
KeyedUnlessAdding ==
    \A d \in DomainIds :
        domain[d].there /\ ~domain[d].keyed => adding = d \/ used.mishaps > 0

\* No domain is left out of more batches than the others need to be checked once each,
\* whatever is added meanwhile; a failed write may repeat one.
EveryoneTakesTurns ==
    \A d \in DomainIds :
        past[d].waited * BatchLimit <= Cardinality(DomainIds) - 1 + used.mishaps * BatchLimit

\* What the table of the domains says was found, and each is looked at in its turn.
ChecksAreTrue == FlagsAreOfZone /\ VerifiedIsWhole /\ KeyedUnlessAdding /\ EveryoneTakesTurns

\* A domain that was verified when the worker selected its batch is verified until its
\* owner asks for a check: only a domain whose check was waiting or under way when it
\* was verified, by the administrator or by another check, may lose that to the worker.
VerifiedStands ==
    [][\A d \in DomainIds :
         /\ domain[d].status = "verified" /\ past[d].stood
         /\ domain'[d].there /\ domain'[d].status # "verified"
         => \E c \in Demands : check[c].of = d /\ check'[c].of = NoId]_customVars

-----------------------------------------------------------------------------
(* The invariant that these follow from                                    *)

Rows == [there : BOOLEAN, ever : BOOLEAN, keyed : BOOLEAN,
         status : {"pending", "verifying", "verified"}, flags : SUBSET Records]

CheckStates == [of : DomainIds \cup {NoId}, left : Seq(Records), found : SUBSET Records,
                done : BOOLEAN, current : BOOLEAN]

Pasts == [exact : BOOLEAN, waited : Nat, stood : BOOLEAN]

CustomTypes ==
    /\ domain \in [DomainIds -> Rows]
    /\ lastChecked \subseteq Checked \X Checked
    /\ zone \in [DomainIds -> SUBSET Records]
    /\ adding \in DomainIds \cup {NoId}
    /\ batch \in Seq(DomainIds)
    /\ check \in [Checkers -> CheckStates]
    /\ used \in [rounds : Nat, changes : Nat, overrides : Nat, mishaps : Nat]
    /\ past \in [DomainIds -> Pasts]

\* Whatever is told of an id is told of a row that was there; one that is gone left nothing.
TablesOK ==
    /\ \A d \in DomainIds :
         /\ domain[d].there => domain[d].ever
         /\ ~domain[d].there =>
              /\ ~domain[d].keyed /\ domain[d].status = "pending" /\ domain[d].flags = {}
              /\ past[d] = NoPast /\ d \notin Checked
    /\ \A c \in Checkers : check[c].of # NoId => domain[check[c].of].ever
    /\ \A d \in ToSet(batch) : domain[d].ever

\* The times of the last checks are of one order.
OrderOK ==
    \A d, e \in Checked : d # e => (<<d, e>> \in lastChecked <=> <<e, d>> \notin lastChecked)

\* A check that nothing disturbed found what it looked for and DNS has, no more.
FoundSoFar ==
    \A c \in Checkers :
        /\ check[c].of = NoId => check[c].left = <<>>
        /\ check[c].of # NoId /\ check[c].current =>
             /\ zone[check[c].of] \ ToSet(check[c].left) \subseteq check[c].found
             /\ check[c].found \subseteq zone[check[c].of]

\* What the worker has selected and not written.
InFlight == ToSet(batch) \cup ({check[Worker].of} \ {NoId})

\* The worker has no more than a batch, and nothing that was verified when it was selected.
WorkerOK ==
    /\ Len(batch) + (IF check[Worker].of = NoId THEN 0 ELSE 1) <= BatchLimit
    /\ \A d \in InFlight : ~past[d].stood

\* The domains that may be selected before d: those not added yet, and those that were
\* not checked since.
MayPrecede(d) ==
    {e \in DomainIds \ {d} : ~domain[e].ever \/ (domain[e].there /\ ~Earlier(d, e))}

\* Each batch that leaves d out takes as many domains from those before it as it holds.
TurnsLeft ==
    \A d \in DomainIds :
        past[d].waited * BatchLimit + Cardinality(MayPrecede(d) \ InFlight)
            <= Cardinality(DomainIds) - 1 + used.mishaps * BatchLimit

CustomInv ==
    /\ CustomTypes /\ TablesOK /\ OrderOK /\ FoundSoFar /\ WorkerOK
    /\ FlagsAreOfZone /\ VerifiedIsWhole /\ KeyedUnlessAdding /\ TurnsLeft
=============================================================================
