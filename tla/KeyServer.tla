------------------------------ MODULE KeyServer ------------------------------
(***************************************************************************)
(* The key server: the bundles of public keys of a user, which are         *)
(* published, rotated and revoked, and the batches of pre-keys, which are  *)
(* uploaded and handed out one by one.  The auth service works on the same *)
(* table of bundles: it replaces them in two statements of its own.        *)
(*                                                                         *)
(* The model has the isolation of PostgreSQL (READ COMMITTED): an UPDATE   *)
(* finds its rows in the snapshot of its start, waits for rows another     *)
(* transaction has written, and then looks again whether they still match. *)
(* An id that a sub-select returned is not looked up again.                *)
(*                                                                         *)
(* What is abstracted: one user, as every statement is about one; keys are *)
(* known by the request that brought them; the rows of a statement are     *)
(* locked in any order.  Left out: a request whose input is refused, and   *)
(* one whose commit succeeds without its client hearing of it.             *)
(***************************************************************************)
EXTENDS Integers, FiniteSets

CONSTANTS Requests,   \* requests, each made once; a bundle is known by its request
          KeyIds,     \* key_id of the pre-keys
          MaxFaults,  \* bound on failures
          NoKey

ASSUME KeyServerAssumption ==
    /\ KeyIds \subseteq Int
    /\ IsFiniteSet(KeyIds)
    /\ Requests \cap KeyIds = {}
    /\ NoKey \notin Requests \cup (KeyIds \X (Requests \cup {NoKey}))
    /\ MaxFaults \in Nat

VARIABLES
    active,     \* public_key_bundles: the bundles with is_active
    createdAt,  \* public_key_bundles: created_at
    preKeys,    \* signed_pre_keys: who uploaded the key of an id, and is_used
    op,         \* the requests
    clock,      \* NOW(), counted in the statements that read it
    before,     \* history: the requests that were done when a request began
    faults

vars == <<active, createdAt, preKeys, op, clock, before, faults>>

Kinds == {"publish", "rotate", "revoke", "replace", "upload", "getPreKey"}

NewRequest == [kind |-> "none", pc |-> "new", todo |-> {}, held |-> {}, got |-> NoKey]

Unwritten == [from |-> NoKey, used |-> TRUE]

Init ==
    /\ active = {}
    /\ createdAt = [r \in Requests |-> 0]
    /\ preKeys = [k \in KeyIds |-> Unwritten]
    /\ op = [r \in Requests |-> NewRequest]
    /\ clock = 0
    /\ before = [r \in Requests |-> {}]
    /\ faults = 0

Done == {r \in Requests : op[r].pc = "done"}

\* Mutant: the oldest of the active bundles.
LatestOldest == {b \in active : \A c \in active : createdAt[b] <= createdAt[c]}

\* What GetActiveKeys, GetSigningKey and BatchLookup serve, ORDER BY created_at
\* DESC LIMIT 1: one bundle, or none if none is active.
Latest == {b \in active : \A c \in active : createdAt[b] >= createdAt[c]}

-----------------------------------------------------------------------------
(* Requests begin.                                                         *)

Begin(r, k, p, rows) ==
    /\ op[r].pc = "new"
    /\ op' = [op EXCEPT ![r].kind = k, ![r].pc = p, ![r].todo = rows]
    /\ before' = [before EXCEPT ![r] = Done]

\* created_at is the time at which the transaction of the INSERT began.
Stamp(r) ==
    /\ clock' = clock + 1
    /\ createdAt' = [createdAt EXCEPT ![r] = clock + 1]

\* PublishKeys, and StorePublicKeys of the auth service.
Publish(r) ==
    /\ Begin(r, "publish", "insert", {})
    /\ Stamp(r)
    /\ UNCHANGED <<active, preKeys, faults>>

\* RotateKeys: BEGIN.
Rotate(r) ==
    /\ Begin(r, "rotate", "begun", {})
    /\ Stamp(r)
    /\ UNCHANGED <<active, preKeys, faults>>

\* Mutant: only the bundle that is served is revoked.
VisibleLatest == Latest

\* The rows that match when the UPDATE starts.
Visible == active

\* RevokeKeys: the UPDATE starts.
Revoke(r) ==
    /\ Begin(r, "revoke", "revoking", Visible)
    /\ UNCHANGED <<active, createdAt, preKeys, clock, faults>>

\* handleUploadKeys of the auth service: RevokePublicKeys starts.
Replace(r) ==
    /\ Begin(r, "replace", "revoking", Visible)
    /\ UNCHANGED <<active, createdAt, preKeys, clock, faults>>

\* UploadPreKeys, one upsert for each key of the batch.
UploadPreKeys(r, K) ==
    /\ K # {}
    /\ Begin(r, "upload", "writing", K)
    /\ UNCHANGED <<active, createdAt, preKeys, clock, faults>>

\* GetPreKey reads the bundle; without one it answers 404.
GetPreKey(r) ==
    /\ Begin(r, "getPreKey", IF Latest = {} THEN "done" ELSE "select", {})
    /\ UNCHANGED <<active, createdAt, preKeys, clock, faults>>

-----------------------------------------------------------------------------
(* Row locks.                                                              *)

\* RotateKeys: the UPDATE starts.
RevokeOld(r) ==
    /\ op[r].pc = "begun"
    /\ op' = [op EXCEPT ![r].pc = "revoking", ![r].todo = Visible]
    /\ UNCHANGED <<active, createdAt, preKeys, clock, before, faults>>

HeldByOthers(r) == UNION {op[q].held : q \in Requests \ {r}}

\* The next row that is not locked is written, unless it is a bundle that was
\* revoked while the statement waited.
WriteRow(r, x) ==
    /\ op[r].pc \in {"revoking", "writing"}
    /\ x \in op[r].todo \ HeldByOthers(r)
    /\ op' = [op EXCEPT ![r].todo = @ \ {x},
                        ![r].held = IF x \in Requests \ active THEN @ ELSE @ \cup {x}]
    /\ UNCHANGED <<active, createdAt, preKeys, clock, before, faults>>

\* Each request of S waits for a row of another one.
Deadlocked(S) ==
    \A r \in S : \E q \in S \ {r} : op[r].todo \cap op[q].held # {}

-----------------------------------------------------------------------------
(* Commits.                                                                *)

Written(r) == op[r].pc \in {"revoking", "writing"} /\ op[r].todo = {}

Finish(r) == op' = [op EXCEPT ![r].pc = "done", ![r].held = {}]

\* Mutant: the locks are not released.
RevokeCommitHolding(r) ==
    /\ Written(r)
    /\ op[r].kind = "revoke"
    /\ active' = active \ op[r].held
    /\ op' = [op EXCEPT ![r].pc = "done"]
    /\ UNCHANGED <<createdAt, preKeys, clock, before, faults>>

RevokeCommit(r) ==
    /\ Written(r)
    /\ op[r].kind = "revoke"
    /\ active' = active \ op[r].held
    /\ Finish(r)
    /\ UNCHANGED <<createdAt, preKeys, clock, before, faults>>

\* Mutant: the revocation and the insertion are two transactions.
RotateCommitFirst(r) ==
    /\ Written(r)
    /\ op[r].kind = "rotate"
    /\ active' = active \ op[r].held
    /\ op' = [op EXCEPT ![r].pc = "insert", ![r].held = {}]
    /\ UNCHANGED <<createdAt, preKeys, clock, before, faults>>

\* RotateKeys: the INSERT, which waits for nobody, and COMMIT.
RotateCommit(r) ==
    /\ Written(r)
    /\ op[r].kind = "rotate"
    /\ active' = (active \ op[r].held) \cup {r}
    /\ Finish(r)
    /\ UNCHANGED <<createdAt, preKeys, clock, before, faults>>

\* handleUploadKeys: RevokePublicKeys commits.
ReplaceRevoked(r) ==
    /\ Written(r)
    /\ op[r].kind = "replace"
    /\ active' = active \ op[r].held
    /\ op' = [op EXCEPT ![r].pc = "revoked", ![r].held = {}]
    /\ UNCHANGED <<createdAt, preKeys, clock, before, faults>>

\* handleUploadKeys: StorePublicKeys starts.
ReplaceStore(r) ==
    /\ op[r].pc = "revoked"
    /\ op' = [op EXCEPT ![r].pc = "insert"]
    /\ Stamp(r)
    /\ UNCHANGED <<active, preKeys, before, faults>>

\* PublishKeys and StorePublicKeys: the INSERT commits.
Insert(r) ==
    /\ op[r].pc = "insert"
    /\ active' = active \cup {r}
    /\ Finish(r)
    /\ UNCHANGED <<createdAt, preKeys, clock, before, faults>>

\* UploadPreKeys: ON CONFLICT DO UPDATE makes a used id usable again.
UploadCommit(r) ==
    /\ Written(r)
    /\ op[r].kind = "upload"
    /\ preKeys' = [k \in KeyIds |->
                     IF k \in op[r].held THEN [from |-> r, used |-> FALSE] ELSE preKeys[k]]
    /\ Finish(r)
    /\ UNCHANGED <<active, createdAt, clock, before, faults>>

-----------------------------------------------------------------------------
(* ClaimPreKey.                                                            *)

Unused == {k \in KeyIds : ~preKeys[k].used}

\* The sub-select: the unused key with the smallest id, or none.
SelectPreKey(r) ==
    /\ op[r].pc = "select"
    /\ \/ Unused = {} /\ op' = [op EXCEPT ![r].pc = "done"]
       \/ \E k \in Unused :
             /\ \A j \in Unused : k <= j
             /\ op' = [op EXCEPT ![r].pc = "claim", ![r].todo = {k}]
    /\ UNCHANGED <<active, createdAt, preKeys, clock, before, faults>>

\* Mutant: the key is handed out and not marked.
ClaimPreKeyUnmarked(r, k) ==
    /\ op[r].pc = "claim"
    /\ k \in op[r].todo \ HeldByOthers(r)
    /\ op' = [op EXCEPT ![r].pc = "done", ![r].todo = {}, ![r].got = <<k, preKeys[k].from>>]
    /\ UNCHANGED <<active, createdAt, preKeys, clock, before, faults>>

\* The UPDATE of the row with that id, as it is by now, commits.
ClaimPreKey(r, k) ==
    /\ op[r].pc = "claim"
    /\ k \in op[r].todo \ HeldByOthers(r)
    /\ preKeys' = [preKeys EXCEPT ![k].used = TRUE]
    /\ op' = [op EXCEPT ![r].pc = "done", ![r].todo = {}, ![r].got = <<k, preKeys[k].from>>]
    /\ UNCHANGED <<active, createdAt, clock, before, faults>>

-----------------------------------------------------------------------------
(* Failures.                                                               *)

\* Where a request goes when its transaction is rolled back: the auth service
\* ignores an error of RevokePublicKeys, a failed claim is answered without a key.
AfterRollback(o) ==
    IF o.kind = "replace" /\ o.pc = "revoking" THEN "revoked"
    ELSE IF o.kind = "getPreKey" THEN "done" ELSE "failed"

\* Mutant: nothing is rolled back.
RollbackHolding(r) ==
    op' = [op EXCEPT ![r].pc = AfterRollback(op[r]), ![r].todo = {}]

Rollback(r) ==
    op' = [op EXCEPT ![r].pc = AfterRollback(op[r]), ![r].todo = {}, ![r].held = {}]

\* A statement fails or the client goes away.
Fail(r) ==
    /\ faults < MaxFaults
    /\ op[r].pc \notin {"new", "done", "failed"}
    /\ Rollback(r)
    /\ faults' = faults + 1
    /\ UNCHANGED <<active, createdAt, preKeys, clock, before>>

\* The database breaks a deadlock.
BreakDeadlock(r) ==
    /\ \E S \in SUBSET Requests : r \in S /\ Deadlocked(S)
    /\ Rollback(r)
    /\ UNCHANGED <<active, createdAt, preKeys, clock, before, faults>>

-----------------------------------------------------------------------------
Call(r) ==
    \/ Publish(r) \/ Rotate(r) \/ Revoke(r) \/ Replace(r) \/ GetPreKey(r)
    \/ \E K \in SUBSET KeyIds : UploadPreKeys(r, K)

Proceed(r) ==
    \/ RevokeOld(r)
    \/ \E x \in Requests \cup KeyIds : WriteRow(r, x)
    \/ RevokeCommit(r) \/ RotateCommit(r) \/ ReplaceRevoked(r)
    \/ ReplaceStore(r) \/ Insert(r) \/ UploadCommit(r)
    \/ SelectPreKey(r)
    \/ \E k \in KeyIds : ClaimPreKey(r, k)
    \/ BreakDeadlock(r)

Next == \E r \in Requests : Call(r) \/ Proceed(r) \/ Fail(r)

Spec == Init /\ [][Next]_vars

-----------------------------------------------------------------------------
(* Properties                                                              *)

Resting == {"new", "begun", "revoked", "insert", "select", "done", "failed"}

TypeOK ==
    /\ active \subseteq Requests
    /\ createdAt \in [Requests -> Nat]
    /\ preKeys \in [KeyIds -> [from : Requests \cup {NoKey}, used : BOOLEAN]]
    /\ op \in [Requests -> [kind : Kinds \cup {"none"},
                            pc : Resting \cup {"revoking", "writing", "claim"},
                            todo : SUBSET (Requests \cup KeyIds),
                            held : SUBSET (Requests \cup KeyIds),
                            got : (KeyIds \X (Requests \cup {NoKey})) \cup {NoKey}]]
    /\ \A r \in Requests : op[r].pc \in Resting => op[r].todo = {}
    /\ \A r \in Requests : op[r].pc \notin {"revoking", "writing"} => op[r].held = {}
    /\ clock \in Nat
    /\ before \in [Requests -> SUBSET Requests]
    /\ faults \in 0..MaxFaults

\* Once a rotation or a revocation has been answered, no bundle that had been
\* answered for before it began is active any more, whatever publications,
\* rotations and replacements ran beside it.  (A bundle whose publication
\* overlaps the rotation may well stay active.)
RevokedForGood ==
    \A r \in Done : op[r].kind \in {"rotate", "revoke"} => before[r] \cap active = {}

\* Writers of bundles that finished before r began.
Older(r) == {b \in before[r] : op[b].kind \in {"publish", "rotate", "replace"}}

\* The bundle that is served is never one that was finished when a later
\* publication, rotation or replacement began which has been answered too: the
\* order by created_at, the start of a transaction, does not bring it back.
LatestServed ==
    \A r \in Done : op[r].kind \in {"publish", "rotate", "replace"} => Latest \cap Older(r) = {}

\* "RotateKeys revokes old keys and publishes new ones atomically"
\* (keys.go:91): as long as nobody revokes or replaces keys, a user with keys
\* is never seen without.
NeverKeyless ==
    (\A r \in Requests : op[r].kind \notin {"revoke", "replace"})
    /\ (\E r \in Done : op[r].kind \in {"publish", "rotate"}) => active # {}

\* Two claims, one answered before the other began, never get the same key of
\* the same upload: neither uploads that reuse ids nor overlapping claims make
\* a key that was handed out available again.
LaterClaimsDiffer ==
    \A r \in Requests : \A q \in before[r] : op[r].got # NoKey => op[r].got # op[q].got

\* While a request is under way some request can proceed, although uploads
\* and rotations wait for each other's rows in any order; and as every step
\* takes its request forward, all of them end.
NobodyStuck ==
    (\E r \in Requests : op[r].pc \notin {"new", "done", "failed"})
      => \E r \in Requests : ENABLED Proceed(r)

-----------------------------------------------------------------------------
(* The inductive invariants behind the properties (proved in               *)
(* KeyServer_proofs).                                                      *)

\* Where a request of each kind can be.
StageOK(o) ==
    /\ o.pc = "new" <=> o.kind = "none"
    /\ o.pc = "begun" => o.kind = "rotate"
    /\ o.pc = "revoking" => o.kind \in {"rotate", "revoke", "replace"}
    /\ o.pc = "revoked" => o.kind = "replace"
    /\ o.pc = "insert" => o.kind \in {"publish", "replace"}
    /\ o.pc = "writing" => o.kind = "upload"
    /\ o.pc \in {"select", "claim"} => o.kind = "getPreKey"

\* Only bundles of answered requests are seen by anyone.
Answered ==
    /\ active \subseteq Done
    /\ \A r \in Requests :
         /\ StageOK(op[r])
         /\ before[r] \subseteq Done
         /\ r \notin before[r]
         /\ op[r].pc = "revoking" => op[r].todo \cup op[r].held \subseteq Done

Base == TypeOK /\ Answered

\* A running UPDATE has still to write, or has written, what was answered
\* before its request began.
Covered ==
    \A r \in Requests : op[r].pc = "revoking" /\ op[r].kind \in {"rotate", "revoke"} =>
        before[r] \cap active \subseteq op[r].todo \cup op[r].held

RevokedInv == Base /\ Covered /\ RevokedForGood

\* The time of the INSERT of r is known.
Stamped(r) ==
    op[r].kind \in {"publish", "rotate"} \/ (op[r].kind = "replace" /\ op[r].pc \in {"insert", "done"})

\* created_at follows the order of requests that do not overlap.
Ordered ==
    \A r \in Requests :
        /\ createdAt[r] <= clock
        /\ Stamped(r) => \A b \in before[r] : createdAt[b] < createdAt[r]

\* A bundle does not outlive a younger one, nor in the writes of an UPDATE.
Together ==
    \A r \in Done : op[r].kind \in {"publish", "rotate", "replace"} =>
        /\ r \notin active => Older(r) \cap active = {}
        /\ \A s \in Requests :
             op[s].pc = "revoking" /\ r \in op[s].todo \cup op[s].held =>
               Older(r) \cap active \subseteq op[s].todo \cup op[s].held

ServedInv == Base /\ Ordered /\ Together

\* A key that was handed out is marked, until an upload replaces it.
Marked ==
    /\ \A k \in KeyIds : IF preKeys[k].from = NoKey THEN preKeys[k].used
                                                   ELSE preKeys[k].from \in Done
    /\ \A q \in Requests : op[q].pc # "done" => op[q].got = NoKey
    /\ \A q \in Requests, k \in KeyIds, u \in Requests \cup {NoKey} :
         op[q].got = <<k, u>> => u \in Done /\ (preKeys[k].from = u => preKeys[k].used)

\* A claim has selected a key that no earlier claim was given.
Selected ==
    \A r \in Requests : op[r].pc = "claim" =>
        /\ op[r].todo \subseteq KeyIds
        /\ \A k \in op[r].todo :
             /\ preKeys[k].from # NoKey
             /\ \A q \in before[r] : op[q].got # <<k, preKeys[k].from>>

KeylessInv == Base /\ NeverKeyless

ClaimInv == Base /\ Marked /\ Selected /\ LaterClaimsDiffer
=============================================================================
