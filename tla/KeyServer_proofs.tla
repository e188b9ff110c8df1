--------------------------- MODULE KeyServer_proofs --------------------------
(***************************************************************************)
(* Proofs that the key server keeps its types, never brings a revoked or   *)
(* superseded bundle back, never leaves a rotated user without keys and    *)
(* never hands out a pre-key again.                                        *)
(***************************************************************************)
EXTENDS KeyServer, TLAPS

Ops == [kind : Kinds \cup {"none"},
        pc : Resting \cup {"revoking", "writing", "claim"},
        todo : SUBSET (Requests \cup KeyIds),
        held : SUBSET (Requests \cup KeyIds),
        got : (KeyIds \X (Requests \cup {NoKey})) \cup {NoKey}]

\* A resting request has nothing to write; only running writes hold locks.
RestClean(o) ==
    /\ o.pc \in Resting => o.todo = {}
    /\ o.pc \notin {"revoking", "writing"} => o.held = {}

LEMMA TypeParts ==
    TypeOK <=> /\ active \subseteq Requests
               /\ createdAt \in [Requests -> Nat]
               /\ preKeys \in [KeyIds -> [from : Requests \cup {NoKey}, used : BOOLEAN]]
               /\ op \in [Requests -> Ops]
               /\ \A r \in Requests : RestClean(op[r])
               /\ clock \in Nat
               /\ before \in [Requests -> SUBSET Requests]
               /\ faults \in 0..MaxFaults
  BY DEF TypeOK, Ops, RestClean

LEMMA TypeNext ==
    ASSUME TypeOK,
           (active \subseteq Requests)',
           (createdAt \in [Requests -> Nat])',
           (preKeys \in [KeyIds -> [from : Requests \cup {NoKey}, used : BOOLEAN]])',
           (op \in [Requests -> Ops])',
           (\A r \in Requests : RestClean(op[r]))',
           (clock \in Nat)',
           (before \in [Requests -> SUBSET Requests])',
           (faults \in 0..MaxFaults)'
    PROVE  TypeOK'
  BY DEF TypeOK, Ops, RestClean

LEMMA TypeInit == Init => TypeOK
  <1> SUFFICES ASSUME Init PROVE TypeOK
    OBVIOUS
  <1>1. /\ op \in [Requests -> Ops] /\ \A r \in Requests : RestClean(op[r])
    BY DEF Init, NewRequest, Ops, RestClean, Kinds, Resting
  <1>2. preKeys \in [KeyIds -> [from : Requests \cup {NoKey}, used : BOOLEAN]]
    BY DEF Init, Unwritten
  <1>3. faults \in 0..MaxFaults BY KeyServerAssumption DEF Init
  <1>4. QED BY <1>1, <1>2, <1>3, TypeParts DEF Init

\* What a step does to the requests: one of them gets a new record.
LEMMA OneOp ==
    ASSUME TypeOK, NEW r \in Requests, NEW o \in Ops, RestClean(o),
           op' = [op EXCEPT ![r] = o]
    PROVE  /\ op' \in [Requests -> Ops]
           /\ \A q \in Requests : RestClean(op[q])'
  <1>1. op \in [Requests -> Ops] /\ \A q \in Requests : RestClean(op[q]) BY TypeParts
  <1>2. QED BY <1>1 DEF RestClean

LEMMA BeginType ==
    ASSUME TypeOK, NEW r \in Requests, NEW k \in Kinds,
           NEW p \in Resting \cup {"revoking", "writing"},
           NEW rows \in SUBSET (Requests \cup KeyIds), p \in Resting => rows = {},
           Begin(r, k, p, rows)
    PROVE  /\ op' \in [Requests -> Ops]
           /\ \A q \in Requests : RestClean(op[q])'
           /\ before' \in [Requests -> SUBSET Requests]
  <1>1. op[r] \in Ops /\ RestClean(op[r]) /\ op[r].pc \in Resting BY TypeParts DEF Begin, Resting
  <1> DEFINE o == [op[r] EXCEPT !.kind = k, !.pc = p, !.todo = rows]
  <1>2. o \in Ops /\ RestClean(o) BY <1>1 DEF Ops, RestClean, Resting
  <1>3. op' = [op EXCEPT ![r] = o] BY DEF Begin
  <1>4. before' \in [Requests -> SUBSET Requests] BY DEF Begin, TypeOK, Done
  <1> HIDE DEF o
  <1>5. QED BY <1>2, <1>3, <1>4, OneOp

LEMMA StampType ==
    ASSUME TypeOK, NEW r \in Requests, Stamp(r)
    PROVE  clock' \in Nat /\ createdAt' \in [Requests -> Nat]
  BY DEF Stamp, TypeOK

LEMMA CallType ==
    ASSUME TypeOK, NEW r \in Requests, Call(r)
    PROVE  TypeOK'
  <1>1. Visible \in SUBSET (Requests \cup KeyIds) BY DEF Visible, TypeOK
  <1>2. CASE Publish(r)
    <2>1. op' \in [Requests -> Ops] /\ (\A q \in Requests : RestClean(op[q])')
          /\ before' \in [Requests -> SUBSET Requests]
      BY <1>2, BeginType DEF Publish, Kinds, Resting
    <2>2. QED BY <1>2, <2>1, StampType, TypeParts, TypeNext DEF Publish
  <1>3. CASE Rotate(r)
    <2>1. op' \in [Requests -> Ops] /\ (\A q \in Requests : RestClean(op[q])')
          /\ before' \in [Requests -> SUBSET Requests]
      BY <1>3, BeginType DEF Rotate, Kinds, Resting
    <2>2. QED BY <1>3, <2>1, StampType, TypeParts, TypeNext DEF Rotate
  <1>4. CASE Revoke(r)
    <2>1. op' \in [Requests -> Ops] /\ (\A q \in Requests : RestClean(op[q])')
          /\ before' \in [Requests -> SUBSET Requests]
      BY <1>1, <1>4, BeginType DEF Revoke, Kinds, Resting
    <2>2. QED BY <1>4, <2>1, TypeParts, TypeNext DEF Revoke
  <1>5. CASE Replace(r)
    <2>1. op' \in [Requests -> Ops] /\ (\A q \in Requests : RestClean(op[q])')
          /\ before' \in [Requests -> SUBSET Requests]
      BY <1>1, <1>5, BeginType DEF Replace, Kinds, Resting
    <2>2. QED BY <1>5, <2>1, TypeParts, TypeNext DEF Replace
  <1>6. CASE GetPreKey(r)
    <2>1. op' \in [Requests -> Ops] /\ (\A q \in Requests : RestClean(op[q])')
          /\ before' \in [Requests -> SUBSET Requests]
      <3> DEFINE p == IF Latest = {} THEN "done" ELSE "select"
      <3>1. p \in Resting BY DEF Resting
      <3>2. Begin(r, "getPreKey", p, {}) BY <1>6 DEF GetPreKey
      <3> HIDE DEF p
      <3>3. QED BY <3>1, <3>2, BeginType DEF Kinds
    <2>2. QED BY <1>6, <2>1, TypeParts, TypeNext DEF GetPreKey
  <1>7. ASSUME NEW K \in SUBSET KeyIds, UploadPreKeys(r, K)
        PROVE  TypeOK'
    <2>1. op' \in [Requests -> Ops] /\ (\A q \in Requests : RestClean(op[q])')
          /\ before' \in [Requests -> SUBSET Requests]
      BY <1>7, BeginType DEF UploadPreKeys, Kinds, Resting
    <2>2. QED BY <1>7, <2>1, TypeParts, TypeNext DEF UploadPreKeys
  <1>8. QED BY <1>2, <1>3, <1>4, <1>5, <1>6, <1>7 DEF Call

\* A request that goes on: only its pc, rows, locks and answer change.
LEMMA GoOn ==
    ASSUME TypeOK, NEW r \in Requests,
           NEW p \in Resting \cup {"revoking", "writing", "claim"},
           NEW rows \in SUBSET (Requests \cup KeyIds), NEW locks \in SUBSET (Requests \cup KeyIds),
           NEW g \in (KeyIds \X (Requests \cup {NoKey})) \cup {NoKey},
           p \in Resting => rows = {}, p \notin {"revoking", "writing"} => locks = {},
           op' = [op EXCEPT ![r] = [@ EXCEPT !.pc = p, !.todo = rows, !.held = locks, !.got = g]]
    PROVE  op' \in [Requests -> Ops] /\ \A q \in Requests : RestClean(op[q])'
  <1>1. op[r] \in Ops BY TypeParts
  <1> DEFINE o == [op[r] EXCEPT !.pc = p, !.todo = rows, !.held = locks, !.got = g]
  <1>2. o \in Ops /\ RestClean(o) BY <1>1 DEF Ops, RestClean
  <1>3. op' = [op EXCEPT ![r] = o]
    OBVIOUS
  <1> HIDE DEF o
  <1>4. QED BY <1>2, <1>3, OneOp

LEMMA RowsType ==
    ASSUME TypeOK, NEW r \in Requests
    PROVE  /\ op[r] \in Ops
           /\ op[r].todo \in SUBSET (Requests \cup KeyIds)
           /\ op[r].held \in SUBSET (Requests \cup KeyIds)
           /\ op[r].got \in (KeyIds \X (Requests \cup {NoKey})) \cup {NoKey}
           /\ op[r].pc \in Resting \cup {"revoking", "writing", "claim"}
           /\ RestClean(op[r])
  BY TypeParts DEF Ops

LEMMA RollbackType ==
    ASSUME TypeOK, NEW r \in Requests, Rollback(r)
    PROVE  op' \in [Requests -> Ops] /\ (\A q \in Requests : RestClean(op[q]))'
  <1> DEFINE p == AfterRollback(op[r])
  <1>1. op[r] \in Ops /\ op[r].got \in (KeyIds \X (Requests \cup {NoKey})) \cup {NoKey} BY RowsType
  <1>2. op' = [op EXCEPT ![r] = [@ EXCEPT !.pc = p, !.todo = {}, !.held = {}, !.got = op[r].got]]
    BY <1>1 DEF Rollback, Ops
  <1>3. p \in Resting BY DEF AfterRollback, Resting
  <1> HIDE DEF p
  <1>4. QED BY <1>1, <1>2, <1>3, GoOn

LEMMA ProceedType ==
    ASSUME TypeOK, NEW r \in Requests, Proceed(r)
    PROVE  TypeOK'
  <1> USE RowsType, TypeParts
  <1> DEFINE OpOK == op' \in [Requests -> Ops] /\ (\A q \in Requests : RestClean(op[q])')
  <1>1. CASE RevokeOld(r)
    <2>1. op' = [op EXCEPT ![r] = [@ EXCEPT !.pc = "revoking", !.todo = Visible,
                                            !.held = op[r].held, !.got = op[r].got]]
      BY <1>1 DEF RevokeOld, Ops
    <2>2. OpOK
      <3>1. /\ Visible \in SUBSET (Requests \cup KeyIds)
            /\ "revoking" \notin Resting
            /\ op[r].held \in SUBSET (Requests \cup KeyIds)
            /\ op[r].got \in (KeyIds \X (Requests \cup {NoKey})) \cup {NoKey}
        BY DEF Visible, Resting
      <3>2. QED BY <2>1, <3>1, GoOn
    <2>3. QED BY <1>1, <2>2, TypeNext DEF RevokeOld
  <1>2. ASSUME NEW x \in Requests \cup KeyIds, WriteRow(r, x)
        PROVE  TypeOK'
    <2> DEFINE locks == IF x \in Requests \ active THEN op[r].held ELSE op[r].held \cup {x}
    <2>1. op' = [op EXCEPT ![r] = [@ EXCEPT !.pc = op[r].pc, !.todo = op[r].todo \ {x},
                                            !.held = locks, !.got = op[r].got]]
      BY <1>2 DEF WriteRow, Ops
    <2>2. locks \in SUBSET (Requests \cup KeyIds) /\ op[r].pc \notin Resting
      BY <1>2 DEF WriteRow, Resting
    <2> HIDE DEF locks
    <2>3. OpOK
      <3>1. /\ op[r].todo \ {x} \in SUBSET (Requests \cup KeyIds)
            /\ op[r].pc \in {"revoking", "writing"}
            /\ op[r].got \in (KeyIds \X (Requests \cup {NoKey})) \cup {NoKey}
        BY <1>2 DEF WriteRow
      <3>2. QED BY <2>1, <2>2, <3>1, GoOn
    <2>4. QED BY <1>2, <2>3, TypeNext DEF WriteRow
  <1>3. ASSUME NEW p \in Resting, NEW g \in (KeyIds \X (Requests \cup {NoKey})) \cup {NoKey},
               op' = [op EXCEPT ![r] = [@ EXCEPT !.pc = p, !.todo = {}, !.held = {}, !.got = g]]
        PROVE  OpOK
    BY <1>3, GoOn
  <1>4. ASSUME NEW p \in Resting, op[r].todo = {},
               op' = [op EXCEPT ![r].pc = p, ![r].held = {}]
        PROVE  OpOK
    <2>1. op' = [op EXCEPT ![r] = [@ EXCEPT !.pc = p, !.todo = {}, !.held = {}, !.got = op[r].got]]
      BY <1>4 DEF Ops
    <2>2. QED BY <2>1, <1>3
  <1>5. CASE RevokeCommit(r)
    <2>1. OpOK BY <1>4, <1>5 DEF RevokeCommit, Finish, Written, Resting
    <2>2. QED BY <1>5, <2>1, TypeNext DEF RevokeCommit
  <1>6. CASE RotateCommit(r)
    <2>1. OpOK BY <1>4, <1>6 DEF RotateCommit, Finish, Written, Resting
    <2>2. QED BY <1>6, <2>1, TypeNext DEF RotateCommit
  <1>7. CASE ReplaceRevoked(r)
    <2>1. OpOK BY <1>4, <1>7 DEF ReplaceRevoked, Written, Resting
    <2>2. QED BY <1>7, <2>1, TypeNext DEF ReplaceRevoked
  <1>8. CASE Insert(r)
    <2>1. op[r].todo = {} BY <1>8 DEF Insert, RestClean, Resting
    <2>2. OpOK BY <1>4, <1>8, <2>1 DEF Insert, Finish, Resting
    <2>3. QED BY <1>8, <2>2, TypeNext DEF Insert
  <1>9. CASE UploadCommit(r)
    <2>1. OpOK BY <1>4, <1>9 DEF UploadCommit, Finish, Written, Resting
    <2>2. preKeys' \in [KeyIds -> [from : Requests \cup {NoKey}, used : BOOLEAN]]
      BY <1>9 DEF UploadCommit
    <2>3. QED BY <1>9, <2>1, <2>2, TypeNext DEF UploadCommit
  <1>10. CASE SelectPreKey(r)
    <2>1. op[r].todo = {} /\ op[r].held = {} BY <1>10 DEF SelectPreKey, RestClean, Resting
    <2>2. ASSUME op' = [op EXCEPT ![r].pc = "done"]
          PROVE  OpOK
      <3>1. op' = [op EXCEPT ![r].pc = "done", ![r].held = {}] BY <2>1, <2>2 DEF Ops
      <3>2. QED BY <1>4, <2>1, <3>1 DEF Resting
    <2>3. ASSUME NEW k \in KeyIds, op' = [op EXCEPT ![r].pc = "claim", ![r].todo = {k}]
          PROVE  OpOK
      <3>1. op' = [op EXCEPT ![r] = [@ EXCEPT !.pc = "claim", !.todo = {k}, !.held = {},
                                              !.got = op[r].got]]
        BY <2>1, <2>3 DEF Ops
      <3>2. {k} \in SUBSET (Requests \cup KeyIds) /\ {} \in SUBSET (Requests \cup KeyIds)
        OBVIOUS
      <3>3. "claim" \notin Resting BY DEF Resting
      <3>4. QED BY <3>1, <3>2, <3>3, GoOn
    <2>4. OpOK BY <1>10, <2>2, <2>3 DEF SelectPreKey, Unused
    <2>5. QED BY <1>10, <2>4, TypeNext DEF SelectPreKey
  <1>11. ASSUME NEW k \in KeyIds, ClaimPreKey(r, k)
         PROVE  TypeOK'
    <2>1. preKeys' \in [KeyIds -> [from : Requests \cup {NoKey}, used : BOOLEAN]]
      BY <1>11 DEF ClaimPreKey
    <2>2. <<k, preKeys[k].from>> \in (KeyIds \X (Requests \cup {NoKey})) \cup {NoKey}
      BY <1>11 DEF ClaimPreKey
    <2>3. op[r].held = {} BY <1>11 DEF ClaimPreKey, RestClean
    <2>4. op' = [op EXCEPT ![r] = [@ EXCEPT !.pc = "done", !.todo = {}, !.held = {},
                                            !.got = <<k, preKeys[k].from>>]]
      BY <1>11, <2>3 DEF ClaimPreKey, Ops
    <2>5. OpOK BY <1>3, <2>2, <2>4 DEF Resting
    <2>6. QED BY <1>11, <2>1, <2>5, TypeNext DEF ClaimPreKey
  <1>12. CASE BreakDeadlock(r) BY <1>12, RollbackType, TypeNext DEF BreakDeadlock
  <1>13. CASE ReplaceStore(r)
    <2>1. op[r].todo = {} /\ op[r].held = {} BY <1>13 DEF ReplaceStore, RestClean, Resting
    <2>2. op' = [op EXCEPT ![r].pc = "insert", ![r].held = {}]
      <3>1. op' = [op EXCEPT ![r].pc = "insert"] BY <1>13 DEF ReplaceStore
      <3>2. QED BY <2>1, <3>1 DEF Ops
    <2>3. OpOK BY <1>4, <2>1, <2>2 DEF Resting
    <2>4. QED BY <1>13, <2>3, StampType, TypeNext DEF ReplaceStore
  <1>14. QED BY <1>1, <1>2, <1>5, <1>6, <1>7, <1>8, <1>9, <1>10, <1>11, <1>12, <1>13 DEF Proceed

LEMMA FailType ==
    ASSUME TypeOK, NEW r \in Requests, Fail(r)
    PROVE  TypeOK'
  <1>1. faults' \in 0..MaxFaults BY KeyServerAssumption DEF Fail, TypeOK
  <1>2. QED BY <1>1, RollbackType, TypeParts, TypeNext DEF Fail

LEMMA TypeStep == TypeOK /\ [Next]_vars => TypeOK'
  <1>1. ASSUME TypeOK, UNCHANGED vars PROVE TypeOK' BY <1>1 DEF TypeOK, vars
  <1>2. QED BY <1>1, CallType, ProceedType, FailType DEF Next

\* Types of the key server for any sets of requests and ids; a request that
\* is done or has not begun has nothing to write, and only running writes
\* hold row locks.
THEOREM TypeCorrect == Spec => []TypeOK
  BY TypeInit, TypeStep, PTL DEF Spec

-----------------------------------------------------------------------------
(* One request at a time. *)

\* A request that goes on keeps its kind, and touches no other request.
LEMMA Frame ==
    ASSUME TypeOK, NEW r \in Requests, Proceed(r) \/ Fail(r)
    PROVE  /\ op[r].pc \notin {"new", "done", "failed"}
           /\ before' = before
           /\ \A q \in Requests : q # r => op'[q] = op[q]
           /\ op'[r].kind = op[r].kind
  <1>1. op \in [Requests -> Ops] /\ op[r] \in Ops /\ RestClean(op[r]) BY TypeParts
  <1> DEFINE Kept == /\ \A q \in Requests : q # r => op'[q] = op[q]
                     /\ op'[r].kind = op[r].kind
  <1>2. Rollback(r) => Kept BY <1>1 DEF Rollback, Ops
  <1>3. CASE Fail(r) BY <1>2, <1>3 DEF Fail
  <1>4. CASE BreakDeadlock(r)
    <2>1. op[r].todo # {} BY <1>4 DEF BreakDeadlock, Deadlocked
    <2>2. op[r].pc \notin {"new", "done", "failed"} BY <1>1, <2>1 DEF RestClean, Resting
    <2>3. QED BY <1>2, <1>4, <2>2 DEF BreakDeadlock
  <1>5. CASE RevokeOld(r) BY <1>1, <1>5 DEF RevokeOld, Ops
  <1>6. ASSUME NEW x, WriteRow(r, x)
        PROVE  Kept /\ op[r].pc \notin {"new", "done", "failed"} /\ before' = before
    BY <1>1, <1>6 DEF WriteRow, Ops
  <1>7. CASE RevokeCommit(r) \/ RotateCommit(r) \/ Insert(r) \/ UploadCommit(r)
    BY <1>1, <1>7 DEF RevokeCommit, RotateCommit, Insert, UploadCommit, Finish, Written, Ops
  <1>8. CASE ReplaceRevoked(r) \/ ReplaceStore(r)
    BY <1>1, <1>8 DEF ReplaceRevoked, ReplaceStore, Written, Ops
  <1>9. CASE SelectPreKey(r) BY <1>1, <1>9 DEF SelectPreKey, Ops
  <1>10. ASSUME NEW k, ClaimPreKey(r, k)
         PROVE  Kept /\ op[r].pc \notin {"new", "done", "failed"} /\ before' = before
    BY <1>1, <1>10 DEF ClaimPreKey, Ops
  <1>11. QED BY <1>3, <1>4, <1>5, <1>6, <1>7, <1>8, <1>9, <1>10 DEF Proceed

\* A request that begins is new, and sees what is done as before it.
LEMMA Beginning ==
    ASSUME TypeOK, NEW r \in Requests, Call(r)
    PROVE  /\ op[r].pc = "new"
           /\ op'[r].pc # "new"
           /\ before' = [before EXCEPT ![r] = Done]
           /\ \A q \in Requests : q # r => op'[q] = op[q]
  <1>1. op \in [Requests -> Ops] /\ op[r] \in Ops BY TypeParts
  <1>2. ASSUME NEW k, NEW p, p # "new", NEW rows, Begin(r, k, p, rows)
        PROVE  /\ op[r].pc = "new"
               /\ op'[r].pc # "new"
               /\ before' = [before EXCEPT ![r] = Done]
               /\ \A q \in Requests : q # r => op'[q] = op[q]
    BY <1>1, <1>2 DEF Begin, Ops
  <1>3. QED BY <1>2 DEF Call, Publish, Rotate, Revoke, Replace, UploadPreKeys, GetPreKey

Step(r) == Call(r) \/ Proceed(r) \/ Fail(r)

\* A step of r changes no other request, and r was not done.
LEMMA OneStep ==
    ASSUME TypeOK, NEW r \in Requests, Step(r)
    PROVE  /\ \A q \in Requests : q # r => op'[q] = op[q] /\ before'[q] = before[q]
           /\ r \notin Done
           /\ Done \subseteq Done'
           /\ Done' \subseteq Done \cup {r}
           /\ op[r].pc = "new" => before'[r] = Done
           /\ op[r].pc # "new" => before'[r] = before[r] /\ op'[r].kind = op[r].kind
  <1>1. before \in [Requests -> SUBSET Requests] BY TypeParts
  <1>2. CASE Call(r) BY <1>1, <1>2, Beginning DEF Done
  <1>3. CASE Proceed(r) \/ Fail(r) BY <1>1, <1>3, Frame DEF Done
  <1>4. QED BY <1>2, <1>3 DEF Step

-----------------------------------------------------------------------------
(* Only bundles of answered requests are seen. *)

\* What a step of r does to its own request and to the active bundles.
LEMMA OwnStep ==
    ASSUME Base, NEW r \in Requests, Step(r)
    PROVE  /\ StageOK(op'[r])
           /\ active' \subseteq active \cup (Done' \cap {r})
           /\ op'[r].pc = "revoking" => op'[r].todo \cup op'[r].held \subseteq Done
  <1>1. /\ op \in [Requests -> Ops] /\ op[r] \in Ops
        /\ RestClean(op[r]) /\ StageOK(op[r])
        /\ active \subseteq Done
        /\ op[r].pc = "revoking" => op[r].todo \cup op[r].held \subseteq Done
    BY RowsType, TypeParts DEF Base, Answered
  <1> DEFINE Own == /\ StageOK(op'[r])
                    /\ op'[r].pc = "revoking" => op'[r].todo \cup op'[r].held \subseteq Done
  <1>2. ASSUME NEW k \in Kinds, NEW p, NEW rows, Begin(r, k, p, rows),
               \/ k = "publish" /\ p = "insert"
               \/ k = "rotate" /\ p = "begun"
               \/ k \in {"revoke", "replace"} /\ p = "revoking" /\ rows \subseteq active
               \/ k = "upload" /\ p = "writing"
               \/ k = "getPreKey" /\ p \in {"select", "done"}
        PROVE  Own
    BY <1>1, <1>2 DEF Begin, StageOK, Kinds, Ops, RestClean, Resting
  <1>3. CASE Call(r)
    <2>1. Own
      BY <1>2, <1>3 DEF Call, Publish, Rotate, Revoke, Replace, UploadPreKeys, GetPreKey,
                        Visible, Kinds
    <2>2. active' = active
      BY <1>3 DEF Call, Publish, Rotate, Revoke, Replace, UploadPreKeys, GetPreKey
    <2>3. QED BY <2>1, <2>2
  <1>4. ASSUME Rollback(r), op[r].pc # "new"
        PROVE  Own
    BY <1>1, <1>4 DEF Rollback, AfterRollback, StageOK, Ops
  <1>5. CASE Fail(r) BY <1>4, <1>5 DEF Fail
  <1>6. CASE BreakDeadlock(r)
    <2>1. op[r].pc # "new" BY <1>6, Frame DEF Proceed, Base
    <2>2. QED BY <1>4, <1>6, <2>1 DEF BreakDeadlock
  <1>7. CASE RevokeOld(r) BY <1>1, <1>7 DEF RevokeOld, StageOK, Ops, RestClean, Resting, Visible
  <1>8. ASSUME NEW x \in Requests \cup KeyIds, WriteRow(r, x)
        PROVE  Own /\ active' = active
    BY <1>1, <1>8 DEF WriteRow, StageOK, Ops
  <1>9. CASE RevokeCommit(r) \/ RotateCommit(r) \/ Insert(r) \/ UploadCommit(r)
    <2>1. Own
      BY <1>1, <1>9 DEF RevokeCommit, RotateCommit, Insert, UploadCommit, Finish, Written, StageOK, Ops
    <2>2. op'[r].pc = "done"
      <3>1. Finish(r) BY <1>9 DEF RevokeCommit, RotateCommit, Insert, UploadCommit
      <3>2. QED BY <1>1, <3>1 DEF Finish, Ops
    <2>3. active' \subseteq active \cup {r} /\ r \in Done'
      BY <1>9, <2>2 DEF RevokeCommit, RotateCommit, Insert, UploadCommit, Done
    <2>4. QED BY <2>1, <2>3
  <1>10. CASE ReplaceRevoked(r) \/ ReplaceStore(r)
    BY <1>1, <1>10 DEF ReplaceRevoked, ReplaceStore, Written, StageOK, Ops
  <1>11. CASE SelectPreKey(r) BY <1>1, <1>11 DEF SelectPreKey, StageOK, Ops
  <1>12. ASSUME NEW k \in KeyIds, ClaimPreKey(r, k)
         PROVE  Own /\ active' = active
    BY <1>1, <1>12 DEF ClaimPreKey, StageOK, Ops
  <1>13. QED BY <1>3, <1>5, <1>6, <1>7, <1>8, <1>9, <1>10, <1>11, <1>12 DEF Step, Proceed

LEMMA BaseInit == Init => Base
  <1>1. Init => Answered BY DEF Init, Answered, StageOK, NewRequest, Done
  <1>2. QED BY <1>1, TypeInit DEF Base

LEMMA BaseStep == Base /\ [Next]_vars => Base'
  <1>1. ASSUME Base, NEW r \in Requests, Step(r)
        PROVE  Answered'
    <2>1. /\ active \subseteq Done /\ r \notin Done /\ Done \subseteq Done'
          /\ active' \subseteq active \cup (Done' \cap {r})
      BY <1>1, OneStep, OwnStep DEF Base, Answered
    <2>2. ASSUME NEW q \in Requests
          PROVE  /\ StageOK(op'[q])
                 /\ before'[q] \subseteq Done /\ q \notin before'[q]
                 /\ op'[q].pc = "revoking" => op'[q].todo \cup op'[q].held \subseteq Done
      BY <1>1, OneStep, OwnStep DEF Base, Answered
    <2>3. QED BY <2>1, <2>2 DEF Answered
  <1>2. ASSUME Base, UNCHANGED vars PROVE Answered' BY <1>2 DEF Base, Answered, vars, Done
  <1>3. QED BY <1>1, <1>2, TypeStep DEF Base, Next, Step

LEMMA BaseHolds == Spec => []Base
  BY BaseInit, BaseStep, PTL DEF Spec

-----------------------------------------------------------------------------
(* What is revoked stays revoked. *)

\* The rows of a rotation or revocation of r cover what r has to revoke, and
\* when it is done it has revoked it.
LEMMA CoverStep ==
    ASSUME Base, Covered, NEW r \in Requests, Step(r),
           op'[r].kind \in {"rotate", "revoke"}
    PROVE  /\ op'[r].pc = "revoking" =>
                before'[r] \cap active' \subseteq op'[r].todo \cup op'[r].held
           /\ op'[r].pc = "done" => before'[r] \cap active' = {}
  <1>1. /\ op \in [Requests -> Ops] /\ op[r] \in Ops
        /\ before \in [Requests -> SUBSET Requests]
        /\ StageOK(op[r]) /\ r \notin before[r]
    BY TypeParts DEF Base, Answered
  <1>2. CASE Call(r)
    <2>1. op[r].pc = "new" /\ before'[r] = Done /\ active' = active
      BY <1>1, <1>2, Beginning DEF Base, Call, Publish, Rotate, Revoke, Replace, UploadPreKeys, GetPreKey
    <2>2. Rotate(r) \/ Revoke(r)
      <3>1. ASSUME NEW k, NEW p, NEW rows, Begin(r, k, p, rows)
            PROVE  k \in {"rotate", "revoke"}
        BY <1>1, <3>1 DEF Begin, Ops
      <3>2. ~(Publish(r) \/ Replace(r) \/ GetPreKey(r) \/ \E K \in SUBSET KeyIds : UploadPreKeys(r, K))
        BY <3>1 DEF Publish, Replace, UploadPreKeys, GetPreKey
      <3>3. QED BY <1>2, <3>2 DEF Call
    <2>3. CASE Rotate(r) BY <1>1, <2>3 DEF Rotate, Begin, Ops
    <2>4. CASE Revoke(r) BY <1>1, <2>1, <2>4 DEF Revoke, Begin, Visible, Ops
    <2>5. QED BY <2>2, <2>3, <2>4
  <1>3. CASE Proceed(r) \/ Fail(r)
    <2>1. before'[r] = before[r] /\ op[r].kind \in {"rotate", "revoke"} BY <1>3, Frame DEF Base
    <2>2. Rollback(r) => op'[r].pc = "failed" BY <1>1, <2>1 DEF Rollback, AfterRollback, Ops
    <2>3. CASE Fail(r) \/ BreakDeadlock(r) BY <2>2, <2>3 DEF Fail, BreakDeadlock
    <2>4. CASE RevokeOld(r) BY <1>1, <2>1, <2>4 DEF RevokeOld, Visible, Ops, Base, TypeOK
    <2>5. ASSUME NEW x \in Requests \cup KeyIds, WriteRow(r, x), op[r].pc = "revoking"
          PROVE  /\ op'[r].pc = "revoking"
                 /\ before'[r] \cap active' \subseteq op'[r].todo \cup op'[r].held
      <3>1. before[r] \cap active \subseteq op[r].todo \cup op[r].held BY <2>1, <2>5 DEF Covered
      <3>2. /\ op'[r].pc = "revoking" /\ active' = active
            /\ op'[r].todo = op[r].todo \ {x}
            /\ x \in active => op'[r].held = op[r].held \cup {x}
            /\ x \notin active => op[r].held \subseteq op'[r].held
        BY <1>1, <2>5 DEF WriteRow, Ops
      <3>3. QED BY <2>1, <3>1, <3>2
    <2>6. ASSUME NEW x \in Requests \cup KeyIds, WriteRow(r, x)
          PROVE  op[r].pc = "revoking"
      BY <1>1, <2>1, <2>6 DEF WriteRow, StageOK
    <2>7. CASE RevokeCommit(r) \/ RotateCommit(r)
      <3>1. op[r].pc = "revoking" /\ op[r].todo = {}
        BY <1>1, <2>1, <2>7 DEF RevokeCommit, RotateCommit, Written, StageOK
      <3>2. before[r] \cap active \subseteq op[r].held BY <2>1, <3>1 DEF Covered
      <3>3. before[r] \cap active' = {} BY <1>1, <2>7, <3>2 DEF RevokeCommit, RotateCommit
      <3>4. op'[r].pc = "done" BY <1>1, <2>7 DEF RevokeCommit, RotateCommit, Finish, Ops
      <3>5. QED BY <2>1, <3>3, <3>4
    <2>8. ~(ReplaceRevoked(r) \/ ReplaceStore(r) \/ Insert(r) \/ UploadCommit(r) \/ SelectPreKey(r))
      BY <1>1, <2>1 DEF ReplaceRevoked, ReplaceStore, Insert, UploadCommit, SelectPreKey, StageOK
    <2>9. ~(\E k \in KeyIds : ClaimPreKey(r, k)) BY <1>1, <2>1 DEF ClaimPreKey, StageOK
    <2>10. QED BY <1>3, <2>3, <2>4, <2>5, <2>6, <2>7, <2>8, <2>9 DEF Proceed
  <1>4. QED BY <1>2, <1>3 DEF Step

LEMMA RevokedStep ==
    ASSUME RevokedInv, [Next]_vars
    PROVE  RevokedInv'
  <1>1. ASSUME NEW r \in Requests, Step(r)
        PROVE  Covered' /\ RevokedForGood'
    <2>1. /\ r \notin Done /\ active' \subseteq active \cup {r}
          /\ \A q \in Requests : before[q] \subseteq Done
          /\ \A q \in Requests : q # r => op'[q] = op[q] /\ before'[q] = before[q]
          /\ Done' \subseteq Done \cup {r}
      BY <1>1, OneStep, OwnStep DEF RevokedInv, Base, Answered
    <2>2. ASSUME NEW q \in Requests, op'[q].kind \in {"rotate", "revoke"}
          PROVE  /\ op'[q].pc = "revoking" =>
                      before'[q] \cap active' \subseteq op'[q].todo \cup op'[q].held
                 /\ op'[q].pc = "done" => before'[q] \cap active' = {}
      <3>1. CASE q = r BY <1>1, <2>2, <3>1, CoverStep DEF RevokedInv
      <3>2. CASE q # r
        <4>1. op'[q] = op[q] /\ before'[q] \cap active' \subseteq before[q] \cap active
          BY <2>1, <3>2
        <4>2. QED BY <2>2, <4>1 DEF RevokedInv, Covered, RevokedForGood, Done
      <3>3. QED BY <3>1, <3>2
    <2>3. QED BY <2>2 DEF Covered, RevokedForGood, Done
  <1>2. ASSUME UNCHANGED vars
        PROVE  Covered' /\ RevokedForGood'
    BY <1>2 DEF RevokedInv, Covered, RevokedForGood, Done, vars
  <1>3. QED BY <1>1, <1>2, BaseStep DEF RevokedInv, Next, Step

\* For any sets of requests and ids: what was answered before an answered
\* rotation or revocation began is never active again.
THEOREM RevokedStays == Spec => []RevokedForGood
  <1>1. Init => RevokedInv
    BY BaseInit DEF RevokedInv, Init, Covered, RevokedForGood, Done, NewRequest
  <1>2. RevokedInv /\ [Next]_vars => RevokedInv' BY RevokedStep
  <1>3. RevokedInv => RevokedForGood BY DEF RevokedInv
  <1>4. QED BY <1>1, <1>2, <1>3, PTL DEF Spec

-----------------------------------------------------------------------------
(* The order by created_at never brings a superseded bundle back. *)

Writers == {"publish", "rotate", "replace"}

\* A request is stamped once, with a new time.
LEMMA StampStep ==
    ASSUME Base, NEW r \in Requests, Step(r), createdAt[r] <= clock
    PROVE  /\ clock <= clock' /\ clock \in Nat /\ createdAt \in [Requests -> Nat]
           /\ \A q \in Requests : q # r => createdAt'[q] = createdAt[q]
           /\ createdAt'[r] <= clock'
           /\ Stamped(r)' => \/ createdAt'[r] = clock + 1
                             \/ Stamped(r) /\ createdAt'[r] = createdAt[r] /\ before'[r] = before[r]
  <1>1. /\ op \in [Requests -> Ops] /\ op[r] \in Ops /\ clock \in Nat
        /\ createdAt \in [Requests -> Nat] /\ StageOK(op[r])
    BY TypeParts DEF Base, Answered
  <1> DEFINE Kept == \A q \in Requests : q # r => createdAt'[q] = createdAt[q]
  <1>2. Stamp(r) => /\ clock <= clock' /\ Kept
                    /\ createdAt'[r] = clock + 1 /\ createdAt'[r] <= clock'
    BY <1>1 DEF Stamp
  <1>3. CASE Stamp(r) BY <1>1, <1>2, <1>3
  <1>4. CASE UNCHANGED <<createdAt, clock>>
    <2>1. clock <= clock' /\ Kept /\ createdAt'[r] <= clock' /\ createdAt'[r] = createdAt[r]
      BY <1>1, <1>4
    <2>2. ASSUME Stamped(r)', Call(r)
          PROVE  Stamp(r)
      <3>1. ASSUME NEW k, NEW p, NEW rows, Begin(r, k, p, rows)
            PROVE  op'[r].kind = k /\ op'[r].pc = p
        BY <1>1, <3>1 DEF Begin, Ops
      <3>2. ~(Revoke(r) \/ Replace(r) \/ GetPreKey(r) \/ \E K \in SUBSET KeyIds : UploadPreKeys(r, K))
        BY <2>2, <3>1 DEF Revoke, Replace, GetPreKey, UploadPreKeys, Stamped
      <3>3. QED BY <2>2, <3>2 DEF Call, Publish, Rotate
    <2>3. ASSUME Stamped(r)', Proceed(r) \/ Fail(r), ~Stamped(r)
          PROVE  Stamp(r)
      <3>1. /\ op[r].kind = "replace" /\ op'[r].pc \in {"insert", "done"}
            /\ op[r].pc \in {"revoking", "revoked"}
        BY <1>1, <2>3, Frame DEF Stamped, Base, StageOK, Ops, Resting
      <3>2. ~Rollback(r) BY <1>1, <3>1 DEF Rollback, AfterRollback, Ops
      <3>3. ~\E x \in Requests \cup KeyIds : WriteRow(r, x)
        <4>1. ASSUME NEW x, WriteRow(r, x)
              PROVE  op'[r].pc = op[r].pc
          BY <1>1, <4>1 DEF WriteRow, Ops
        <4>2. QED BY <3>1, <4>1
      <3>4. ~ReplaceRevoked(r) BY <1>1, <3>1 DEF ReplaceRevoked, Ops
      <3>5. QED BY <2>3, <3>1, <3>2, <3>3, <3>4 DEF Proceed, Fail, BreakDeadlock, RevokeOld, RevokeCommit,
                RotateCommit, ReplaceStore, Insert, UploadCommit, SelectPreKey, ClaimPreKey
    <2>4. Proceed(r) \/ Fail(r) => before'[r] = before[r] BY Frame DEF Base
    <2>5. QED BY <1>1, <1>2, <2>1, <2>2, <2>3, <2>4 DEF Step
  <1>5. Stamp(r) \/ UNCHANGED <<createdAt, clock>>
    BY DEF Step, Call, Publish, Rotate, Revoke, Replace, GetPreKey, UploadPreKeys, Proceed, Fail,
           BreakDeadlock, RevokeOld, WriteRow, RevokeCommit, RotateCommit, ReplaceRevoked, ReplaceStore,
           Insert, UploadCommit, SelectPreKey, ClaimPreKey
  <1>6. QED BY <1>3, <1>4, <1>5

LEMMA OrderedStep ==
    ASSUME Base, Ordered, NEW r \in Requests, Step(r)
    PROVE  Ordered'
  <1>1. /\ r \notin Done /\ \A q \in Requests : before[q] \subseteq Done /\ Done \subseteq Requests
        /\ \A q \in Requests : q # r => op'[q] = op[q] /\ before'[q] = before[q]
        /\ before'[r] \subseteq Done
    BY OneStep DEF Base, Answered, Done
  <1>2. /\ \A q \in Requests : createdAt[q] <= clock
        /\ \A q \in Requests : Stamped(q) => \A b \in before[q] : createdAt[b] < createdAt[q]
    BY DEF Ordered
  <1>3. /\ clock <= clock' /\ clock \in Nat /\ createdAt \in [Requests -> Nat]
        /\ \A q \in Requests : q # r => createdAt'[q] = createdAt[q]
        /\ createdAt'[r] <= clock'
        /\ Stamped(r)' => \/ createdAt'[r] = clock + 1
                          \/ Stamped(r) /\ createdAt'[r] = createdAt[r] /\ before'[r] = before[r]
    BY <1>2, StampStep
  <1>4. clock' \in Nat BY TypeStep DEF Base, Next, Step, TypeOK
  <1>5. ASSUME NEW q \in Requests
        PROVE  createdAt'[q] <= clock'
    BY <1>2, <1>3, <1>4
  <1>6. ASSUME NEW q \in Requests, Stamped(q)', NEW b \in before'[q]
        PROVE  createdAt'[b] < createdAt'[q]
    <2>1. b \in Done /\ b # r /\ createdAt'[b] = createdAt[b] BY <1>1, <1>3, <1>6
    <2>2. CASE q # r
      <3>1. Stamped(q) /\ b \in before[q] /\ createdAt'[q] = createdAt[q]
        BY <1>1, <1>3, <1>6, <2>2 DEF Stamped
      <3>2. QED BY <1>2, <2>1, <3>1
    <2>3. CASE q = r
      <3>1. createdAt[b] <= clock /\ createdAt[b] \in Nat BY <1>1, <1>2, <1>3, <2>1
      <3>2. CASE createdAt'[r] = clock + 1 BY <1>3, <2>1, <2>3, <3>1, <3>2
      <3>3. CASE Stamped(r) /\ createdAt'[r] = createdAt[r] /\ before'[r] = before[r]
        BY <1>2, <1>6, <2>1, <2>3, <3>3
      <3>4. QED BY <1>3, <1>6, <2>3, <3>2, <3>3
    <2>4. QED BY <2>2, <2>3
  <1>7. QED BY <1>5, <1>6 DEF Ordered

\* What leaves the active bundles was written, with all the rest of its UPDATE.
LEMMA LeaveStep ==
    ASSUME Base, NEW r \in Requests, Step(r), NEW d \in active \ active'
    PROVE  /\ op[r].pc = "revoking" /\ op[r].todo = {} /\ d \in op[r].held
           /\ op[r].held \cap active' = {}
  <1>1. /\ StageOK(op[r]) /\ op[r].held \subseteq Requests \cup KeyIds /\ r \notin Done
        /\ op[r].pc = "revoking" => op[r].held \subseteq Done
    BY RowsType, OneStep DEF Base, Answered
  <1>2. RevokeCommit(r) \/ RotateCommit(r) \/ ReplaceRevoked(r)
    BY DEF Step, Call, Publish, Rotate, Revoke, Replace, GetPreKey, UploadPreKeys, Proceed, Fail,
           BreakDeadlock, RevokeOld, WriteRow, ReplaceStore, Insert, UploadCommit, SelectPreKey, ClaimPreKey
  <1>3. op[r].pc = "revoking" /\ op[r].todo = {}
    BY <1>1, <1>2 DEF RevokeCommit, RotateCommit, ReplaceRevoked, Written, StageOK
  <1>4. QED BY <1>1, <1>2, <1>3 DEF RevokeCommit, RotateCommit, ReplaceRevoked

\* An UPDATE starts with all active bundles and never lets go of one that still is.
LEMMA RowsStep ==
    ASSUME Base, NEW r \in Requests, Step(r), op'[r].pc = "revoking"
    PROVE  /\ active' = active
           /\ \/ active \subseteq op'[r].todo \cup op'[r].held
              \/ /\ op[r].pc = "revoking"
                 /\ op'[r].todo \cup op'[r].held \subseteq op[r].todo \cup op[r].held
                 /\ (op[r].todo \cup op[r].held) \cap active \subseteq op'[r].todo \cup op'[r].held
  <1>1. /\ op \in [Requests -> Ops] /\ op[r] \in Ops /\ active \subseteq Requests
    BY TypeParts DEF Base
  <1>2. CASE Call(r)
    <2>1. ASSUME NEW k, NEW p, NEW rows, Begin(r, k, p, rows)
          PROVE  p = "revoking" /\ op'[r].todo = rows
      BY <1>1, <2>1 DEF Begin, Ops
    <2>2. Revoke(r) \/ Replace(r) BY <1>2, <2>1 DEF Call, Publish, Rotate, GetPreKey, UploadPreKeys
    <2>3. QED BY <2>1, <2>2 DEF Revoke, Replace, Visible
  <1>3. CASE Fail(r) \/ BreakDeadlock(r)
    BY <1>1, <1>3 DEF Fail, BreakDeadlock, Rollback, AfterRollback, Ops
  <1>4. CASE RevokeOld(r) BY <1>1, <1>4 DEF RevokeOld, Visible, Ops
  <1>5. ASSUME NEW x \in Requests \cup KeyIds, WriteRow(r, x)
        PROVE  /\ op[r].pc = "revoking" /\ active' = active
               /\ op'[r].todo \cup op'[r].held \subseteq op[r].todo \cup op[r].held
               /\ (op[r].todo \cup op[r].held) \cap active \subseteq op'[r].todo \cup op'[r].held
    <2>1. /\ op'[r].pc = op[r].pc /\ active' = active /\ x \in op[r].todo
          /\ op'[r].todo = op[r].todo \ {x}
          /\ op'[r].held = IF x \in Requests \ active THEN op[r].held ELSE op[r].held \cup {x}
      BY <1>1, <1>5 DEF WriteRow, Ops
    <2>2. QED BY <2>1
  <1>6. ~(RevokeCommit(r) \/ RotateCommit(r) \/ ReplaceRevoked(r) \/ ReplaceStore(r) \/ Insert(r) \/ UploadCommit(r))
    BY <1>1 DEF RevokeCommit, RotateCommit, ReplaceRevoked, ReplaceStore, Insert, UploadCommit, Finish, Ops
  <1>7. ~(SelectPreKey(r) \/ \E k \in KeyIds : ClaimPreKey(r, k))
    BY <1>1 DEF SelectPreKey, ClaimPreKey, Ops
  <1>8. QED BY <1>2, <1>3, <1>4, <1>5, <1>6, <1>7 DEF Step, Proceed

\* Who is answered for a bundle has made it active.
LEMMA WriterStep ==
    ASSUME Base, NEW r \in Requests, Step(r), op'[r].pc = "done", op'[r].kind \in Writers
    PROVE  r \in active'
  <1>1. op \in [Requests -> Ops] /\ op[r] \in Ops /\ StageOK(op[r]) BY TypeParts DEF Base, Answered
  <1>2. CASE Call(r)
    <2>1. ASSUME NEW k, NEW p, NEW rows, Begin(r, k, p, rows)
          PROVE  p = "done" /\ k \in Writers
      BY <1>1, <2>1 DEF Begin, Ops
    <2>2. QED BY <1>2, <2>1 DEF Call, Publish, Rotate, Revoke, Replace, GetPreKey, UploadPreKeys, Writers
  <1>3. CASE Proceed(r) \/ Fail(r)
    <2>1. op[r].kind \in Writers BY <1>3, Frame DEF Base
    <2>2. ~(Fail(r) \/ BreakDeadlock(r))
      BY <1>1, <2>1 DEF Fail, BreakDeadlock, Rollback, AfterRollback, Ops, Writers
    <2>3. ~(RevokeOld(r) \/ ReplaceRevoked(r) \/ ReplaceStore(r) \/ \E x \in Requests \cup KeyIds : WriteRow(r, x))
      <3>1. ASSUME NEW x, WriteRow(r, x)
            PROVE  op'[r].pc \in {"revoking", "writing"}
        BY <1>1, <3>1 DEF WriteRow, Ops
      <3>2. QED BY <1>1, <3>1 DEF RevokeOld, ReplaceRevoked, ReplaceStore, Ops
    <2>4. ~(RevokeCommit(r) \/ UploadCommit(r) \/ SelectPreKey(r) \/ \E k \in KeyIds : ClaimPreKey(r, k))
      BY <1>1, <2>1 DEF RevokeCommit, UploadCommit, SelectPreKey, ClaimPreKey, StageOK, Writers
    <2>5. QED BY <1>3, <2>2, <2>3, <2>4 DEF Proceed, RotateCommit, Insert
  <1>4. QED BY <1>2, <1>3 DEF Step

LEMMA TogetherStep ==
    ASSUME Base, Together, NEW r \in Requests, Step(r)
    PROVE  Together'
  <1>1. /\ r \notin Done /\ Done' \subseteq Done \cup {r} /\ active \subseteq Done /\ Done \subseteq Requests
        /\ \A q \in Requests : before[q] \subseteq Done
        /\ \A q \in Requests : q # r => op'[q] = op[q] /\ before'[q] = before[q]
        /\ active' \subseteq active \cup {r}
        /\ \A q \in Requests : op'[q].pc = "revoking" => op'[q].todo \cup op'[q].held \subseteq Done
    BY OneStep, OwnStep DEF Base, Answered, Done
  <1>2. ASSUME NEW d \in Done
        PROVE  /\ op'[d] = op[d] /\ Older(d)' = Older(d) /\ Older(d) \subseteq Done
               /\ Older(d)' \cap active' \subseteq Older(d) \cap active
    <2>1. d \in Requests /\ d # r /\ r \notin before[d] /\ before[d] \subseteq Requests BY <1>1
    <2>2. before'[d] = before[d] /\ \A b \in before[d] : op'[b] = op[b] BY <1>1, <2>1
    <2>3. Older(d)' = Older(d) /\ Older(d) \subseteq Done /\ r \notin Older(d)
      BY <1>1, <2>1, <2>2 DEF Older
    <2>4. QED BY <1>1, <2>1, <2>3
  <1>3. ASSUME NEW d \in Done, op[d].kind \in Writers
        PROVE  /\ d \notin active => Older(d) \cap active = {}
               /\ \A s \in Requests : op[s].pc = "revoking" /\ d \in op[s].todo \cup op[s].held =>
                    Older(d) \cap active \subseteq op[s].todo \cup op[s].held
    BY <1>3 DEF Together, Writers
  <1>4. ASSUME NEW d \in Done', op'[d].kind \in Writers, d \notin active'
        PROVE  Older(d)' \cap active' = {}
    <2>1. d # r BY <1>4, WriterStep DEF Done
    <2>2. d \in Done /\ op[d].kind \in Writers BY <1>1, <1>2, <1>4, <2>1
    <2>3. CASE d \notin active BY <1>2, <1>3, <2>2, <2>3
    <2>4. CASE d \in active
      <3>1. /\ op[r].pc = "revoking" /\ op[r].todo = {} /\ d \in op[r].held
            /\ op[r].held \cap active' = {}
        BY <1>4, <2>4, LeaveStep
      <3>2. Older(d) \cap active \subseteq op[r].held BY <1>3, <2>2, <3>1
      <3>3. QED BY <1>2, <2>2, <3>1, <3>2
    <2>5. QED BY <2>3, <2>4
  <1>5. ASSUME NEW d \in Done', op'[d].kind \in Writers, NEW s \in Requests,
               op'[s].pc = "revoking", d \in op'[s].todo \cup op'[s].held
        PROVE  Older(d)' \cap active' \subseteq op'[s].todo \cup op'[s].held
    <2>1. d \in Done /\ op[d].kind \in Writers /\ Older(d)' \cap active' \subseteq Older(d) \cap active
      BY <1>1, <1>2, <1>5
    <2>2. CASE s # r BY <1>1, <1>3, <1>5, <2>1, <2>2
    <2>3. CASE s = r
      <3>1. CASE active \subseteq op'[r].todo \cup op'[r].held BY <2>1, <2>3, <3>1
      <3>2. CASE /\ op[r].pc = "revoking"
                 /\ op'[r].todo \cup op'[r].held \subseteq op[r].todo \cup op[r].held
                 /\ (op[r].todo \cup op[r].held) \cap active \subseteq op'[r].todo \cup op'[r].held
        <4>1. Older(d) \cap active \subseteq op[r].todo \cup op[r].held
          BY <1>3, <1>5, <2>1, <2>3, <3>2
        <4>2. QED BY <2>1, <2>3, <3>2, <4>1
      <3>3. QED BY <1>5, <2>3, <3>1, <3>2, RowsStep
    <2>4. QED BY <2>2, <2>3
  <1>6. QED BY <1>4, <1>5 DEF Together, Writers

LEMMA ServedStep ==
    ASSUME ServedInv, [Next]_vars
    PROVE  ServedInv'
  <1>1. ASSUME UNCHANGED vars
        PROVE  Ordered' /\ Together'
    <2>1. Ordered' BY <1>1 DEF ServedInv, Ordered, Stamped, vars
    <2>2. Together' BY <1>1 DEF ServedInv, Together, Older, Done, vars
    <2>3. QED BY <2>1, <2>2
  <1>2. QED BY <1>1, BaseStep, OrderedStep, TogetherStep DEF ServedInv, Next, Step

\* A bundle that is active is younger than what it has superseded.
LEMMA ServedImplies == ServedInv => LatestServed
  <1> SUFFICES ASSUME ServedInv, NEW r \in Done, op[r].kind \in Writers, NEW b \in Latest \cap Older(r)
               PROVE  FALSE
    BY DEF LatestServed, Writers
  <1>1. b \in active /\ b \in before[r] /\ r \in Requests BY DEF Latest, Older, Done
  <1>2. CASE r \in active
    <2>1. op[r].pc = "done" /\ Stamped(r) BY DEF Done, Stamped, Writers
    <2>2. createdAt[b] < createdAt[r] BY <1>1, <2>1 DEF ServedInv, Ordered
    <2>3. createdAt[b] >= createdAt[r] BY <1>2 DEF Latest
    <2>4. createdAt[b] \in Nat /\ createdAt[r] \in Nat BY <1>1, TypeParts DEF ServedInv, Base
    <2>5. QED BY <2>2, <2>3, <2>4
  <1>3. CASE r \notin active BY <1>1, <1>3 DEF ServedInv, Together, Writers
  <1>4. QED BY <1>2, <1>3

\* For any sets of requests and ids: the bundle that is served was not finished
\* when a later publication, rotation or replacement began that is answered.
THEOREM ServedLatest == Spec => []LatestServed
  <1>1. Init => ServedInv
    <2>1. Init => Ordered /\ Together BY DEF Init, Ordered, Together, Stamped, Done, NewRequest
    <2>2. QED BY <2>1, BaseInit DEF ServedInv
  <1>2. ServedInv /\ [Next]_vars => ServedInv' BY ServedStep
  <1>3. QED BY <1>1, <1>2, ServedImplies, PTL DEF Spec

-----------------------------------------------------------------------------
(* A rotation leaves nobody without keys. *)

LEMMA KeylessStep ==
    ASSUME KeylessInv, [Next]_vars
    PROVE  KeylessInv'
  <1>1. ASSUME NEW r \in Requests, Step(r)
        PROVE  NeverKeyless'
    <2> SUFFICES ASSUME \A q \in Requests : op'[q].kind \notin {"revoke", "replace"},
                        NEW d \in Done', op'[d].kind \in {"publish", "rotate"}
                 PROVE  active' # {}
      BY DEF NeverKeyless
    <2>1. /\ Done' \subseteq Done \cup {r} /\ r \notin Done /\ Done \subseteq Requests
          /\ \A q \in Requests : q # r => op'[q] = op[q]
          /\ op[r].pc # "new" => op'[r].kind = op[r].kind
          /\ op[r].pc = "new" => op[r].kind = "none"
      BY <1>1, OneStep DEF KeylessInv, Base, Answered, StageOK, Done
    <2>2. \A q \in Requests : op[q].kind \notin {"revoke", "replace"} BY <2>1
    <2>3. CASE d = r BY <1>1, <2>3, WriterStep DEF KeylessInv, Writers, Done
    <2>4. CASE d # r
      <3>1. active # {} BY <2>1, <2>2, <2>4 DEF KeylessInv, NeverKeyless
      <3>2. CASE active \subseteq active' BY <3>1, <3>2
      <3>3. CASE RotateCommit(r) BY <3>3 DEF RotateCommit
      <3>4. ~(RevokeCommit(r) \/ ReplaceRevoked(r)) BY <2>2 DEF RevokeCommit, ReplaceRevoked
      <3>5. QED BY <1>1, <3>2, <3>3, <3>4 DEF Step, Call, Publish, Rotate, Revoke, Replace, GetPreKey,
                UploadPreKeys, Proceed, Fail, BreakDeadlock, RevokeOld, WriteRow, ReplaceStore, Insert, UploadCommit,
                SelectPreKey, ClaimPreKey
    <2>5. QED BY <2>3, <2>4
  <1>2. ASSUME UNCHANGED vars
        PROVE  NeverKeyless'
    BY <1>2 DEF KeylessInv, NeverKeyless, Done, vars
  <1>3. QED BY <1>1, <1>2, BaseStep DEF KeylessInv, Next, Step

\* For any sets of requests and ids: while nobody revokes or replaces keys, a
\* user whose publication or rotation is answered has an active bundle.
THEOREM RotationKeepsKeys == Spec => []NeverKeyless
  <1>1. Init => KeylessInv
    <2>1. Init => NeverKeyless BY DEF Init, NeverKeyless, Done, NewRequest
    <2>2. QED BY <2>1, BaseInit DEF KeylessInv
  <1>2. KeylessInv /\ [Next]_vars => KeylessInv' BY KeylessStep
  <1>3. KeylessInv => NeverKeyless BY DEF KeylessInv
  <1>4. QED BY <1>1, <1>2, <1>3, PTL DEF Spec

-----------------------------------------------------------------------------
(* A pre-key that was handed out is not handed out to a later claim. *)

\* Only uploads and claims change keys, and only claims get one.
LEMMA KeyStep ==
    ASSUME Base, NEW r \in Requests, Step(r)
    PROVE  \/ UploadCommit(r) /\ op'[r].got = op[r].got /\ op'[r].pc = "done"
           \/ \E k \in KeyIds : /\ ClaimPreKey(r, k)
                              /\ op'[r].got = <<k, preKeys[k].from>> /\ op'[r].pc = "done"
           \/ SelectPreKey(r) /\ preKeys' = preKeys /\ op'[r].got = op[r].got
           \/ preKeys' = preKeys /\ op'[r].got = op[r].got /\ op'[r].pc # "claim"
  <1>1. op \in [Requests -> Ops] /\ op[r] \in Ops BY TypeParts DEF Base
  <1> DEFINE Other == preKeys' = preKeys /\ op'[r].got = op[r].got /\ op'[r].pc # "claim"
  <1>2. CASE Call(r)
    <2>1. ASSUME NEW k, NEW p, NEW rows, Begin(r, k, p, rows), p # "claim"
          PROVE  op'[r].got = op[r].got /\ op'[r].pc # "claim"
      BY <1>1, <2>1 DEF Begin, Ops
    <2>2. QED BY <1>2, <2>1 DEF Call, Publish, Rotate, Revoke, Replace, GetPreKey, UploadPreKeys
  <1>3. Rollback(r) => op'[r].got = op[r].got /\ op'[r].pc # "claim"
    BY <1>1 DEF Rollback, AfterRollback, Ops
  <1>4. CASE Fail(r) \/ BreakDeadlock(r) BY <1>3, <1>4 DEF Fail, BreakDeadlock
  <1>5. CASE RevokeOld(r) \/ ReplaceRevoked(r) \/ ReplaceStore(r)
    BY <1>1, <1>5 DEF RevokeOld, ReplaceRevoked, ReplaceStore, Ops
  <1>6. ASSUME NEW x, WriteRow(r, x)
        PROVE  Other
    BY <1>1, <1>6 DEF WriteRow, Ops
  <1>7. CASE RevokeCommit(r) \/ RotateCommit(r) \/ Insert(r)
    BY <1>1, <1>7 DEF RevokeCommit, RotateCommit, Insert, Finish, Ops
  <1>8. CASE UploadCommit(r) BY <1>1, <1>8 DEF UploadCommit, Finish, Ops
  <1>9. CASE SelectPreKey(r) BY <1>1, <1>9 DEF SelectPreKey, Ops
  <1>10. ASSUME NEW k \in KeyIds, ClaimPreKey(r, k)
         PROVE  op'[r].got = <<k, preKeys[k].from>> /\ op'[r].pc = "done"
    BY <1>1, <1>10 DEF ClaimPreKey, Ops
  <1>11. QED BY <1>2, <1>4, <1>5, <1>6, <1>7, <1>8, <1>9, <1>10 DEF Step, Proceed

LEMMA ClaimStep ==
    ASSUME Base, Marked, Selected, LaterClaimsDiffer, NEW r \in Requests, Step(r)
    PROVE  Marked' /\ Selected' /\ LaterClaimsDiffer'
  <1>1. /\ r \notin Done /\ Done \subseteq Done' /\ Done \subseteq Requests
        /\ \A q \in Requests : before[q] \subseteq Done /\ before'[q] \subseteq Done
        /\ \A q \in Requests : q # r => op'[q] = op[q] /\ before'[q] = before[q]
        /\ op[r].pc # "new" => before'[r] = before[r]
        /\ preKeys \in [KeyIds -> [from : Requests \cup {NoKey}, used : BOOLEAN]]
    BY OneStep, TypeParts DEF Base, Answered, Done
  <1>2. op[r].got = NoKey /\ \A q \in Requests : op[q].pc # "done" => op[q].got = NoKey
    BY <1>1 DEF Marked, Done
  <1>3. \A k \in KeyIds : IF preKeys[k].from = NoKey THEN preKeys[k].used
                                                    ELSE preKeys[k].from \in Done
    BY DEF Marked
  <1>4. ASSUME NEW q \in Requests, NEW k \in KeyIds, NEW u \in Requests \cup {NoKey}, op[q].got = <<k, u>>
        PROVE  u \in Done /\ (preKeys[k].from = u => preKeys[k].used)
    BY <1>4 DEF Marked
  <1>5. ASSUME NEW q \in Requests, op[q].pc = "claim", NEW k \in op[q].todo
        PROVE  /\ k \in KeyIds /\ preKeys[k].from # NoKey
               /\ \A p \in before[q] : op[p].got # <<k, preKeys[k].from>>
    BY <1>5 DEF Selected
  <1>6. CASE preKeys' = preKeys /\ op'[r].got = op[r].got /\ (SelectPreKey(r) \/ op'[r].pc # "claim")
    <2>1. \A q \in Requests : op'[q].got = op[q].got /\ (op'[q].pc # "done" => op[q].pc # "done")
      BY <1>1, <1>6 DEF Done
    <2>2. Marked' BY <1>1, <1>2, <1>3, <1>4, <1>6, <2>1 DEF Marked
    <2>3. ASSUME NEW q \in Requests, op'[q].pc = "claim", NEW k \in op'[q].todo
          PROVE  /\ k \in KeyIds /\ preKeys[k].from # NoKey
                 /\ \A p \in before'[q] : op'[p].got # <<k, preKeys[k].from>>
      <3>1. CASE q # r
        <4>1. op'[q] = op[q] /\ before'[q] = before[q] /\ before[q] \subseteq Requests BY <1>1, <3>1
        <4>2. QED BY <1>5, <2>1, <2>3, <4>1
      <3>2. CASE q = r
        <4>1. k \in Unused /\ before'[r] \subseteq Requests
          <5>1. op \in [Requests -> Ops] /\ op[r] \in Ops BY TypeParts DEF Base
          <5>2. SelectPreKey(r) BY <1>6, <2>3, <3>2
          <5>3. ASSUME NEW j \in Unused, op' = [op EXCEPT ![r].pc = "claim", ![r].todo = {j}]
                PROVE  k = j
            BY <2>3, <3>2, <5>1, <5>3 DEF Ops
          <5>4. op' # [op EXCEPT ![r].pc = "done"] BY <2>3, <3>2, <5>1 DEF Ops
          <5>5. QED BY <1>1, <5>2, <5>3, <5>4 DEF SelectPreKey
        <4>2. k \in KeyIds /\ ~preKeys[k].used /\ preKeys[k].from \in Done BY <1>3, <4>1 DEF Unused
        <4>3. preKeys[k].from \in Requests /\ preKeys[k].from # NoKey
          BY <1>1, <4>2, KeyServerAssumption
        <4>4. QED BY <1>4, <2>1, <3>2, <4>1, <4>2, <4>3
      <3>3. QED BY <3>1, <3>2
    <2>4. Selected' BY <1>6, <2>3 DEF Selected
    <2>5. LaterClaimsDiffer' BY <1>1, <1>2, <2>1 DEF LaterClaimsDiffer
    <2>6. QED BY <2>2, <2>4, <2>5
  <1>7. CASE UploadCommit(r) /\ op'[r].got = op[r].got /\ op'[r].pc = "done"
    <2>1. \A q \in Requests : op'[q].got = op[q].got /\ (op'[q].pc # "done" => op[q].pc # "done")
      BY <1>1, <1>7 DEF Done
    <2>2. ASSUME NEW k \in KeyIds
          PROVE  \/ preKeys'[k] = preKeys[k]
                 \/ preKeys'[k].from = r
      BY <1>7 DEF UploadCommit
    <2>3. r \in Done' /\ r # NoKey BY <1>7, KeyServerAssumption DEF Done
    <2>4. Marked'
      <3>1. ASSUME NEW q \in Requests, NEW k \in KeyIds, NEW u \in Requests \cup {NoKey},
                   op'[q].got = <<k, u>>
            PROVE  u \in Done' /\ (preKeys'[k].from = u => preKeys'[k].used)
        BY <1>1, <1>4, <2>1, <2>2, <3>1
      <3>2. \A k \in KeyIds : IF preKeys'[k].from = NoKey THEN preKeys'[k].used
                                                         ELSE preKeys'[k].from \in Done'
        BY <1>1, <1>3, <2>2, <2>3
      <3>3. QED BY <1>2, <2>1, <3>1, <3>2 DEF Marked
    <2>5. ASSUME NEW q \in Requests, op'[q].pc = "claim", NEW k \in op'[q].todo
          PROVE  /\ k \in KeyIds /\ preKeys'[k].from # NoKey
                 /\ \A p \in before'[q] : op'[p].got # <<k, preKeys'[k].from>>
      <3>1. /\ q # r /\ op'[q] = op[q] /\ before'[q] = before[q] /\ before[q] \subseteq Requests
        BY <1>1, <1>7, <2>5
      <3>2. k \in KeyIds /\ \A p \in Requests : op[p].got # <<k, r>> BY <1>1, <1>4, <1>5, <2>5, <3>1
      <3>3. CASE preKeys'[k] = preKeys[k] BY <1>5, <2>1, <2>5, <3>1, <3>3
      <3>4. CASE preKeys'[k].from = r BY <2>1, <2>3, <3>1, <3>2, <3>4
      <3>5. QED BY <2>2, <3>2, <3>3, <3>4
    <2>6. Selected' BY <2>5 DEF Selected
    <2>7. LaterClaimsDiffer' BY <1>1, <1>2, <2>1 DEF LaterClaimsDiffer
    <2>8. QED BY <2>4, <2>6, <2>7
  <1>8. ASSUME NEW k \in KeyIds, ClaimPreKey(r, k),
               op'[r].got = <<k, preKeys[k].from>>, op'[r].pc = "done"
        PROVE  Marked' /\ Selected' /\ LaterClaimsDiffer'
    <2>1. /\ preKeys[k].from \in Done /\ before'[r] = before[r]
          /\ \A p \in before[r] : op[p].got # <<k, preKeys[k].from>>
      BY <1>1, <1>3, <1>5, <1>8 DEF ClaimPreKey
    <2>2. ASSUME NEW j \in KeyIds
          PROVE  IF j = k THEN preKeys'[j].from = preKeys[j].from /\ preKeys'[j].used
                          ELSE preKeys'[j] = preKeys[j]
      BY <1>1, <1>8 DEF ClaimPreKey
    <2>3. Marked'
      <3>1. ASSUME NEW q \in Requests, NEW j \in KeyIds, NEW u \in Requests \cup {NoKey},
                   op'[q].got = <<j, u>>
            PROVE  u \in Done' /\ (preKeys'[j].from = u => preKeys'[j].used)
        <4>1. CASE q = r BY <1>1, <1>8, <2>1, <2>2, <3>1, <4>1
        <4>2. CASE q # r
          <5>1. u \in Done /\ (preKeys[j].from = u => preKeys[j].used) BY <1>1, <1>4, <3>1, <4>2
          <5>2. QED BY <1>1, <2>2, <5>1
        <4>3. QED BY <4>1, <4>2
      <3>2. \A j \in KeyIds : IF preKeys'[j].from = NoKey THEN preKeys'[j].used
                                                         ELSE preKeys'[j].from \in Done'
        BY <1>1, <1>3, <2>1, <2>2
      <3>3. \A q \in Requests : op'[q].pc # "done" => op'[q].got = NoKey BY <1>1, <1>2, <1>8
      <3>4. QED BY <3>1, <3>2, <3>3 DEF Marked
    <2>4. ASSUME NEW q \in Requests, op'[q].pc = "claim", NEW j \in op'[q].todo
          PROVE  /\ j \in KeyIds /\ preKeys'[j].from # NoKey
                 /\ \A p \in before'[q] : op'[p].got # <<j, preKeys'[j].from>>
      <3>1. /\ op'[q] = op[q] /\ before'[q] = before[q]
            /\ \A p \in before[q] : p \in Requests /\ op'[p] = op[p]
        BY <1>1, <1>8, <2>4
      <3>2. j \in KeyIds /\ preKeys'[j].from = preKeys[j].from BY <1>5, <2>2, <2>4, <3>1
      <3>3. QED BY <1>5, <2>4, <3>1, <3>2
    <2>5. Selected' BY <2>4 DEF Selected
    <2>6. LaterClaimsDiffer'
      <3>1. \A q \in Requests : \A p \in before'[q] : p \in Requests /\ op'[p] = op[p] BY <1>1
      <3>2. \A q \in Requests : before'[q] = before[q] BY <1>1, <2>1
      <3>3. QED BY <1>1, <1>8, <2>1, <3>1, <3>2 DEF LaterClaimsDiffer
    <2>7. QED BY <2>3, <2>5, <2>6
  <1>9. QED BY <1>6, <1>7, <1>8, KeyStep

\* For any sets of requests and ids: two claims that do not overlap never get
\* the same key of the same upload.
THEOREM LaterClaims == Spec => []LaterClaimsDiffer
  <1>1. Init => ClaimInv
    <2>1. Init => Marked /\ Selected /\ LaterClaimsDiffer
      BY KeyServerAssumption DEF Init, Marked, Selected, LaterClaimsDiffer, NewRequest, Unwritten
    <2>2. QED BY <2>1, BaseInit DEF ClaimInv
  <1>2. ClaimInv /\ [Next]_vars => ClaimInv'
    <2>1. ASSUME ClaimInv, UNCHANGED vars
          PROVE  Marked' /\ Selected' /\ LaterClaimsDiffer'
      BY <2>1 DEF ClaimInv, Marked, Selected, LaterClaimsDiffer, Done, vars
    <2>2. QED BY <2>1, BaseStep, ClaimStep DEF ClaimInv, Next, Step
  <1>3. ClaimInv => LaterClaimsDiffer BY DEF ClaimInv
  <1>4. QED BY <1>1, <1>2, <1>3, PTL DEF Spec
=============================================================================
