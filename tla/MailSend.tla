------------------------------ MODULE MailSend -------------------------------
(***************************************************************************)
(* Composing and sending in the mail service: the handlers of drafts and   *)
(* of /messages/send, and the goroutine each accepted send leaves behind.  *)
(*                                                                         *)
(* A send files the message in the sender's Sent folder, answers the       *)
(* client, and a goroutine then walks over To, Cc and Bcc: an address with *)
(* an account gets a copy in its inbox, any other address a row of the     *)
(* outbound queue (module OutboundQueue takes it from there).              *)
(*                                                                         *)
(* The handlers hold no lock and no transaction spans two of their         *)
(* database calls, so those of different requests interleave.              *)
(*                                                                         *)
(* What is abstracted: contents are edit numbers; threads, encryption      *)
(* envelopes and events are left out; a request whose first database call  *)
(* fails changes nothing and is not modelled.                              *)
(***************************************************************************)
EXTENDS Naturals, Sequences, SequencesExt, FiniteSetsExt

CONSTANTS Messages,   \* message ids the sender's mailbox may use
          Local,      \* addresses with an account
          External,   \* addresses without one
          Envelopes,  \* the recipients of a compose form: [to, cc, bcc]
          Requests,   \* requests that update or send, each made once
          NoMessage,
          MaxFaults   \* bound on failed database calls and crashes

Addresses == Local \cup External

ASSUME MailSendAssumption ==
    /\ Local \cap External = {}
    /\ Envelopes \subseteq [to : Seq(Addresses), cc : Seq(Addresses), bcc : Seq(Addresses)]
    /\ IsFiniteSet(Requests)
    /\ NoMessage \notin Messages
    /\ MaxFaults \in Nat

VARIABLES
    row,     \* the sender's mail_messages: folder, recipients, edit number
    req,     \* the requests and the goroutines they start
    inbox,   \* the copies that each request has put in the inbox of a local address
    listed,  \* the outbound rows of each request that list an address
    faults

vars == <<row, req, inbox, listed, faults>>

Folders == {"Drafts", "Sent", "Archive"}
NoEnvelope == [to |-> <<>>, cc |-> <<>>, bcc |-> <<>>]
NoRow   == [folder |-> "none", env |-> NoEnvelope, edit |-> 0]
Gone    == [NoRow EXCEPT !.folder = "deleted"]
Exists(m) == row[m].folder \in Folders

\* next is the place of the next recipient of a goroutine, and 0 before there is one.
NewRequest == [pc |-> "new", msg |-> NoMessage, env |-> NoEnvelope, next |-> 0]

\* deliverToRecipients ranges over append(To, append(Cc, Bcc...)...).
Recipients(e) == e.to \o e.cc \o e.bcc

\* Mutant: the walk stops one recipient early.
RelayingShort(r) == req[r].pc = "relaying" /\ req[r].next < Len(Recipients(req[r].env))

Relaying(r) == req[r].pc = "relaying" /\ req[r].next <= Len(Recipients(req[r].env))

Recipient(r) == Recipients(req[r].env)[req[r].next]

-----------------------------------------------------------------------------
Init ==
    /\ row = [m \in Messages |-> NoRow]
    /\ req = [r \in Requests |-> NewRequest]
    /\ inbox = [r \in Requests |-> [a \in Local |-> 0]]
    /\ listed = [r \in Requests |-> [a \in Addresses |-> 0]]
    /\ faults = 0

\* SaveDraft inserts a row in Drafts.
SaveDraft(m, e) ==
    /\ row[m] = NoRow
    /\ row' = [row EXCEPT ![m] = [folder |-> "Drafts", env |-> e, edit |-> 0]]
    /\ UNCHANGED <<req, inbox, listed, faults>>

\* MoveMessage, by the user: any folder, any message.
MoveMessage(m, f) ==
    /\ Exists(m)
    /\ row[m].folder # f
    /\ row' = [row EXCEPT ![m].folder = f]
    /\ UNCHANGED <<req, inbox, listed, faults>>

\* DeleteMessage
DeleteMessage(m) ==
    /\ Exists(m)
    /\ row' = [row EXCEPT ![m] = Gone]
    /\ UNCHANGED <<req, inbox, listed, faults>>

-----------------------------------------------------------------------------
(* UpdateDraft: GetMessage and the check of its folder, then the UPDATE.   *)

UpdateDraftCheck(r, m) ==
    /\ req[r].pc = "new"
    /\ row[m].folder = "Drafts"
    /\ req' = [req EXCEPT ![r].pc = "checked", ![r].msg = m]
    /\ UNCHANGED <<row, inbox, listed, faults>>

\* Mutant: the row a request checked is written even if it is gone.
UpdateDraftUpsert(r, e) ==
    /\ req[r].pc = "checked"
    /\ row' = [row EXCEPT ![req[r].msg] = [folder |-> "Drafts", env |-> e, edit |-> Cardinality(Requests) + 1]]
    /\ req' = [req EXCEPT ![r].pc = "done"]
    /\ UNCHANGED <<inbox, listed, faults>>

\* UpdateDraftContent selects the row by its id alone.
UpdateDraftWrite(r, e) ==
    /\ req[r].pc = "checked"
    /\ LET m == req[r].msg IN
         row' = IF Exists(m)
                THEN [row EXCEPT ![m].env = e, ![m].edit = @ + 1]
                ELSE row
    /\ req' = [req EXCEPT ![r].pc = "done"]
    /\ UNCHANGED <<inbox, listed, faults>>

-----------------------------------------------------------------------------
(* SendDraft: GetMessage, MoveMessage to Sent, then the goroutine.         *)

SendDraftRead(r, m) ==
    /\ req[r].pc = "new"
    /\ Exists(m)
    /\ req' = [req EXCEPT ![r].pc = "read", ![r].msg = m, ![r].env = row[m].env]
    /\ UNCHANGED <<row, inbox, listed, faults>>

Relay(r, m, e) == req' = [req EXCEPT ![r] = [pc |-> "relaying", msg |-> m, env |-> e, next |-> 1]]

\* MoveMessage reports a row that is gone, and then nothing is sent.
SendDraftMove(r) ==
    /\ req[r].pc = "read"
    /\ LET m == req[r].msg IN
         IF Exists(m)
         THEN /\ row' = [row EXCEPT ![m].folder = "Sent"]
              /\ Relay(r, m, req[r].env)
         ELSE /\ req' = [req EXCEPT ![r].pc = "failed"]
              /\ UNCHANGED row
    /\ UNCHANGED <<inbox, listed, faults>>

\* MoveMessage updates the row but cannot read it back: the client is told
\* that the move failed.
SendDraftMoveUnread(r) ==
    /\ faults < MaxFaults
    /\ req[r].pc = "read"
    /\ Exists(req[r].msg)
    /\ row' = [row EXCEPT ![req[r].msg].folder = "Sent"]
    /\ req' = [req EXCEPT ![r].pc = "failed"]
    /\ faults' = faults + 1
    /\ UNCHANGED <<inbox, listed>>

\* SendMessage inserts the row in Sent and starts the goroutine.  Only here
\* is an empty To refused: a draft is sent without one.
SendMessage(r, m, e) ==
    /\ req[r].pc = "new"
    /\ e.to # <<>>
    /\ row[m] = NoRow
    /\ row' = [row EXCEPT ![m] = [folder |-> "Sent", env |-> e, edit |-> 0]]
    /\ Relay(r, m, e)
    /\ UNCHANGED <<inbox, listed, faults>>

-----------------------------------------------------------------------------
(* deliverToRecipient, for the next recipient of a goroutine.              *)

Advance(r) == req' = [req EXCEPT ![r].next = @ + 1]

\* Mutant: an insert whose answer is lost is tried again.
DeliverLocalAgain(r) ==
    /\ Relaying(r)
    /\ Recipient(r) \in Local
    /\ inbox' = [inbox EXCEPT ![r][Recipient(r)] = @ + 1]
    /\ \/ Advance(r) /\ UNCHANGED faults
       \/ faults < MaxFaults /\ faults' = faults + 1 /\ UNCHANGED req
    /\ UNCHANGED <<row, listed>>

\* CreateInboundMessage in the recipient's mailbox.
DeliverLocal(r) ==
    /\ Relaying(r)
    /\ Recipient(r) \in Local
    /\ inbox' = [inbox EXCEPT ![r][Recipient(r)] = @ + 1]
    /\ Advance(r)
    /\ UNCHANGED <<row, listed, faults>>

\* The row names the recipient in to_addresses and, for each recipient anew,
\* all of Cc and Bcc.
RowLists(r) == {Recipient(r)} \cup ToSet(req[r].env.cc) \cup ToSet(req[r].env.bcc)

Enqueue(r) ==
    listed' = [listed EXCEPT ![r] =
                 [a \in Addresses |-> IF a \in RowLists(r) THEN @[a] + 1 ELSE @[a]]]

EnqueueExternal(r) ==
    /\ Relaying(r)
    /\ Recipient(r) \in External
    /\ Enqueue(r)
    /\ Advance(r)
    /\ UNCHANGED <<row, inbox, faults>>

\* GetUserByEmail fails for another reason than an unknown address.
LookupFails(r) ==
    /\ faults < MaxFaults
    /\ Relaying(r)
    /\ Recipient(r) \in Local
    /\ Enqueue(r)
    /\ Advance(r)
    /\ faults' = faults + 1
    /\ UNCHANGED <<row, inbox>>

\* A later database call fails: the error is logged and the recipient skipped.
DeliveryFails(r) ==
    /\ faults < MaxFaults
    /\ Relaying(r)
    /\ Advance(r)
    /\ faults' = faults + 1
    /\ UNCHANGED <<row, inbox, listed>>

\* The goroutine returns.
Finish(r) ==
    /\ req[r].pc = "relaying"
    /\ ~Relaying(r)
    /\ req' = [req EXCEPT ![r].pc = "done"]
    /\ UNCHANGED <<row, inbox, listed, faults>>

\* The process ends, and with it its requests and goroutines.
Crash ==
    /\ faults < MaxFaults
    /\ \E r \in Requests : req[r].pc \notin {"new", "done", "failed"}
    /\ req' = [r \in Requests |->
                 IF req[r].pc \in {"new", "done", "failed"} THEN req[r]
                 ELSE [req[r] EXCEPT !.pc = "failed"]]
    /\ faults' = faults + 1
    /\ UNCHANGED <<row, inbox, listed>>

-----------------------------------------------------------------------------
Goroutine(r) == DeliverLocal(r) \/ EnqueueExternal(r) \/ Finish(r)

Next ==
    \/ \E m \in Messages, e \in Envelopes : SaveDraft(m, e)
    \/ \E m \in Messages, f \in Folders : MoveMessage(m, f)
    \/ \E m \in Messages : DeleteMessage(m)
    \/ \E r \in Requests, m \in Messages : UpdateDraftCheck(r, m) \/ SendDraftRead(r, m)
    \/ \E r \in Requests, e \in Envelopes : UpdateDraftWrite(r, e)
    \/ \E r \in Requests, m \in Messages, e \in Envelopes : SendMessage(r, m, e)
    \/ \E r \in Requests : SendDraftMove(r) \/ SendDraftMoveUnread(r)
    \/ \E r \in Requests : Goroutine(r) \/ LookupFails(r) \/ DeliveryFails(r)
    \/ Crash

Spec == Init /\ [][Next]_vars

\* A goroutine runs on until it returns: every database call of it returns.
FairSpec == Spec /\ \A r \in Requests : WF_vars(Goroutine(r))

-----------------------------------------------------------------------------
(* Properties                                                              *)

RequestStates ==
    [pc : {"new", "checked", "read", "relaying", "done", "failed"}, msg : Messages \cup {NoMessage},
     env : Envelopes \cup {NoEnvelope}, next : Nat]

\* The updates of m that were made.
Updates(m) == {r \in Requests : req[r].pc = "done" /\ req[r].next = 0 /\ req[r].msg = m}

\* Types; a row is edited no more often than an update was made.
TypeOK ==
    /\ row \in [Messages -> [folder : Folders \cup {"none", "deleted"},
                             env : Envelopes \cup {NoEnvelope}, edit : Nat]]
    /\ \A m \in Messages :
         IF Exists(m) THEN row[m].env \in Envelopes /\ row[m].edit <= Cardinality(Updates(m))
         ELSE row[m] \in {NoRow, Gone}
    /\ req \in [Requests -> RequestStates]
    /\ \A r \in Requests : req[r].next <= Len(Recipients(req[r].env)) + 1
    /\ inbox \in [Requests -> [Local -> Nat]]
    /\ listed \in [Requests -> [Addresses -> Nat]]
    /\ faults \in 0..MaxFaults

Occurrences(a, s) == Cardinality({i \in DOMAIN s : s[i] = a})

Copied(r, a) == a \in ToSet(req[r].env.cc) \cup ToSet(req[r].env.bcc)

\* However sends, edits, moves, deletions and failures of one message interleave, each
\* send gives an address with an account no more copies than its envelope lists it, each
\* place of an address of To a copy or a row but not both, and nobody else any of them.
CopiesPerSend ==
    \A r \in Requests :
        LET s == Recipients(req[r].env) IN
        /\ \A a \in Local : inbox[r][a] <= Occurrences(a, s)
        /\ \A a \in Addresses :
             IF Copied(r, a) THEN listed[r][a] <= Len(s)
             ELSE listed[r][a] + (IF a \in Local THEN inbox[r][a] ELSE 0) <= Occurrences(a, s)

\* Rows of one send: one per recipient without an account, and one for each failed
\* lookup; an address in Cc or Bcc is listed on all of them.
RowsPerSend(r, a) ==
    LET e == req[r].env
    IN  IF Copied(r, a)
        THEN Cardinality({i \in DOMAIN Recipients(e) : Recipients(e)[i] \in External})
        ELSE IF a \in External THEN Occurrences(a, e.to) ELSE 0

\* Unless something failed, a finished send gave every local recipient its copies and
\* listed every other one on exactly the rows meant for it.
CompleteWithoutFaults ==
    \A r \in Requests :
        faults = 0 /\ req[r].pc = "done" /\ req[r].next > 0 =>
            /\ \A a \in Local : inbox[r][a] = Occurrences(a, Recipients(req[r].env))
            /\ \A a \in Addresses : listed[r][a] = RowsPerSend(r, a)

\* Copies and rows are those the envelopes that were sent list, no more of them
\* whatever fails and no fewer unless something does.
SentAsListed == CopiesPerSend /\ CompleteWithoutFaults

Served(r) ==
    \A a \in ToSet(Recipients(req[r].env)) :
        IF a \in Local THEN inbox[r][a] > 0 ELSE listed[r][a] > 0

\* A send that was answered with success reaches every recipient in the end,
\* whatever is done to the message meanwhile, unless a database call fails or
\* the process dies.
EveryoneServed ==
    \A r \in Requests :
        req[r].pc = "relaying" ~> faults > 0 \/ (req[r].pc = "done" /\ req[r].next > 0 /\ Served(r))

-----------------------------------------------------------------------------
(* The invariant that the safety properties follow from                    *)

\* What the stage of a request says of it.
StagesOK ==
    \A r \in Requests :
        /\ req[r].pc \in {"new", "checked", "read"} => req[r].next = 0
        /\ req[r].pc \in {"checked", "read"} => req[r].msg \in Messages
        /\ req[r].pc = "relaying" => req[r].next > 0
        /\ req[r].pc = "done" => req[r].next \in {0, Len(Recipients(req[r].env)) + 1}

\* The places that a goroutine has passed whose recipients are of a set.
Passed(r, set) ==
    Cardinality({i \in DOMAIN Recipients(req[r].env) :
                    i < req[r].next /\ Recipients(req[r].env)[i] \in set})

\* Copies and rows are those of the places passed.
CountsOK ==
    \A r \in Requests :
        /\ \A a \in Local : inbox[r][a] <= Passed(r, {a})
        /\ \A a \in Addresses :
             IF Copied(r, a) THEN listed[r][a] <= Passed(r, Addresses)
             ELSE listed[r][a] + (IF a \in Local THEN inbox[r][a] ELSE 0) <= Passed(r, {a})
        /\ faults = 0 =>
             /\ \A a \in Local : inbox[r][a] = Passed(r, {a})
             /\ \A a \in Addresses :
                  listed[r][a] = IF Copied(r, a) THEN Passed(r, External)
                                 ELSE IF a \in External THEN Passed(r, {a}) ELSE 0

SendInv == TypeOK /\ StagesOK /\ CountsOK
=============================================================================
