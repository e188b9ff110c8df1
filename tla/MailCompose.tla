------------------------------ MODULE MailCompose ------------------------------
(* The compose panel of the mail application (apps/mail, ComposePanel.tsx):  *)
(* writing, replying and forwarding, drafts saved on closing, and a send     *)
(* that waits five seconds for an Undo. The panel stays mounted while it is  *)
(* closed, so its refs and the id of a draft outlive the message they        *)
(* belong to, and timers and answers of one message meet the next.           *)
(*                                                                           *)
(* A text is the set of the pieces it contains: words typed, quotations of   *)
(* threads, the signature. "To" stands for To, Cc and Bcc together, a text   *)
(* for subject and body; attachments are left out. One action is one event   *)
(* of the page with the render and the effects it causes.                    *)
EXTENDS Naturals, FiniteSets, Sequences

CONSTANTS
    Words,       \* what the user may type
    People,      \* addresses
    Me,          \* the address of the user
    Threads,     \* conversations that can be answered or forwarded
    Sender,      \* Sender[t]: who wrote the last message of t
    Receivers,   \* Receivers[t]: the people that message names
    Signature,   \* the signature as a piece of text
    Nothing,     \* null
    MaxSends,    \* bound: clicks on Send
    MaxSaves,    \* bound: drafts stored
    MaxEdits     \* bound: clicks and strokes in the panel other than Send and Undo

ASSUME ComposeAssumption ==
    /\ Me \in People
    /\ Sender \in [Threads -> People]
    /\ Receivers \in [Threads -> SUBSET People]
    /\ Nothing \notin Threads \cup Nat
    /\ MaxSends \in Nat /\ MaxSaves \in Nat /\ MaxEdits \in Nat

Pieces   == Words \cup Threads \cup {Signature}
Clicks   == 1 .. MaxSends
DraftIds == 1 .. MaxSaves
Thread   == Threads \cup {Nothing}
Draft    == DraftIds \cup {Nothing}

VARIABLES
    panel,      \* the state of the panel, with the part of the store it uses
    shown,      \* the text in the editable element of the page
    ref,        \* replyToMessageIdRef.current: what the message answers
    me,         \* meEmailRef.current is filled in
    threads,    \* the threads the store holds
    signature,  \* a signature is kept in localStorage
    clicks,     \* clicks on Send so far
    snapshot,   \* snapshot[n]: the state click n saw, which its timer closes over
    pending,    \* the click pendingSendRef.current was set by
    timers,     \* the clicks whose timer runs
    timer,      \* the click sendTimerRef.current was set by
    toast,      \* the toast offers Undo
    calls,      \* draft requests under way
    jobs,       \* sends under way
    drafts,     \* the drafts on the server
    saves,      \* drafts created so far
    posted,     \* messages the server took
    edits,      \* clicks and strokes so far
    undone,     \* clicks that were undone (history)
    overlap     \* clicks that waited or posted while another did (history)

composeVars == <<panel, shown, ref, me, threads, signature, clicks, snapshot, pending,
                 timers, timer, toast, calls, jobs, drafts, saves, posted, edits,
                 undone, overlap>>

form     == <<panel, shown, ref, edits>>
context  == <<me, threads, signature>>
waiting  == <<clicks, snapshot, pending, timers, timer, toast, undone, overlap>>
storage  == <<calls, drafts, saves>>
sending  == <<jobs, posted>>

Panel ==
    [open: BOOLEAN, minimized: BOOLEAN, reply: Thread, forward: Thread,
     to: SUBSET People, text: SUBSET Pieces,
     encrypted: BOOLEAN, draft: Draft]

\* What a click on Send saw; "answers" is the thread the form answers (history).
Snapshot ==
    [to: SUBSET People, text: SUBSET Pieces,
     encrypted: BOOLEAN, draft: Draft, ref: Thread, answers: Thread]

\* A message as it is posted: "by" is the click whose timer posts it, "n" the
\* click its fields come from, "keys" the people it is encrypted to.
Message ==
    [by: Clicks, n: Clicks, to: SUBSET People, text: SUBSET Pieces,
     encrypted: BOOLEAN, ref: Thread, keys: SUBSET People]

Call == [kind: {"create", "update", "delete"}, draft: Draft]

\* A click or a stroke of the user.
Edit == edits < MaxEdits /\ edits' = edits + 1

\* Closed, with the encryption toggle and minimized as they are.
Cleared(p) ==
    [open |-> FALSE, minimized |-> p.minimized, reply |-> Nothing,
     forward |-> Nothing, to |-> {}, text |-> {},
     encrypted |-> p.encrypted, draft |-> Nothing]

ComposeInit ==
    /\ panel = Cleared([minimized |-> FALSE, encrypted |-> TRUE])
    /\ shown = {} /\ ref = Nothing
    /\ me = FALSE /\ threads = Threads /\ signature \in BOOLEAN
    /\ clicks = 0 /\ snapshot = <<>> /\ pending = Nothing
    /\ timers = {} /\ timer = Nothing /\ toast = FALSE
    /\ calls = {} /\ drafts = {} /\ saves = 0
    /\ jobs = {} /\ posted = {} /\ edits = 0 /\ undone = {} /\ overlap = {}

-------------------------------------------------------------------------------
(* What is rendered, and the effects of a render.                            *)

\* A minimized panel is a bar that expands or closes.
Bar == panel.open /\ panel.minimized

\* The expanded panel has the fields, the text and the bottom bar.
Editor == panel.open /\ ~panel.minimized

HasContent == panel.to # {} \/ panel.text # {}

\* Send, or Ctrl+Enter in the text, needs a recipient.
SendEnabled == Editor /\ panel.to # {}

\* An answer goes to everybody but me, as far as my address is known yet; an
\* answer to a message of mine goes to its receivers.
ReplyRecipients(t) ==
    LET all == IF me /\ Sender[t] = Me THEN Receivers[t]
               ELSE Receivers[t] \cup {Sender[t]}
    IN  IF me THEN all \ {Me} ELSE all

\* The effect of an answer: it fills the form from the thread in the store.
ReplyFilled(p, ts) ==
    IF p.reply \in ts
    THEN [p EXCEPT !.to = ReplyRecipients(p.reply), !.text = {p.reply}]
    ELSE p

\* The effect of a forwarded message: the recipient is for the user to enter.
ForwardFilled(p, ts) ==
    IF p.forward \in ts
    THEN [p EXCEPT !.to = {}, !.text = {p.forward}]
    ELSE p

\* A panel that opens for a new message starts with the signature.
SignatureFilled(p) ==
    IF signature /\ p.reply = Nothing /\ p.forward = Nothing
    THEN [p EXCEPT !.text = {Signature}]
    ELSE p

\* A text that an effect sets is copied into the editable element, which only
\* the expanded panel has.
Synced(p) == IF p.open /\ ~p.minimized THEN p.text ELSE {}

-------------------------------------------------------------------------------
(* Opening, filling in, closing.                                             *)

\* The address of the user is known some time after the page has loaded.
AccountArrives ==
    /\ ~me
    /\ me' = TRUE
    /\ UNCHANGED <<form, threads, signature, waiting, storage, sending>>

\* Compose, or the key c.
OpenNew ==
    /\ Edit
    /\ ~panel.open
    /\ panel' = SignatureFilled([panel EXCEPT !.open = TRUE])
    /\ shown' = Synced(panel')
    /\ UNCHANGED <<ref, context, waiting, storage, sending>>

\* Reply under the open thread.
OpenReply(t) ==
    /\ Edit
    /\ t \in threads /\ panel.reply # t
    /\ panel' = ReplyFilled([panel EXCEPT !.open = TRUE, !.reply = t], threads)
    /\ shown' = Synced(panel')
    /\ ref' = t
    /\ UNCHANGED <<context, waiting, storage, sending>>

\* Forward under the open thread.
OpenForward(t) ==
    /\ Edit
    /\ t \in threads /\ panel.forward # t
    /\ panel' = ForwardFilled([panel EXCEPT !.open = TRUE, !.forward = t], threads)
    /\ shown' = Synced(panel')
    /\ ref' = Nothing
    /\ UNCHANGED <<context, waiting, storage, sending>>

\* The mailbox is loaded again, by polling or after an event, and holds ts: the
\* effects of an answer and of a forwarded message depend on the threads.
Refresh(ts) ==
    /\ threads' = ts
    /\ panel' = ForwardFilled(ReplyFilled(panel, ts), ts)
    /\ edits' = edits
    /\ shown' = IF panel.reply \in ts \/ panel.forward \in ts
                THEN Synced(panel') ELSE shown
    /\ ref' = IF panel.forward \in ts THEN Nothing
              ELSE IF panel.reply \in ts THEN panel.reply ELSE ref
    /\ UNCHANGED <<me, signature, waiting, storage, sending>>

\* Typing adds to what is shown, and what is shown becomes the text.
Type(w) ==
    /\ Edit
    /\ Editor /\ w \notin shown
    /\ shown' = shown \cup {w}
    /\ panel' = [panel EXCEPT !.text = shown']
    /\ UNCHANGED <<ref, context, waiting, storage, sending>>

Erase(w) ==
    /\ Edit
    /\ Editor /\ w \in shown
    /\ shown' = shown \ {w}
    /\ panel' = [panel EXCEPT !.text = shown']
    /\ UNCHANGED <<ref, context, waiting, storage, sending>>

\* The recipient fields.
SetTo(to) ==
    /\ Edit
    /\ Editor /\ to # panel.to
    /\ panel' = [panel EXCEPT !.to = to]
    /\ UNCHANGED <<shown, ref, context, waiting, storage, sending>>

ToggleEncrypted ==
    /\ Edit
    /\ Editor
    /\ panel' = [panel EXCEPT !.encrypted = ~@]
    /\ UNCHANGED <<shown, ref, context, waiting, storage, sending>>

\* The signature editor saves or removes the signature.
SetSignature(s) ==
    /\ Edit
    /\ Editor /\ s # signature
    /\ signature' = s
    /\ UNCHANGED <<panel, shown, ref, me, threads, waiting, storage, sending>>

\* A minimized panel has no editable element.
Minimize ==
    /\ Edit
    /\ Editor
    /\ panel' = [panel EXCEPT !.minimized = TRUE]
    /\ shown' = {}
    /\ UNCHANGED <<ref, context, waiting, storage, sending>>

\* The expanded panel has a new, empty one; the text has not changed, so no
\* effect copies it.
Expand ==
    /\ Edit
    /\ Bar
    /\ panel' = [panel EXCEPT !.minimized = FALSE]
    /\ shown' = {}
    /\ UNCHANGED <<ref, context, waiting, storage, sending>>

\* Closing saves a message that has content, and does not wait for the answer.
Close ==
    /\ Edit
    /\ panel.open
    /\ IF HasContent
       THEN calls' = calls \cup
              {[kind |-> IF panel.draft = Nothing THEN "create" ELSE "update",
                draft |-> panel.draft]}
       ELSE UNCHANGED calls
    /\ panel' = Cleared(panel) /\ shown' = {}
    /\ UNCHANGED <<ref, context, waiting, drafts, saves, sending>>

Discard ==
    /\ Edit
    /\ Editor
    /\ panel' = Cleared(panel) /\ shown' = {}
    /\ UNCHANGED <<ref, context, waiting, storage, sending>>

-------------------------------------------------------------------------------
(* The draft requests.                                                       *)

\* A draft is stored; the answer, if it arrives, names it to the panel as it
\* is then.
DraftCreated(c) ==
    /\ c.kind = "create" /\ saves < MaxSaves
    /\ calls' = calls \ {c}
    /\ saves' = saves + 1
    /\ drafts' = drafts \cup {saves'}
    /\ panel' \in {panel, [panel EXCEPT !.draft = saves']}
    /\ UNCHANGED <<shown, ref, edits, context, waiting, sending>>

DraftUpdated(c) ==
    /\ c.kind = "update"
    /\ calls' = calls \ {c}
    /\ UNCHANGED <<form, context, waiting, drafts, saves, sending>>

DraftDeleted(c) ==
    /\ c.kind = "delete"
    /\ calls' = calls \ {c}
    /\ drafts' = drafts \ {c.draft}
    /\ UNCHANGED <<form, context, waiting, saves, sending>>

\* Errors of draft requests are ignored.
DraftCallFails(c) ==
    /\ calls' = calls \ {c}
    /\ UNCHANGED <<form, context, waiting, drafts, saves, sending>>

-------------------------------------------------------------------------------
(* Sending.                                                                  *)

\* The state as a click on Send finds it.
StateNow ==
    [to |-> panel.to, text |-> panel.text, encrypted |-> panel.encrypted,
     draft |-> panel.draft, ref |-> ref,
     answers |-> IF panel.forward = Nothing THEN panel.reply ELSE Nothing]

\* Mutant: no snapshot is taken while one is pending.
RecordedOnce == IF pending = Nothing THEN Append(snapshot, StateNow) ELSE snapshot

Recorded == Append(snapshot, StateNow)

\* The snapshot of the state, a timer and a toast with Undo; the form is reset.
Send ==
    /\ SendEnabled /\ clicks < MaxSends
    /\ clicks' = clicks + 1
    /\ snapshot' = Recorded
    /\ pending' = clicks'
    /\ timers' = timers \cup {clicks'}
    /\ timer' = clicks'
    /\ toast' = TRUE
    /\ overlap' = LET others == timers \cup {j.by : j \in jobs}
                  IN  IF others = {} THEN overlap
                      ELSE overlap \cup others \cup {clicks'}
    /\ panel' = Cleared(panel) /\ shown' = {}
    /\ UNCHANGED <<ref, edits, context, storage, sending, undone>>

\* Undo clears the timer of the last click and opens the panel.
Undo ==
    /\ toast
    /\ timers' = timers \ {timer}
    /\ undone' = undone \cup {timer}
    /\ toast' = FALSE
    /\ IF panel.open THEN UNCHANGED <<panel, shown>>
       ELSE /\ panel' = SignatureFilled([panel EXCEPT !.open = TRUE])
            /\ shown' = Synced(panel')
    /\ UNCHANGED <<ref, edits, context, clicks, snapshot, pending, timer,
                   overlap, storage, sending>>

\* Another toast takes the place of this one, or it is dismissed.
ToastReplaced ==
    /\ toast
    /\ toast' = FALSE
    /\ UNCHANGED <<form, context, clicks, snapshot, pending, timers, timer,
                   undone, overlap, storage, sending>>

\* a ?? b
OrElse(a, b) == IF a = Nothing THEN b ELSE a

\* What doSend sends when the timer of click n fires: the fields of the pending
\* snapshot; where they are null, those doSend closed over, and for the answered
\* message the ref as it is now.
Origin(n) == OrElse(pending, n)

\* Mutant: the recipients are those the timer closed over.
ResolvedMixed(n) ==
    LET s == snapshot[Origin(n)]
    IN  [to |-> snapshot[n].to, text |-> s.text, encrypted |-> s.encrypted,
         draft |-> OrElse(s.draft, snapshot[n].draft), ref |-> OrElse(s.ref, ref)]

Resolved(n) ==
    LET s == snapshot[Origin(n)]
    IN  [to |-> s.to, text |-> s.text,
         encrypted |-> s.encrypted,
         draft |-> OrElse(s.draft, snapshot[n].draft),
         ref |-> OrElse(s.ref, ref)]

\* doSend deletes the draft first, and then starts to send.
TimerFires(n) ==
    LET r == Resolved(n)
    IN  /\ n \in timers
        /\ timers' = timers \ {n}
        /\ toast' = FALSE
        /\ calls' = IF r.draft = Nothing THEN calls
                    ELSE calls \cup {[kind |-> "delete", draft |-> r.draft]}
        /\ jobs' = jobs \cup
             {[by |-> n, n |-> Origin(n), to |-> r.to, text |-> r.text,
               encrypted |-> r.encrypted, ref |-> r.ref,
               keys |-> {}]}
        /\ UNCHANGED <<form, context, clicks, snapshot, pending, timer, undone,
                       overlap, drafts, saves, posted>>

\* The keys of the recipients are looked up; when the key server cannot be
\* reached the message is encrypted to the sender only.
KeysFor(j) ==
    IF j.encrypted THEN {{Me}, {Me} \cup j.to} ELSE {{}}

\* Mutant: the form is reset when the send has ended.
SendEndsClearing(j) ==
    /\ jobs' = jobs \ {j}
    /\ \/ \E keys \in KeysFor(j) : posted' = posted \cup {[j EXCEPT !.keys = keys]}
       \/ UNCHANGED posted
    /\ pending' = Nothing
    /\ toast' = FALSE
    /\ panel' = Cleared(panel) /\ shown' = {}
    /\ UNCHANGED <<ref, edits, context, clicks, snapshot, timers, timer, undone,
                   overlap, storage>>

\* A send ends, posted or not, with a toast and without a pending snapshot; the
\* files are uploaded before, and an upload that fails is not reported.
SendEnds(j) ==
    /\ jobs' = jobs \ {j}
    /\ \/ \E keys \in KeysFor(j) : posted' = posted \cup {[j EXCEPT !.keys = keys]}
       \/ UNCHANGED posted
    /\ pending' = Nothing
    /\ toast' = FALSE
    /\ UNCHANGED <<form, context, clicks, snapshot, timers, timer, undone,
                   overlap, storage>>

-------------------------------------------------------------------------------
ComposeNext ==
    \/ AccountArrives \/ OpenNew
    \/ \E t \in Threads : OpenReply(t) \/ OpenForward(t)
    \/ \E ts \in SUBSET Threads : Refresh(ts)
    \/ \E w \in Words : Type(w)
    \/ \E w \in Pieces : Erase(w)
    \/ \E to \in SUBSET (People \ {Me}) : SetTo(to)
    \/ ToggleEncrypted
    \/ \E s \in BOOLEAN : SetSignature(s)
    \/ Minimize \/ Expand \/ Close \/ Discard
    \/ \E c \in calls : DraftCreated(c) \/ DraftUpdated(c) \/ DraftDeleted(c)
                        \/ DraftCallFails(c)
    \/ Send \/ Undo \/ ToastReplaced
    \/ \E n \in timers : TimerFires(n)
    \/ \E j \in jobs : SendEnds(j)

ComposeSpec == ComposeInit /\ [][ComposeNext]_composeVars

-------------------------------------------------------------------------------
(* Properties.                                                               *)

\* The types of the variables, and what is shown is no more than a text.
ComposeTypeOK ==
    /\ panel \in Panel /\ shown \in SUBSET Pieces /\ ref \in Thread
    /\ me \in BOOLEAN /\ threads \in SUBSET Threads /\ signature \in BOOLEAN
    /\ clicks \in 0 .. MaxSends /\ snapshot \in Seq(Snapshot)
    /\ Len(snapshot) = clicks
    /\ pending \in (1 .. clicks) \cup {Nothing}
    /\ timers \in SUBSET (1 .. clicks)
    /\ timer \in (1 .. clicks) \cup {Nothing} /\ toast \in BOOLEAN
    /\ calls \in SUBSET Call /\ saves \in 0 .. MaxSaves
    /\ drafts \in SUBSET DraftIds
    /\ edits \in 0 .. MaxEdits /\ jobs \in SUBSET Message /\ posted \in SUBSET Message
    /\ undone \in SUBSET (1 .. clicks) /\ overlap \in SUBSET (1 .. clicks)

\* However many sends wait at once, with whatever the user writes meanwhile, a
\* message that is posted is one somebody composed: its recipients, text and
\* encryption are those of a single click on Send, never a mixture, and it
\* is encrypted to nobody but these recipients and the sender.
SentWhole ==
    \A m \in jobs \cup posted :
        LET s == snapshot[m.n]
        IN  /\ m.to = s.to /\ m.text = s.text
            /\ m.encrypted = s.encrypted
            /\ m.to # {}
            /\ m.keys \subseteq s.to \cup {Me}

\* A send that no other overlaps posts the message of its own click, and nothing
\* once it has been undone: the timer, the toast and the pending snapshot are of
\* one click then.
SentExact ==
    \A m \in posted : m.by \notin overlap => m.n = m.by /\ m.by \notin undone

\* A message composed as an answer is posted as an answer to the thread it was
\* composed for, whatever panel is open when its timer fires.
AnswersRefer ==
    \A m \in posted :
        snapshot[m.n].answers # Nothing => m.ref = snapshot[m.n].answers

\* What is posted is what was composed.
SentIsComposed == SentWhole /\ SentExact /\ AnswersRefer

\* Nothing that happens by itself changes a message that is neither an answer
\* nor forwarded while it is written: no reload, no answer of the server to an
\* earlier message, no timer.
Background ==
    \/ AccountArrives \/ \E ts \in SUBSET Threads : Refresh(ts)
    \/ \E c \in calls : DraftCreated(c) \/ DraftUpdated(c) \/ DraftDeleted(c)
                        \/ DraftCallFails(c)
    \/ \E n \in timers : TimerFires(n)
    \/ \E j \in jobs : SendEnds(j)

WrittenIsKept ==
    [][Background /\ panel.reply = Nothing /\ panel.forward = Nothing
        => /\ panel'.to = panel.to /\ panel'.text = panel.text
           /\ shown' = shown]_composeVars

-------------------------------------------------------------------------------
(* The invariant that the properties follow from.                            *)

\* An answer refers to the thread it answers, and a closed panel answers nothing.
FormRefers ==
    /\ ~panel.open => panel.reply = Nothing /\ panel.forward = Nothing
    /\ panel.reply # Nothing /\ panel.forward = Nothing => ref = panel.reply

\* What a click saw has a recipient and refers to the thread it answers.
SnapshotsRefer ==
    \A n \in 1 .. clicks :
        /\ snapshot[n].to # {}
        /\ snapshot[n].answers # Nothing => snapshot[n].ref = snapshot[n].answers

\* A timer that runs was not undone, and meets no snapshot of another click unless the
\* two overlap; an Undo that is offered is of a click that was not sent yet.
TimersOK ==
    /\ timers \cap undone = {}
    /\ \A n \in timers \ overlap : pending \in {n, Nothing}
    /\ toast => timer \in 1 .. clicks /\ \A m \in jobs \cup posted : m.by # timer

\* SentExact and AnswersRefer, from the moment a timer has fired.
MessagesOK ==
    \A m \in jobs \cup posted :
        /\ m.by \in 1 .. clicks /\ m.n \in 1 .. clicks
        /\ m.by \notin undone
        /\ m.by \notin overlap => m.n = m.by
        /\ snapshot[m.n].answers # Nothing => m.ref = snapshot[m.n].answers

ComposeInv ==
    ComposeTypeOK /\ SentWhole /\ FormRefers /\ SnapshotsRefer /\ TimersOK /\ MessagesOK
===============================================================================
