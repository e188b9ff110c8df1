------------------------------- MODULE MailReader -------------------------------
(* The reading interface of the mail application in three panes: the sidebar   *)
(* with its labels, the list of a label with its bulk actions, the thread that *)
(* is open with its actions and its reply. No route mounts these components    *)
(* yet, App.tsx has a list and a reading pane of its own (MailClient).         *)
(* Almost every handler closes over the threads of the page as they were when  *)
(* it was rendered, and puts them back, changed, when its request is answered. *)
(*                                                                             *)
(* A thread has one message, to which replies are added; its number is its     *)
(* age. The list is loaded when the page is opened, as MailClient models it.   *)
EXTENDS Naturals, FiniteSets, Sequences, SequencesExt

CONSTANTS
    Conversations,    \* numbers, the newest thread has the greatest
    ReaderLabels,     \* places of a thread
    FirstLabel,       \* the label that is shown first
    ReaderPage,       \* threads of a page of the list
    MaxReads          \* bound: actions of the user

ASSUME ReaderAssumption ==
    /\ Conversations \subseteq Nat \ {0} /\ IsFiniteSet(Conversations) /\ FirstLabel \in ReaderLabels
    /\ ReaderPage \in Nat \ {0} /\ MaxReads \in Nat

VARIABLES
    readerPart,       \* "threads" or "labels": one of them is used in a behaviour
    mailbox,          \* the server: thread -> [id, place, read, star, length]
    shownLabel,
    threads,          \* the threads of the store, in its order
    cursorAt, moreRows,
    refreshing,       \* the list is covered by its skeleton
    openThread,       \* activeThreadId, or 0
    replyOpen,
    ticks,            \* selectedIds
    leaving,          \* threads whose five seconds run: [n, row, to]
    undoOf,           \* the deletion whose Undo the message at the foot has, or none
    wires,            \* requests under way
    userLabels, labelsThere,        \* the labels of the page, and of the server
    labelNamed, creating,           \* the dialog has a name; its button is barred
    labelWires,       \* requests of the dialog: [n, kind, of, kept, served]
    reads,
    follows,          \* the list goes on where its cursor is (history)
    replaced          \* two things met that each replace the list (history)

listVars == <<threads, cursorAt, moreRows>>
threadVars == <<mailbox, shownLabel, listVars, refreshing, openThread, replyOpen,
                ticks, leaving, undoOf, wires, follows>>
labelVars  == <<userLabels, labelsThere, labelNamed, creating, labelWires>>
readerVars == <<readerPart, threadVars, labelVars, reads, replaced>>

IdsIn(s) == {s[i].id : i \in DOMAIN s}

\* The k-th number of a set, and the members of s at the places P in their order (sorting
\* and SelectSeq, in a form that can be reasoned about).
NthIn(S, k) == CHOOSE n \in S : Cardinality({m \in S : m < n}) = k - 1
Chosen(s, P) == [k \in 1 .. Cardinality(P) |-> s[NthIn(P, k)]]

\* The first page of label l below cursor c, newest first, and whether there is more.
PageOf(l, c) ==
    LET all  == {t \in Conversations : mailbox[t].place = l /\ (c = 0 \/ t < c)}
        page == {t \in all : Cardinality({u \in all : u > t}) < ReaderPage}
        size == Cardinality(page)
    IN [rows |-> [k \in 1 .. size |-> mailbox[NthIn(page, size + 1 - k)]], more |-> page # all,
        cursor |-> IF page = all THEN 0 ELSE NthIn(page, 1)]

ReaderInit ==
    /\ readerPart \in {"threads", "labels"}
    /\ \E place \in [Conversations -> ReaderLabels] :
          mailbox = [t \in Conversations |->
                        [id |-> t, place |-> place[t], read |-> FALSE, star |-> FALSE,
                         length |-> 1]]
    /\ shownLabel = FirstLabel /\ threads = PageOf(FirstLabel, 0).rows
    /\ cursorAt = PageOf(FirstLabel, 0).cursor /\ moreRows = PageOf(FirstLabel, 0).more
    /\ refreshing = FALSE /\ openThread = 0 /\ replyOpen = FALSE /\ ticks = {}
    /\ leaving = {} /\ undoOf = {} /\ wires = {} /\ follows = TRUE
    /\ userLabels = {1} /\ labelsThere = {1} /\ labelNamed = FALSE /\ creating = FALSE
    /\ labelWires = {} /\ reads = 0 /\ replaced = FALSE

ReadAct(p) == readerPart = p /\ readerPart' = p /\ reads < MaxReads /\ reads' = reads + 1

-------------------------------------------------------------------------------
(* The list and the thread that is open.                                       *)

\* The rows of the label; the other threads of the store are not shown.
RowsShown == Chosen(threads, {i \in DOMAIN threads : threads[i].place = shownLabel})

CountForLabel(l) ==
    Cardinality({i \in DOMAIN threads : threads[i].place = l /\ ~threads[i].read})

\* The thread that is read, if the store still has it.
Viewed == {t \in IdsIn(threads) : t = openThread}
ViewedRow == CHOOSE e \in ToSet(threads) : e.id = openThread

\* The store has rows s and thread t open, while the requests w are under way. The reply
\* is gone with the thread it is below, and its request is for nobody.
Holds(s, t, w) ==
    /\ threads' = s /\ openThread' = t
    /\ wires' = {[r EXCEPT !.mine = @ /\ t \in IdsIn(s)] : r \in w}

RowsWithout(s, ts) == Chosen(s, {i \in DOMAIN s : s[i].id \notin ts})

\* What a request makes of a thread, on the server and in the copy of the page.
Altered(kind, to, e) ==
    CASE kind \in {"move", "late", "label"} -> [e EXCEPT !.place = to]
      [] kind = "read"  -> [e EXCEPT !.read = to]
      [] kind = "star"  -> [e EXCEPT !.star = to]
      [] kind = "reply" -> [e EXCEPT !.length = @ + 1]
      [] OTHER -> e

\* The rows in which the threads ts are altered.
Remade(kind, to, ts) ==
    [i \in DOMAIN threads |-> IF threads[i].id \in ts THEN Altered(kind, to, threads[i])
                                                      ELSE threads[i]]

\* A request for the threads ts: "next" is what its closure makes of the rows.
Wire(kind, to, ts, next) ==
    [n |-> reads', kind |-> kind, to |-> to, ids |-> ts, next |-> next, at |-> cursorAt,
     closes |-> FALSE, clears |-> FALSE, mine |-> TRUE, served |-> FALSE,
     got |-> [rows |-> <<>>, more |-> FALSE, cursor |-> 0]]

\* It is sent, and the page stays as it is.
Wired(r) ==
    /\ wires' = wires \cup {r}
    /\ UNCHANGED <<labelVars, mailbox, shownLabel, listVars, openThread, replyOpen,
                   ticks, leaving, undoOf>>

\* Closures meet when one is made while another is to be used; and rows that are moved to
\* the label they are of go from the page only.
Meeting == replaced' = (replaced \/ wires # {})
MovingTo(l) == replaced' = (replaced \/ wires # {} \/ l = shownLabel)

-------------------------------------------------------------------------------
(* The sidebar and the list.                                                   *)

\* The threads are dropped, and whoever shows the label loads them.
ShowLabel(l) ==
    /\ ReadAct("threads")
    /\ shownLabel' = l /\ cursorAt' = 0 /\ moreRows' = FALSE /\ ticks' = {} /\ follows' = FALSE
    /\ Holds(<<>>, 0, wires)
    /\ replaced' = (wires # {} \/ leaving # {})
    /\ UNCHANGED <<labelVars, mailbox, refreshing, replyOpen, leaving, undoOf>>

OpenRow(t) ==
    /\ ReadAct("threads") /\ ~refreshing /\ t \in IdsIn(RowsShown)
    /\ Holds(threads, t, wires)
    /\ UNCHANGED <<labelVars, mailbox, shownLabel, cursorAt, moreRows, refreshing, replyOpen,
                   ticks, leaving, undoOf, follows, replaced>>

TickRow(t) ==
    /\ ReadAct("threads") /\ ~refreshing /\ t \in IdsIn(RowsShown)
    /\ ticks' = IF t \in ticks THEN ticks \ {t} ELSE ticks \cup {t}
    /\ UNCHANGED <<labelVars, mailbox, shownLabel, listVars, refreshing, openThread,
                   replyOpen, leaving, undoOf, wires, follows, replaced>>

\* All are ticked when as many are as there are rows.
TickAll ==
    /\ ReadAct("threads")
    /\ ticks' = IF RowsShown # <<>> /\ Cardinality(ticks) = Len(RowsShown)
                THEN {} ELSE IdsIn(threads)
    /\ UNCHANGED <<labelVars, mailbox, shownLabel, listVars, refreshing, openThread,
                   replyOpen, leaving, undoOf, wires, follows, replaced>>

\* The bulk actions, on the ticked threads of the store.
BulkMoveTo(l) ==
    /\ ReadAct("threads") /\ ticks # {}
    /\ Wired([Wire("move", l, ticks \cap IdsIn(threads), RowsWithout(threads, ticks))
                EXCEPT !.clears = TRUE])
    /\ MovingTo(l) /\ UNCHANGED <<refreshing, follows>>

BulkFlag(kind) ==
    /\ ReadAct("threads") /\ ticks # {}
    /\ Wired([Wire(kind, TRUE, ticks \cap IdsIn(threads), Remade(kind, TRUE, ticks))
                EXCEPT !.clears = TRUE])
    /\ Meeting /\ UNCHANGED <<refreshing, follows>>

\* The rows stay, though the threads are moved.
BulkApplyLabel(l) ==
    /\ ReadAct("threads") /\ ticks # {}
    /\ Wired([Wire("label", l, ticks \cap IdsIn(threads), <<>>) EXCEPT !.clears = TRUE])
    /\ replaced' = TRUE /\ UNCHANGED <<refreshing, follows>>

MarkAllRead ==
    LET unread == {e.id : e \in {x \in ToSet(RowsShown) : ~x.read}} IN
    /\ ReadAct("threads") /\ unread # {}
    /\ Wired(Wire("read", TRUE, unread, Remade("read", TRUE, IdsIn(RowsShown))))
    /\ Meeting /\ UNCHANGED <<refreshing, follows>>

\* The message that there are none takes the place of an Undo.
NoneUnread ==
    /\ ReadAct("threads") /\ \A e \in ToSet(RowsShown) : e.read
    /\ undoOf' = {}
    /\ UNCHANGED <<labelVars, mailbox, shownLabel, listVars, refreshing, openThread,
                   replyOpen, ticks, leaving, wires, follows, replaced>>

\* The first page alone replaces the rows, and the cursor stays where it was.
RefreshRows ==
    /\ ReadAct("threads")
    /\ refreshing' = TRUE /\ follows' = FALSE
    /\ Wired(Wire("refresh", shownLabel, {}, <<>>))
    /\ replaced' = (replaced \/ wires # {} \/ leaving # {})

\* The end of the list comes into sight. After a refresh the page below the cursor may
\* hold a row that is leaving.
FetchMore ==
    /\ readerPart = "threads" /\ RowsShown # <<>> /\ ~refreshing
    /\ moreRows /\ cursorAt # 0 /\ ~\E r \in wires : r.kind = "more"
    /\ UNCHANGED <<reads, readerPart>>
    /\ Wired(Wire("more", shownLabel, {}, <<>>))
    /\ replaced' = (replaced \/ wires # {} \/ (leaving # {} /\ ~follows))
    /\ UNCHANGED <<refreshing, follows>>

-------------------------------------------------------------------------------
(* The thread that is open.                                                    *)

BackToRows ==
    /\ ReadAct("threads") /\ Viewed # {}
    /\ Holds(threads, 0, wires)
    /\ UNCHANGED <<labelVars, mailbox, shownLabel, cursorAt, moreRows, refreshing, replyOpen,
                   ticks, leaving, undoOf, follows, replaced>>

\* Archive and Delete: the row goes, and the request waits for five seconds.
Leave5(l) ==
    /\ ReadAct("threads") /\ Viewed # {}
    /\ undoOf' = {[n |-> reads', row |-> ViewedRow, to |-> l]}
    /\ leaving' = leaving \cup undoOf'
    /\ Holds(RowsWithout(threads, Viewed), 0, wires)
    /\ MovingTo(l)
    /\ UNCHANGED <<labelVars, mailbox, shownLabel, cursorAt, moreRows, refreshing, replyOpen,
                   ticks, follows>>

\* Undo puts the row back on top. The message has a countdown that nobody counts down, so
\* it stays, after its Undo and after the request: Undo may come twice, or too late.
UndoLeave ==
    /\ ReadAct("threads")
    /\ \E d \in undoOf :
          /\ leaving' = leaving \ {d}
          /\ Holds(<<d.row>> \o threads, openThread, wires)
          /\ replaced' = (replaced \/ wires # {} \/ d \notin leaving)
    /\ UNCHANGED <<labelVars, mailbox, shownLabel, cursorAt, moreRows, refreshing, replyOpen,
                   ticks, undoOf, follows>>

TimeIsOver(d) ==
    /\ UNCHANGED reads /\ leaving' = leaving \ {d}
    /\ wires' = wires \cup {[Wire("late", d.to, {d.row.id}, <<d.row>>) EXCEPT !.n = d.n]}
    /\ replaced' = (replaced \/ wires # {})
    /\ UNCHANGED <<readerPart, labelVars, mailbox, shownLabel, listVars, refreshing,
                   openThread, replyOpen, ticks, undoOf, follows>>

\* A message of another component takes its place.
MessageHides ==
    /\ undoOf # {}
    /\ undoOf' = {}
    /\ UNCHANGED <<readerPart, labelVars, mailbox, shownLabel, listVars, refreshing,
                   openThread, replyOpen, ticks, leaving, wires, reads, follows, replaced>>

ToggleFlag(kind) ==
    LET to == IF kind = "read" THEN ~ViewedRow.read ELSE ~ViewedRow.star IN
    /\ ReadAct("threads") /\ Viewed # {}
    /\ Wired(Wire(kind, to, Viewed, Remade(kind, to, Viewed)))
    /\ Meeting /\ UNCHANGED <<refreshing, follows>>

\* Move to a label of the user or of the system: the row goes with the answer.
MoveToLabel(l) ==
    /\ ReadAct("threads") /\ Viewed # {}
    /\ Wired([Wire("move", l, Viewed, RowsWithout(threads, Viewed)) EXCEPT !.closes = TRUE])
    /\ MovingTo(l) /\ UNCHANGED <<refreshing, follows>>

\* Its button and its cross; a reply that is opened again is another one.
TurnReply ==
    /\ ReadAct("threads") /\ Viewed # {} /\ replyOpen' = ~replyOpen
    /\ wires' = {[r EXCEPT !.mine = @ /\ ~replyOpen] : r \in wires}
    /\ UNCHANGED <<labelVars, mailbox, shownLabel, listVars, refreshing, openThread,
                   ticks, leaving, undoOf, follows, replaced>>

SendReply ==
    /\ ReadAct("threads") /\ Viewed # {} /\ replyOpen
    /\ ~\E r \in wires : r.kind = "reply" /\ r.mine
    /\ Wired(Wire("reply", TRUE, Viewed, Remade("reply", TRUE, Viewed)))
    /\ Meeting /\ UNCHANGED <<refreshing, follows>>

-------------------------------------------------------------------------------
(* The requests of the list.                                                   *)

ServerAlters(r, ts) ==
    mailbox' = [t \in Conversations |->
                   IF t \in ts THEN Altered(r.kind, r.to, mailbox[t]) ELSE mailbox[t]]

WireServed(r) ==
    /\ ~r.served /\ ServerAlters(r, r.ids)
    /\ wires' = (wires \ {r}) \cup
                {[r EXCEPT !.served = TRUE,
                           !.got = CASE r.kind = "refresh" -> PageOf(r.to, 0)
                                     [] r.kind = "more"    -> PageOf(r.to, r.at)
                                     [] OTHER -> r.got]}
    /\ UNCHANGED <<readerPart, labelVars, shownLabel, listVars, refreshing,
                   openThread, replyOpen, ticks, leaving, undoOf, reads, follows, replaced>>

\* The rows of the closure replace those of the store; a page replaces them, or its new
\* threads are appended to them.
WireAnswered(r) ==
    /\ r.served
    /\ Holds(CASE r.kind \in {"late", "label"} -> threads
               [] r.kind = "refresh" -> r.got.rows
               [] r.kind = "more"    -> threads \o RowsWithout(r.got.rows, IdsIn(threads))
               [] OTHER -> r.next,
             IF r.closes THEN 0 ELSE openThread, wires \ {r})
    /\ cursorAt' = IF r.kind = "more" THEN r.got.cursor ELSE cursorAt
    /\ moreRows' = IF r.kind = "more" THEN r.got.more ELSE moreRows
    /\ refreshing' = (refreshing /\ r.kind # "refresh")
    /\ replyOpen' = (replyOpen /\ r.kind # "reply")
    /\ ticks' = IF r.clears THEN {} ELSE ticks
    /\ undoOf' = IF r.kind \in {"late", "refresh", "more"} THEN undoOf ELSE {}
    /\ UNCHANGED <<readerPart, labelVars, mailbox, shownLabel, leaving, reads, follows, replaced>>

\* A request for several threads fails after some of them were altered. A row whose five
\* seconds are over comes back; the others are as they were.
WireFails(r) ==
    /\ \E ts \in SUBSET r.ids : IF r.served THEN UNCHANGED mailbox ELSE ServerAlters(r, ts)
    /\ Holds(IF r.kind = "late" THEN r.next \o threads ELSE threads, openThread, wires \ {r})
    /\ moreRows' = (moreRows /\ r.kind # "more")
    /\ follows' = (follows /\ r.kind # "more")
    /\ refreshing' = (refreshing /\ r.kind # "refresh")
    /\ undoOf' = IF r.kind \in {"refresh", "more"} THEN undoOf ELSE {}
    /\ replaced' = (replaced \/ mailbox' # mailbox \/ r.served \/ wires # {r})
    /\ UNCHANGED <<readerPart, labelVars, shownLabel, cursorAt, replyOpen, ticks, leaving, reads>>

-------------------------------------------------------------------------------
(* The dialog of the labels.                                                   *)

NameLabel ==
    /\ ReadAct("labels") /\ labelNamed' = ~labelNamed
    /\ UNCHANGED <<threadVars, userLabels, labelsThere, creating, labelWires, replaced>>

\* The button is barred while a label is made, the key is not.
CreateBarred == creating \/ ~labelNamed

LabelAsked(kind, of) ==
    /\ labelWires' = labelWires \cup {[n |-> reads', kind |-> kind, of |-> of,
                                       kept |-> userLabels, served |-> FALSE]}
    /\ replaced' = (replaced \/ labelWires # {})
    /\ UNCHANGED <<threadVars, userLabels, labelsThere, labelNamed>>

CreateLabel ==
    /\ ReadAct("labels") /\ labelNamed
    /\ creating' = TRUE /\ LabelAsked("create", reads' + 1)

DeleteLabel(l) ==
    /\ ReadAct("labels") /\ l \in userLabels
    /\ LabelAsked("delete", l) /\ UNCHANGED creating

LabelChange(r) ==
    labelsThere' = IF r.kind = "create" THEN labelsThere \cup {r.of} ELSE labelsThere \ {r.of}

LabelServed(r) ==
    /\ ~r.served /\ (r.kind = "delete" => r.of \in labelsThere) /\ LabelChange(r)
    /\ labelWires' = (labelWires \ {r}) \cup {[r EXCEPT !.served = TRUE]}
    /\ UNCHANGED <<readerPart, threadVars, userLabels, labelNamed, creating, reads, replaced>>

LabelAnswered(r) ==
    /\ r.served /\ labelWires' = labelWires \ {r}
    /\ userLabels' = IF r.kind = "create" THEN r.kept \cup {r.of} ELSE r.kept \ {r.of}
    /\ labelNamed' = (labelNamed /\ r.kind # "create")
    /\ creating' = (creating /\ r.kind # "create")
    /\ UNCHANGED <<readerPart, threadVars, labelsThere, reads, replaced>>

LabelFails(r) ==
    /\ labelWires' = labelWires \ {r}
    /\ UNCHANGED labelsThere \/ (~r.served /\ LabelChange(r))
    /\ creating' = (creating /\ r.kind # "create")
    /\ replaced' = (replaced \/ r.served \/ labelsThere' # labelsThere)
    /\ UNCHANGED <<readerPart, threadVars, userLabels, labelNamed, reads>>

ReaderNext ==
    \/ \E l \in ReaderLabels : \/ ShowLabel(l)
                               \/ BulkMoveTo(l) \/ BulkApplyLabel(l) \/ Leave5(l) \/ MoveToLabel(l)
    \/ \E t \in Conversations : OpenRow(t) \/ TickRow(t)
    \/ \E kind \in {"read", "star"} : BulkFlag(kind) \/ ToggleFlag(kind)
    \/ TickAll \/ MarkAllRead \/ NoneUnread \/ RefreshRows \/ FetchMore \/ BackToRows
    \/ UndoLeave \/ MessageHides \/ TurnReply \/ SendReply
    \/ \E d \in leaving : TimeIsOver(d)
    \/ \E r \in wires : WireServed(r) \/ WireAnswered(r) \/ WireFails(r)
    \/ NameLabel \/ CreateLabel \/ \E l \in userLabels : DeleteLabel(l)
    \/ \E r \in labelWires : LabelServed(r) \/ LabelAnswered(r) \/ LabelFails(r)

-------------------------------------------------------------------------------
(* Properties.                                                                 *)

\* The types of the variables.
ReaderTypeOK ==
    /\ mailbox \in [Conversations -> [id: Conversations, place: ReaderLabels, read: BOOLEAN,
                                      star: BOOLEAN, length: 1 .. MaxReads + 1]]
    /\ ToSet(threads) \cup {d.row : d \in undoOf} \subseteq
                             [id: Conversations, place: ReaderLabels, read: BOOLEAN,
                              star: BOOLEAN, length: 1 .. MaxReads + 1]
    /\ shownLabel \in ReaderLabels /\ openThread \in Conversations \cup {0}
    /\ cursorAt \in Conversations \cup {0} /\ ticks \subseteq Conversations
    /\ reads \in 0 .. MaxReads
    /\ userLabels \cup labelsThere \subseteq 1 .. MaxReads + 1
    /\ {moreRows, refreshing, replyOpen, labelNamed, creating, follows, replaced} \subseteq BOOLEAN

\* When nothing is under way, the rows are threads of the label as the server has them,
\* each once, all of them once the list has come to its end, and the sidebar counts those
\* that are not read; also after a deletion that was undone, or that failed and came back.
\* Exceptions are the histories of replaced: a handler whose closure was made while a
\* request ran, a bulk move to a label, a request that failed half way, a page fetched
\* after a refresh while a deletion waits, an Undo of a deletion that was undone or sent
\* before; and those of follows: a refresh, which keeps the cursor.
RowsAreOfLabel ==
    wires = {} /\ leaving = {} /\ ~replaced =>
        /\ Cardinality(IdsIn(RowsShown)) = Len(RowsShown)
        /\ \A i \in DOMAIN RowsShown : RowsShown[i] = mailbox[RowsShown[i].id]
        /\ follows /\ ~moreRows =>
              LET there == {t \in Conversations : mailbox[t].place = shownLabel} IN
              /\ there \subseteq IdsIn(RowsShown)
              /\ CountForLabel(shownLabel) = Cardinality({t \in there : ~mailbox[t].read})

\* When nothing is under way, the dialog lists the labels of the server, unless a request
\* was sent beside another or was answered with a failure after it was done; and its button
\* is barred only if it has no name.
LabelsAreListed ==
    labelWires = {} =>
        /\ ~replaced => userLabels = labelsThere
        /\ CreateBarred => ~labelNamed
===============================================================================
