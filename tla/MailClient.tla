------------------------------- MODULE MailClient -------------------------------
(* The mailbox page of the mail application: the store (store/mail.ts), the  *)
(* loading of pages (hooks/useMailboxData.ts), the event stream with polling *)
(* as its fallback (hooks/useInboxEvents.ts) and the optimistic actions of   *)
(* the page (App.tsx). Requests are answered late and in any order, and no   *)
(* answer is compared with what the page has come to show meanwhile.         *)
(*                                                                           *)
(* A thread stands for its messages; "read" is its one flag (a star takes    *)
(* the same way as read, without the effect). A thread's number is its age:  *)
(* pages are ordered by the time of creation. One action is one event of the *)
(* page, with the effects of the render it causes, or one of the server.     *)
EXTENDS Naturals, FiniteSets, Sequences

CONSTANTS
    MaxThread,   \* threads are numbered by creation
    Labels,      \* labels of the mailbox
    Inbox,       \* the label new threads have
    PageSize,    \* threads per page
    Slots,       \* bound: requests under way
    Nothing,     \* null
    MaxClicks,   \* bound: actions of the user
    MaxEvents    \* bound: changes on the server, of the stream, and errors

ASSUME ClientAssumption ==
    /\ MaxThread \in Nat /\ PageSize \in Nat \ {0}
    /\ Inbox \in Labels
    /\ Nothing \notin Nat \cup Labels
    /\ Slots \subseteq Nat /\ IsFiniteSet(Slots)
    /\ MaxClicks \in Nat /\ MaxEvents \in Nat

Threads == 1 .. MaxThread
Place   == Labels \cup {Nothing}

VARIABLES
    mailbox,      \* the server: label and read flag of each thread
    label,        \* activeLabel
    list,         \* threads: copies, with the label they were asked for
    cursor, hasMore,
    loading, loadingMore,
    active,       \* activeThreadId
    connected,    \* the event stream is open
    request,      \* the requests under way
    clicks, events,
    crossed       \* a label was left with a request under way (history)

vars == <<mailbox, label, list, cursor, hasMore, loading, loadingMore, active,
          connected, request, clicks, events, crossed>>

Copy == [id: Threads, of: Labels, read: BOOLEAN]

Idle == [kind |-> "idle"]

Ids(seq) == {seq[i].id : i \in DOMAIN seq}

Init ==
    /\ mailbox \in [Threads -> [label: {Inbox, Nothing}, read: {FALSE}]]
    /\ label = Inbox /\ list = <<>> /\ cursor = Nothing /\ hasMore = FALSE
    /\ loading = FALSE /\ loadingMore = FALSE
    /\ active = Nothing /\ connected = FALSE
    /\ request = [s \in Slots |-> Idle]
    /\ clicks = 0 /\ events = 0 /\ crossed = FALSE

-------------------------------------------------------------------------------
(* The mailbox service, as getMailbox asks it (store/thread.go).             *)

\* The threads of label l created before c, the newest first.
Older(l, c) ==
    {t \in Threads : mailbox[t].label = l /\ (c = Nothing \/ t < c)}

\* The k-th number of S.
Nth(S, k) == CHOOSE n \in S : Cardinality({m \in S : m < n}) = k - 1

\* The first PageSize of the threads.
PageIds(older) ==
    LET size == Cardinality(older)
    IN  [k \in 1 .. IF size > PageSize THEN PageSize ELSE size |-> Nth(older, size + 1 - k)]

PageOf(l, ids, next, more) ==
    [threads |-> [i \in DOMAIN ids |->
                    [id |-> ids[i], of |-> l, read |-> mailbox[ids[i]].read]],
     next    |-> next,
     more    |-> more]

\* Mutant: the cursor of the last page is zero, not null.
PageZero(l, c) ==
    LET ids  == PageIds(Older(l, c))
        more == Cardinality(Older(l, c)) > PageSize
    IN  PageOf(l, ids, IF more THEN ids[PageSize] ELSE 0, more)

Page(l, c) ==
    LET ids  == PageIds(Older(l, c))
        more == Cardinality(Older(l, c)) > PageSize
    IN  PageOf(l, ids, IF more THEN ids[PageSize] ELSE Nothing, more)

-------------------------------------------------------------------------------
(* The requests of the page.                                                 *)

Free == {s \in Slots : request[s].kind = "idle"}

\* req takes the first free slot of r.
Sent(r, req) ==
    LET free  == {s \in Slots : r[s].kind = "idle"}
        first == CHOOSE s \in free : \A u \in free : s <= u
    IN  [r EXCEPT ![first] = req]

Load(l) ==
    [kind |-> "load", served |-> FALSE, label |-> l, cursor |-> Nothing, page |-> Nothing]
More(l, c) ==
    [kind |-> "more", served |-> FALSE, label |-> l, cursor |-> c, page |-> Nothing]
Update(t, b, by) ==
    [kind |-> "update", served |-> FALSE, thread |-> t, read |-> b, by |-> by]
Move(t, l, b) ==
    [kind |-> "move", served |-> FALSE, thread |-> t, to |-> l, label |-> b]

\* patchThread: the copy of t becomes read or unread.
Patched(seq, t, b) ==
    [i \in DOMAIN seq |-> IF seq[i].id = t THEN [seq[i] EXCEPT !.read = b] ELSE seq[i]]

\* Mutant: a page is appended as it is.
AppendedAll(seq, new) == seq \o new

\* The members of seq at the places P, as filter leaves them (SelectSeq, in a form that
\* can be reasoned about).
Filtered(seq, P) == [k \in 1 .. Cardinality(P) |-> seq[Nth(P, k)]]

\* appendThreads leaves out the threads that are there.
Appended(seq, new) ==
    seq \o Filtered(new, {i \in DOMAIN new : new[i].id \notin Ids(seq)})

\* removeThread also closes the thread.
Removed(seq, t) == Filtered(seq, {i \in DOMAIN seq : seq[i].id # t})

\* The effect that marks the open thread as read: it depends on the copy in the
\* list, and runs after every change of it.
OpenUnread(seq, a) == \E i \in DOMAIN seq : seq[i].id = a /\ ~seq[i].read

\* The list becomes seq, the open thread a, the requests r; the effect follows.
Render(seq, a, r) ==
    /\ active' = a
    /\ IF OpenUnread(seq, a)
       THEN /\ \E s \in Slots : r[s].kind = "idle"
            /\ list' = Patched(seq, a, TRUE)
            /\ request' = Sent(r, Update(a, TRUE, "effect"))
       ELSE list' = seq /\ request' = r

Click == clicks < MaxClicks /\ clicks' = clicks + 1
Event == events < MaxEvents /\ events' = events + 1

-------------------------------------------------------------------------------
(* Loading.                                                                  *)

\* Mutant: the label is that of the first render.
ReloadFirst ==
    /\ Free # {}
    /\ loading' = TRUE
    /\ request' = Sent(request, Load(Inbox))
    /\ UNCHANGED <<mailbox, label, list, cursor, hasMore, loadingMore, active,
                   connected, crossed>>

\* loadMailbox(activeLabel): the button, an event, the polling timer.
Reload ==
    /\ Free # {}
    /\ loading' = TRUE
    /\ request' = Sent(request, Load(label))
    /\ UNCHANGED <<mailbox, label, list, cursor, hasMore, loadingMore, active,
                   connected, crossed>>

RefreshClicked == Click /\ Reload /\ UNCHANGED events

\* An event of the stream.
EventArrives == connected /\ Event /\ Reload /\ UNCHANGED clicks

\* Every fifteen seconds while the stream is not open; a load that is not
\* answered before the next is left out.
Poll ==
    /\ ~connected
    /\ \A s \in Slots : request[s].kind = "load" => request[s].label # label
    /\ Reload
    /\ UNCHANGED <<clicks, events>>

\* loadMore needs a cursor, and no other loadMore under way.
LoadMore ==
    /\ Click
    /\ hasMore /\ cursor # Nothing /\ ~loadingMore /\ Free # {}
    /\ loadingMore' = TRUE
    /\ request' = Sent(request, More(label, cursor))
    /\ UNCHANGED <<mailbox, label, list, cursor, hasMore, loading, active,
                   connected, events, crossed>>

\* The answer of a load replaces the list, whatever label is active now.
LoadAnswered(s) ==
    LET a == request[s].page
    IN  /\ request[s].kind = "load" /\ request[s].served
        /\ loading' = FALSE
        /\ Render(a.threads, active, [request EXCEPT ![s] = Idle])
        /\ cursor' = a.next /\ hasMore' = a.more
        /\ UNCHANGED <<mailbox, label, loadingMore, connected, clicks, events,
                       crossed>>

LoadFails(s) ==
    /\ Event
    /\ request[s].kind = "load"
    /\ loading' = FALSE
    /\ request' = [request EXCEPT ![s] = Idle]
    /\ UNCHANGED <<mailbox, label, list, cursor, hasMore, loadingMore, active,
                   connected, clicks, crossed>>

\* The answer of loadMore is appended.
MoreAnswered(s) ==
    LET a == request[s].page
    IN  /\ request[s].kind = "more" /\ request[s].served
        /\ loadingMore' = FALSE
        /\ Render(Appended(list, a.threads), active, [request EXCEPT ![s] = Idle])
        /\ cursor' = a.next /\ hasMore' = a.more
        /\ UNCHANGED <<mailbox, label, loading, connected, clicks, events, crossed>>

MoreFails(s) ==
    /\ Event
    /\ request[s].kind = "more"
    /\ loadingMore' = FALSE
    /\ request' = [request EXCEPT ![s] = Idle]
    /\ UNCHANGED <<mailbox, label, list, cursor, hasMore, loading, active,
                   connected, clicks, crossed>>

-------------------------------------------------------------------------------
(* The actions of the user.                                                  *)

\* setActiveLabel clears the list; the effect that loads the label runs if it is
\* another one. The stream is opened again: its effect depends on the label.
ShowLabel(l) ==
    /\ label' = l
    /\ list' = <<>> /\ cursor' = Nothing /\ hasMore' = FALSE /\ active' = Nothing
    /\ IF l = label
       THEN UNCHANGED <<loading, request, connected, crossed>>
       ELSE /\ Free # {}
            /\ loading' = TRUE
            /\ request' = Sent(request, Load(l))
            /\ connected' = FALSE
            /\ crossed' = (crossed \/ \E s \in Slots :
                                request[s].kind \in {"load", "more", "move"})
    /\ UNCHANGED <<mailbox, loadingMore, events>>

SetLabel(l) == Click /\ ShowLabel(l)

\* A thread is opened from the list, or closed.
Open(t) ==
    /\ Click
    /\ t \in Ids(list) \cup {Nothing} /\ t # active
    /\ Render(list, t, request)
    /\ UNCHANGED <<mailbox, label, cursor, hasMore, loading, loadingMore,
                   connected, events, crossed>>

\* A result of the search is opened: of a thread in the list the label is shown,
\* which closes the thread again.
SelectResult(t) ==
    /\ Click
    /\ IF t \in Ids(list)
       THEN \E i \in DOMAIN list : list[i].id = t /\ ShowLabel(list[i].of)
       ELSE /\ active' = t
            /\ UNCHANGED <<mailbox, label, list, cursor, hasMore, loading,
                           loadingMore, connected, request, events, crossed>>

\* The Read button of the open thread: mutateThreadMessages changes the copy,
\* sends the update, and the effect sees an unread thread that is open.
ToggleRead ==
    /\ Click
    /\ active \in Ids(list)
    /\ Cardinality(Free) > 1
    /\ LET read == \E i \in DOMAIN list : list[i].id = active /\ list[i].read
       IN  Render(Patched(list, active, ~read), active,
                  Sent(request, Update(active, ~read, "user")))
    /\ UNCHANGED <<mailbox, label, cursor, hasMore, loading, loadingMore,
                   connected, events, crossed>>

\* Archive and Trash: moveThread removes the copy and sends the move.
MoveOpen(l) ==
    /\ Click
    /\ active \in Ids(list) /\ Free # {}
    /\ list' = Removed(list, active) /\ active' = Nothing
    /\ request' = Sent(request, Move(active, l, label))
    /\ UNCHANGED <<mailbox, label, cursor, hasMore, loading, loadingMore,
                   connected, events, crossed>>

\* An update or a move that the server took needs nothing else.
Answered(s) ==
    /\ request[s].kind \in {"update", "move"} /\ request[s].served
    /\ request' = [request EXCEPT ![s] = Idle]
    /\ UNCHANGED <<mailbox, label, list, cursor, hasMore, loading, loadingMore,
                   active, connected, clicks, events, crossed>>

\* A failed update of the user puts the copy back as it was; one of the effect
\* is not looked at. Either may have been taken all the same.
UpdateFails(s) ==
    /\ Event
    /\ request[s].kind = "update"
    /\ IF request[s].by = "user"
       THEN Render(Patched(list, request[s].thread, ~request[s].read), active,
                   [request EXCEPT ![s] = Idle])
       ELSE /\ request' = [request EXCEPT ![s] = Idle]
            /\ UNCHANGED <<list, active>>
    /\ UNCHANGED <<mailbox, label, cursor, hasMore, loading, loadingMore,
                   connected, clicks, crossed>>

\* A failed move loads the label that was active when it was asked for.
MoveFails(s) ==
    /\ Event
    /\ request[s].kind = "move"
    /\ loading' = TRUE
    /\ request' = [request EXCEPT ![s] = Load(request[s].label)]
    /\ UNCHANGED <<mailbox, label, list, cursor, hasMore, loadingMore, active,
                   connected, clicks, crossed>>

-------------------------------------------------------------------------------
(* The server and the stream.                                                *)

\* The server takes a request.
Serve(s) ==
    LET q == request[s]
    IN  /\ q.kind # "idle" /\ ~q.served
        /\ CASE q.kind = "update" ->
                  /\ mailbox' = [mailbox EXCEPT ![q.thread].read = q.read]
                  /\ request' = [request EXCEPT ![s].served = TRUE]
             [] q.kind = "move" ->
                  /\ mailbox' = [mailbox EXCEPT ![q.thread].label = q.to]
                  /\ request' = [request EXCEPT ![s].served = TRUE]
             [] OTHER ->
                  /\ request' = [request EXCEPT ![s].served = TRUE,
                                                 ![s].page = Page(q.label, q.cursor)]
                  /\ UNCHANGED mailbox
        /\ UNCHANGED <<label, list, cursor, hasMore, loading, loadingMore, active,
                       connected, clicks, events, crossed>>

\* A message arrives, in a new thread or in one of the inbox.
MailArrives(t) ==
    /\ Event
    /\ mailbox[t].label \in {Nothing, Inbox}
    /\ mailbox' = [mailbox EXCEPT ![t] = [label |-> Inbox, read |-> FALSE]]
    /\ UNCHANGED <<label, list, cursor, hasMore, loading, loadingMore, active,
                   connected, request, clicks, crossed>>

StreamOpens ==
    /\ ~connected /\ Event
    /\ connected' = TRUE
    /\ UNCHANGED <<mailbox, label, list, cursor, hasMore, loading, loadingMore,
                   active, request, clicks, crossed>>

StreamFails ==
    /\ connected
    /\ connected' = FALSE
    /\ UNCHANGED <<mailbox, label, list, cursor, hasMore, loading, loadingMore,
                   active, request, clicks, events, crossed>>
-------------------------------------------------------------------------------
Next ==
    \/ RefreshClicked \/ EventArrives \/ Poll \/ LoadMore
    \/ \E l \in Labels : SetLabel(l) \/ MoveOpen(l)
    \/ \E t \in Threads \cup {Nothing} : Open(t)
    \/ \E t \in Threads : SelectResult(t) \/ MailArrives(t)
    \/ ToggleRead \/ StreamOpens \/ StreamFails
    \/ \E s \in Slots :
          \/ Serve(s) \/ LoadAnswered(s) \/ MoreAnswered(s) \/ Answered(s)
          \/ LoadFails(s) \/ MoreFails(s) \/ UpdateFails(s) \/ MoveFails(s)

Spec == Init /\ [][Next]_vars

\* The timer of the polling fires, the server answers, and the page handles the
\* answers.
FairSpec ==
    /\ Spec /\ WF_vars(Poll)
    /\ \A s \in Slots :
          /\ WF_vars(Serve(s)) /\ WF_vars(Answered(s))
          /\ WF_vars(LoadAnswered(s)) /\ WF_vars(MoreAnswered(s))

-------------------------------------------------------------------------------
(* Properties.                                                               *)

\* The types of the variables.
TypeOK ==
    /\ mailbox \in [Threads -> [label: Place, read: BOOLEAN]]
    /\ label \in Labels /\ list \in Seq(Copy)
    /\ cursor \in Threads \cup {Nothing} /\ active \in Threads \cup {Nothing}
    /\ {hasMore, loading, loadingMore, connected, crossed} \subseteq BOOLEAN
    /\ DOMAIN request = Slots
    /\ clicks \in 0 .. MaxClicks /\ events \in 0 .. MaxEvents

\* A thread is in the list once, though a page may be loaded after the threads
\* before it have moved, and a reload may come between a page and its answer.
NoDuplicates == Cardinality(Ids(list)) = Len(list)

\* The list holds threads of the label the page shows, unless the user left
\* another label while a request of it was under way: late answers, the load
\* after a failed move and the polling are otherwise all of this label.
ListIsOfLabel == ~crossed => \A i \in DOMAIN list : list[i].of = label

\* The skeletons and the "Loading more" are shown only while a request is under
\* way that will end them, in whatever order loads are answered or fail; and at
\* most one loadMore is.
SpinnersEnd ==
    /\ loading => \E s \in Slots : request[s].kind = "load"
    /\ IF loadingMore
       THEN Cardinality({s \in Slots : request[s].kind = "more"}) = 1
       ELSE \A s \in Slots : request[s].kind # "more"

\* The list and the signs of loading agree with what is shown and asked for.
PageAgrees == NoDuplicates /\ ListIsOfLabel /\ SpinnersEnd

\* With the stream gone for good the polling makes the page right in the end:
\* after every optimistic change, failed or not, every late answer and every
\* label left in between, the list becomes the first page of its label as the
\* server has it.
Converges ==
    <>[]~connected => <>[](list = Page(label, Nothing).threads)
===============================================================================
