------------------------------ MODULE CalendarApp ------------------------------
(* The calendar application's events (apps/calendar): the load when the page *)
(* opens, the event dialog, a save that goes on step by step after the user  *)
(* has left it, and events moved by dragging, shown at once and put back if  *)
(* the request fails. All of it meets in one list in the store that every    *)
(* answer replaces as a whole.                                               *)
(*                                                                           *)
(* EventDialog.tsx calls two hooks after the return of a closed dialog. A    *)
(* mounted dialog that opens or closes therefore renders another number of   *)
(* hooks, React throws, and the error boundary replaces the page until it is *)
(* loaded again. Only the key n pressed before the session is confirmed has  *)
(* the dialog mounted open. No existing event is ever edited in it.          *)
EXTENDS Naturals, FiniteSets

CONSTANTS
    Old,         \* events on the server when the page is opened
    Virtual,     \* ids of the later instances of series: no event of the server has one
    Later,       \* those instances: of an event, when it starts at a time
    Begun,       \* series that started before the months the page asks for
    Times,       \* times an event can have
    People,      \* addresses to invite
    Samples,     \* ids of the events of data/mock.ts
    MaxNew,      \* bound: events created
    MaxSteps     \* bound: actions of the user

New == 1 .. MaxNew

ASSUME CalendarAssumption ==
    /\ MaxNew \in Nat /\ MaxSteps \in Nat
    /\ Old \cap Samples = {} /\ (Old \cup Samples) \cap New = {}
    /\ Virtual \cap (Old \cup New \cup Samples) = {} /\ Begun \subseteq Old
    /\ Times # {} /\ Later \in [Old \cup New -> [Times -> SUBSET [id: Virtual, time: Times]]]
    \* The id of an instance names its series and its time.
    /\ \A i, j \in Old \cup New : \A t, u \in Times : \A a \in Later[i][t], b \in Later[j][u] :
          a.id = b.id => i = j /\ a = b

Ids == Old \cup New \cup Samples \cup Virtual

VARIABLES
    page,       \* "checking" the session, "ready", "crashed", or gone to sign in
    dialog,     \* the store: the dialog is open
    form,       \* the fields of the dialog
    events,     \* the store: the events that are shown
    server,     \* id, time and people of the stored events
    created,    \* events created so far
    load,       \* the load: "none", "asked", "served" or "done"
    answer,     \* the events a served load carries
    saves,      \* saves under way
    drags,      \* moves under way
    oldSaves,   \* those of pages that were loaded again: nobody waits for them,
    oldDrags,   \* and the server may take them yet
    steps,
    mixed,      \* two requests that set the list were under way together, or
                \* an answer was lost (history)
    shifted     \* series whose first instance was moved since the list came (history)

lateVars == <<oldSaves, oldDrags, shifted>>
calVars  == <<page, dialog, form, events, server, created, load, answer,
              saves, drags, steps, mixed, lateVars>>

Event  == [id: Ids, time: Times]
Record == [id: Old \cup New, time: Times, people: SUBSET People]
Form   == [time: Times, people: SUBSET People, valid: BOOLEAN]

\* A save of the form: "next" is what it asks for next, "todo" whom it still
\* has to invite. A move keeps the list and the event as they were.
Save == [click: 1 .. MaxSteps, next: {"create", "invite", "refresh"},
         id: New \cup {0}, form: Form, todo: SUBSET People]
Drag == [old: Event, time: Times, base: SUBSET Event]

Blank(t) == [time |-> t, people |-> {}, valid |-> TRUE]

\* The rows of an event in the list: the first instance of a series has its id.
EventRows(i, t) == (IF i \in Begun THEN {} ELSE {[id |-> i, time |-> t]}) \cup Later[i][t]

Listed == UNION {EventRows(r.id, r.time) : r \in server}

\* A page that starts: nothing in the store, and the load asked for.
Opened ==
    /\ page' = "checking" /\ dialog' = FALSE /\ form' = Blank(CHOOSE t \in Times : TRUE)
    /\ events' = {} /\ load' = "asked" /\ answer' = {}
    /\ saves' = {} /\ drags' = {} /\ mixed' = FALSE /\ shifted' = {}

CalendarInit ==
    /\ page = "checking" /\ dialog = FALSE /\ form = Blank(CHOOSE t \in Times : TRUE)
    /\ \E t \in Times : server = {[id |-> i, time |-> t, people |-> {}] : i \in Old}
    /\ events = {} /\ created = 0
    /\ load = "asked" /\ answer = {} /\ saves = {} /\ drags = {}
    /\ oldSaves = {} /\ oldDrags = {} /\ steps = 0 /\ mixed = FALSE /\ shifted = {}

Step == steps < MaxSteps /\ steps' = steps + 1

\* Requests whose answers replace the list.
Busy == (IF load \in {"asked", "served"} THEN 1 ELSE 0)
            + Cardinality(saves) + Cardinality(drags)

\* EventDialog is mounted on a page that is ready.
Hooks == page = "ready"

-------------------------------------------------------------------------------
(* The session and the load.                                                 *)

\* requireAuth: the page is shown, with the dialog filled in if it is open
\* already, or left for the sign-in page.
AuthAnswered ==
    /\ page = "checking"
    /\ \E t \in Times :
          \/ page' = "ready" /\ form' = IF dialog THEN Blank(t) ELSE form
          \/ page' = "away" /\ form' = form
    /\ UNCHANGED <<dialog, events, server, created, load, answer, saves,
                   drags, steps, mixed, lateVars>>

LoadServed ==
    /\ load = "asked"
    /\ load' = "served" /\ answer' = Listed
    /\ UNCHANGED <<page, dialog, form, events, server, created, saves,
                   drags, steps, mixed, lateVars>>

\* The list of calendars is new: an effect fills the open dialog in again.
Refilled == IF Hooks /\ dialog THEN \E t \in Times : form' = Blank(t) ELSE form' = form

\* The answer replaces the list. (The load was asked for by the first render,
\* which had no keys yet: texts stay encrypted until a save asks again.)
LoadAnswered ==
    /\ load = "served"
    /\ load' = "done" /\ answer' = {}
    /\ events' = answer
    /\ Refilled
    /\ UNCHANGED <<page, dialog, server, created, saves, drags, steps, mixed, lateVars>>

\* A load that fails shows the sample events.
LoadFails ==
    /\ load \in {"asked", "served"}
    /\ load' = "done" /\ answer' = {}
    /\ \E t \in Times : events' = {[id |-> i, time |-> t] : i \in Samples}
    /\ Refilled
    /\ mixed' = TRUE
    /\ UNCHANGED <<page, dialog, server, created, saves, drags, steps, lateVars>>

-------------------------------------------------------------------------------
(* Opening the dialog.                                                       *)

\* The key n: the handler is there before the session is confirmed.
NewEarly ==
    /\ Step /\ page = "checking"
    /\ dialog' = TRUE
    /\ UNCHANGED <<page, form, events, server, created, load, answer,
                   saves, drags, mixed, lateVars>>

\* The key n in the open dialog: another date, and an empty form.
NewAgain ==
    /\ Step /\ Hooks /\ dialog
    /\ \E t \in Times : form' = Blank(t)
    /\ UNCHANGED <<page, dialog, events, server, created, load, answer,
                   saves, drags, mixed, lateVars>>

\* The key n, the button, a click or a drag on the grid, a click on an event.
OpenDialog ==
    /\ Step /\ Hooks /\ ~dialog
    /\ dialog' = TRUE /\ page' = "crashed"
    /\ UNCHANGED <<form, events, server, created, load, answer, saves,
                   drags, mixed, lateVars>>

\* Cancel, the cross and a click beside the dialog.
CloseDialog ==
    /\ Step /\ Hooks /\ dialog
    /\ dialog' = FALSE /\ page' = "crashed"
    /\ UNCHANGED <<form, events, server, created, load, answer, saves,
                   drags, mixed, lateVars>>

\* The page is loaded again; what it asked for is not waited for any more.
Reload ==
    /\ Step /\ page # "checking"
    /\ Opened
    /\ oldSaves' = oldSaves \cup {j \in saves : j.next # "refresh"}
    /\ oldDrags' = oldDrags \cup drags
    /\ UNCHANGED <<server, created>>

-------------------------------------------------------------------------------
(* The dialog.                                                               *)

\* The fields: a date input may be emptied, people are entered one by one.
SetTime(t) ==
    /\ Step /\ Hooks /\ dialog
    /\ form' = [form EXCEPT !.time = t, !.valid = TRUE]
    /\ UNCHANGED <<page, dialog, events, server, created, load, answer,
                   saves, drags, mixed, lateVars>>

ClearTime ==
    /\ Step /\ Hooks /\ dialog
    /\ form' = [form EXCEPT !.valid = FALSE]
    /\ UNCHANGED <<page, dialog, events, server, created, load, answer,
                   saves, drags, mixed, lateVars>>

ToggleAttendee(p) ==
    /\ Step /\ Hooks /\ dialog
    /\ form' = [form EXCEPT !.people = IF p \in @ THEN @ \ {p} ELSE @ \cup {p}]
    /\ UNCHANGED <<page, dialog, events, server, created, load, answer,
                   saves, drags, mixed, lateVars>>

\* handleSave, up to its first request. Save is not disabled while one runs. An
\* empty date throws, which closes the dialog as a failed request does.
SaveClicked ==
    /\ Step /\ Hooks /\ dialog
    /\ IF form.valid
       THEN /\ saves' = saves \cup {[click |-> steps', next |-> "create", id |-> 0,
                                     form |-> form, todo |-> form.people]}
            /\ mixed' = (mixed \/ Busy > 0)
            /\ UNCHANGED <<page, dialog>>
       ELSE /\ dialog' = FALSE /\ page' = "crashed"
            /\ UNCHANGED <<saves, mixed>>
    /\ UNCHANGED <<form, events, server, created, load, answer, drags, lateVars>>

\* closeEventDialog at the end of a save: it crashes a page with the dialog open.
SaveCloses ==
    /\ dialog' = FALSE
    /\ page' = IF Hooks /\ dialog THEN "crashed" ELSE page

\* The event is stored.
Made(j) ==
    /\ j.next = "create" /\ created < MaxNew /\ created' = created + 1
    /\ server' = server \cup {[id |-> created', time |-> j.form.time, people |-> {}]}

\* Then the people are invited, and the list is asked for.
CreateTaken(j) ==
    /\ Made(j)
    /\ saves' = (saves \ {j}) \cup
          {[j EXCEPT !.id = created', !.next = IF j.todo = {} THEN "refresh" ELSE "invite"]}
    /\ UNCHANGED <<page, dialog, form, events, load, answer, drags, steps,
                   mixed, lateVars>>

\* The request fails, or its answer is lost: the dialog closes.
CreateFails(j) ==
    /\ j.next = "create"
    /\ saves' = saves \ {j}
    /\ SaveCloses
    /\ UNCHANGED <<server, created>> \/ Made(j)
    /\ mixed' = TRUE
    /\ UNCHANGED <<form, events, load, answer, drags, steps, lateVars>>

Invited(j, p) == {IF r.id = j.id THEN [r EXCEPT !.people = @ \cup {p}] ELSE r : r \in server}

\* One person after the other; errors are ignored. The reminder goes the same way.
Invite(j, p) ==
    /\ j.next = "invite" /\ p \in j.todo
    /\ server' \in {server, Invited(j, p)}
    /\ saves' = (saves \ {j}) \cup
          {[j EXCEPT !.todo = @ \ {p},
                     !.next = IF j.todo = {p} THEN "refresh" ELSE "invite"]}
    /\ UNCHANGED <<page, dialog, form, events, created, load, answer, drags,
                   steps, mixed, lateVars>>

\* The list is asked for and replaced, or left as it is.
Refreshed(j) ==
    /\ j.next = "refresh"
    /\ saves' = saves \ {j}
    /\ \/ events' = Listed /\ shifted' = {} /\ UNCHANGED mixed
       \/ UNCHANGED <<events, shifted>> /\ mixed' = TRUE
    /\ SaveCloses
    /\ UNCHANGED <<form, server, created, load, answer, drags, oldSaves, oldDrags, steps>>

-------------------------------------------------------------------------------
(* Dragging, in the week and the day.                                        *)

Retimed(list, i, t) == {IF e.id = i THEN [e EXCEPT !.time = t] ELSE e : e \in list}

\* The mouse is released after a move: the list changes at once. Over the event
\* itself the release is a click too, and opens the dialog.
Drop(e, t, over) ==
    /\ Step /\ Hooks /\ ~dialog /\ e \in events /\ t # e.time
    /\ events' = Retimed(events, e.id, t)
    /\ drags' = drags \cup {[old |-> e, time |-> t, base |-> events]}
    /\ mixed' = (mixed \/ Busy > 0)
    /\ dialog' = over /\ page' = IF over THEN "crashed" ELSE page
    /\ UNCHANGED <<form, server, created, load, answer, saves, lateVars>>

Rescheduled(g) == {IF r.id = g.old.id THEN [r EXCEPT !.time = g.time] ELSE r : r \in server}

Known(g) == g.old.id \notin Virtual \cup Samples

InstancesOf(i) == {a.id : a \in UNION {Later[i][t] : t \in Times}}

\* The first instance of a series is the series: the server moves all of it, and the page
\* has moved one row.
DropTaken(g) ==
    /\ Known(g)
    /\ drags' = drags \ {g}
    /\ server' = Rescheduled(g)
    /\ shifted' = shifted \cup {i \in {g.old.id} : InstancesOf(i) # {}}
    /\ UNCHANGED <<page, dialog, form, events, created, load, answer, saves,
                   oldSaves, oldDrags, steps, mixed>>

\* The list of the moment of the drop comes back, with the old time; the server
\* may have moved the event all the same.
DropFails(g) ==
    /\ drags' = drags \ {g}
    /\ events' = Retimed(g.base, g.old.id, g.old.time)
    /\ \/ UNCHANGED <<server, mixed>>
       \/ Known(g) /\ server' = Rescheduled(g) /\ mixed' = TRUE
    /\ UNCHANGED <<page, dialog, form, created, load, answer, saves, steps,
                   lateVars>>

-------------------------------------------------------------------------------
(* Requests of pages that were loaded again: the server takes one, perhaps      *)
(* after it has listed the events for the new page, or it does not.            *)

OldStep ==
    /\ mixed' = (mixed \/ load # "asked")
    /\ UNCHANGED <<page, dialog, form, events, load, answer, saves, drags, steps, shifted>>

OldSaveTaken(j) ==
    /\ OldStep /\ oldSaves' = oldSaves \ {j} /\ UNCHANGED oldDrags
    /\ \/ Made(j)
       \/ /\ j.next = "invite" /\ UNCHANGED created
          /\ \E p \in j.todo : server' = Invited(j, p)

OldDropTaken(g) ==
    /\ OldStep /\ oldDrags' = oldDrags \ {g} /\ UNCHANGED <<oldSaves, created>>
    /\ Known(g) /\ server' = Rescheduled(g)

-------------------------------------------------------------------------------
CalendarNext ==
    \/ AuthAnswered \/ LoadServed \/ LoadAnswered \/ LoadFails
    \/ NewEarly \/ NewAgain \/ OpenDialog \/ CloseDialog \/ Reload
    \/ ClearTime \/ SaveClicked
    \/ \E t \in Times : SetTime(t)
    \/ \E p \in People : ToggleAttendee(p)
    \/ \E j \in saves : CreateTaken(j) \/ CreateFails(j) \/ Refreshed(j)
                        \/ \E p \in People : Invite(j, p)
    \/ \E e \in events, t \in Times, over \in BOOLEAN : Drop(e, t, over)
    \/ \E g \in drags : DropTaken(g) \/ DropFails(g)
    \/ \E j \in oldSaves : OldSaveTaken(j)
    \/ \E g \in oldDrags : OldDropTaken(g)

-------------------------------------------------------------------------------
(* Properties.                                                               *)

\* The types of the variables.
CalendarTypeOK ==
    /\ page \in {"checking", "ready", "crashed", "away"} /\ dialog \in BOOLEAN
    /\ form \in Form /\ events \in SUBSET Event
    /\ server \in SUBSET Record /\ created \in 0 .. MaxNew
    /\ load \in {"asked", "served", "done"} /\ answer \in SUBSET Event
    /\ saves \in SUBSET Save /\ drags \in SUBSET Drag
    /\ oldSaves \in SUBSET Save /\ oldDrags \in SUBSET Drag
    /\ steps \in 0 .. MaxSteps /\ mixed \in BOOLEAN /\ shifted \in SUBSET (Old \cup New)

Outdated == UNION {InstancesOf(i) : i \in shifted}

\* A list has the rows of the server, but for instances of series that were shifted.
AsStored(list) == \A e \in Event : e.id \notin Outdated => (e \in list <=> e \in Listed)

\* When nothing is under way the page shows what the server has, each event at
\* its time: after any sequence of drops, taken or put back, of saves and of
\* reloads, as long as two requests that set the list never overlapped, no answer
\* was lost, and the server took no request of an earlier page after it had listed
\* the events. Dragging the first instance of a series is the exception: the later
\* ones stay where they were until the list is asked for again.
ShownIsStored == load = "done" /\ Busy = 0 /\ ~mixed => AsStored(events)

\* A save makes one event, with the time of its form and nobody but the people
\* the form had; whoever is missing is still to be invited or was refused, but
\* never because the user left the dialog or the dialog changed meanwhile.
SavedAsWritten ==
    \A j \in saves :
        j.id # 0 =>
            \E r \in server :
                /\ r.id = j.id
                /\ r.people \subseteq j.form.people \ j.todo
                /\ \A k \in saves \ {j} : k.id # j.id

\* The list and the events that were saved are as they were asked for.
CalendarSettles == ShownIsStored /\ SavedAsWritten

\* Another person's or tab's data is not touched: an event of the server changes
\* by the drop of that event or the invitations of its own save, also of a page that
\* was left since, and what was only a sample or a later instance is never stored.
OnlyAskedChanges ==
    [][\A r \in server :
         \/ r \in server'
         \/ \E g \in drags \cup oldDrags :
                g.old.id = r.id /\ [r EXCEPT !.time = g.time] \in server'
         \/ \E j \in saves \cup oldSaves :
                /\ j.id = r.id
                /\ \E p \in j.form.people : [r EXCEPT !.people = @ \cup {p}] \in server']_calVars
===============================================================================
