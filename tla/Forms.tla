--------------------------------- MODULE Forms ---------------------------------
(* Two dialogs whose form goes to the server while the dialog may be closed     *)
(* and opened again: the one that shares a file (drive, ShareDialog) and the    *)
(* one that adds a calendar (AddCalendarDialog, with the list it adds to). One *)
(* of them is used in each behaviour. Enter in the field sends the form again  *)
(* while it is being sent; the button does not.                                *)
EXTENDS Naturals, FiniteSets, FiniteSetsExt

CONSTANTS
    SharedFiles,    \* files that may be shared
    NoShare,        \* no file: the dialog is closed
    Guests,         \* people files are shared with
    NoGuest,        \* the empty field
    MaxForms        \* bound: clicks and keys

ASSUME FormsAssumption ==
    NoShare \notin SharedFiles /\ NoGuest \notin Guests /\ MaxForms \in Nat

VARIABLES
    formKind,       \* "share" or "calendar"
    shareOf,        \* the file whose dialog is open, or NoShare
    guest,          \* the field of the address
    permission,
    sharing,        \* a file is being shared, as the button shows
    sharedWith,     \* what the dialog lists: [who, may]
    shares,         \* requests under way: [n, file, who, may]
    grants,         \* the server: [file, who, may]
    addOpen,        \* the dialog of a new calendar is open
    named,          \* its field has a name
    savingNew,
    addError,
    listed,         \* the calendars of the page
    ticked,         \* those whose events are shown
    onServer,       \* the calendars of the server
    adds,           \* requests under way: [n, listed], and what the server has made of one
    loadingList,    \* the list is being loaded
    clicked,
    crossed         \* something came while something else was under way (history)

shareVars == <<shareOf, guest, permission, sharing, sharedWith, shares, grants>>
addVars   == <<addOpen, named, savingNew, addError, listed, ticked, onServer, adds, loadingList>>

formVars == <<formKind, shareOf, guest, permission, sharing, sharedWith, shares, grants, addOpen,
              named, savingNew, addError, listed, ticked, onServer, adds, loadingList, clicked,
              crossed>>

Permissions == {"read", "write"}

FormsInit ==
    /\ formKind \in {"share", "calendar"} /\ clicked = 0 /\ crossed = FALSE
    /\ shareOf = NoShare /\ guest = NoGuest /\ permission = "read" /\ sharing = FALSE
    /\ sharedWith = {} /\ shares = {} /\ grants = {}
    /\ addOpen = FALSE /\ named = FALSE /\ savingNew = FALSE /\ addError = FALSE
    /\ listed = {} /\ ticked = {} /\ onServer = {1} /\ adds = {}
    /\ loadingList = (formKind = "calendar")

Acts(f) == formKind = f /\ formKind' = f /\ clicked < MaxForms /\ clicked' = clicked + 1

-------------------------------------------------------------------------------
(* Sharing a file.                                                             *)

OpenShare(f) ==
    /\ Acts("share") /\ shareOf = NoShare /\ shareOf' = f
    /\ crossed' = (crossed \/ shares # {})
    /\ UNCHANGED <<guest, permission, sharing, sharedWith, shares, grants, addVars>>

\* What is under way goes on; the permission stays for the next file.
CloseShare ==
    /\ Acts("share") /\ shareOf # NoShare
    /\ shareOf' = NoShare /\ guest' = NoGuest /\ sharedWith' = {}
    /\ UNCHANGED <<permission, sharing, shares, grants, addVars, crossed>>

EditShare ==
    /\ Acts("share") /\ shareOf # NoShare
    /\ \/ guest' \in (Guests \cup {NoGuest}) \ {guest} /\ UNCHANGED permission
       \/ permission' \in Permissions \ {permission} /\ UNCHANGED guest
    /\ UNCHANGED <<shareOf, sharing, sharedWith, shares, grants, addVars, crossed>>

HandleShare ==
    /\ Acts("share") /\ shareOf # NoShare /\ guest # NoGuest
    /\ sharing' = TRUE
    /\ shares' = shares \cup {[n |-> clicked, file |-> shareOf, who |-> guest, may |-> permission]}
    /\ UNCHANGED <<shareOf, guest, permission, sharedWith, grants, addVars, crossed>>

\* The answer: whatever dialog is open lists it, and has its field emptied.
ShareAnswered(r) ==
    /\ shares' = shares \ {r} /\ sharing' = FALSE
    /\ grants' = grants \cup {[file |-> r.file, who |-> r.who, may |-> r.may]}
    /\ sharedWith' = sharedWith \cup {[who |-> r.who, may |-> r.may]}
    /\ guest' = NoGuest
    /\ crossed' = (crossed \/ shareOf = NoShare)
    /\ UNCHANGED <<formKind, clicked, shareOf, permission, addVars>>

\* It fails before or after the server has shared the file.
ShareFails(r) ==
    /\ shares' = shares \ {r} /\ sharing' = FALSE
    /\ grants' \in {grants, grants \cup {[file |-> r.file, who |-> r.who, may |-> r.may]}}
    /\ UNCHANGED <<formKind, clicked, shareOf, guest, permission, sharedWith, addVars, crossed>>

\* The dialog, with its button.
ShareShown ==
    [file |-> shareOf, list |-> IF shareOf = NoShare THEN {} ELSE sharedWith,
     button |-> guest # NoGuest /\ ~sharing]

-------------------------------------------------------------------------------
(* Adding a calendar.                                                          *)

ToggleAdd ==
    /\ Acts("calendar") /\ addOpen' = ~addOpen
    /\ UNCHANGED <<shareVars, named, savingNew, addError, listed, ticked, onServer, adds,
                   loadingList, crossed>>

NameIt ==
    /\ Acts("calendar") /\ addOpen /\ named' = ~named
    /\ UNCHANGED <<shareVars, addOpen, savingNew, addError, listed, ticked, onServer, adds,
                   loadingList, crossed>>

\* setCalendars: all the calendars of the new list are shown.
SetCalendars(cs) == listed' = cs /\ ticked' = cs

TickCalendar(c) ==
    /\ Acts("calendar") /\ c \in listed
    /\ ticked' = IF c \in ticked THEN ticked \ {c} ELSE ticked \cup {c}
    /\ UNCHANGED <<shareVars, addOpen, named, savingNew, addError, listed, onServer, adds,
                   loadingList, crossed>>

\* handleSave closes over the list of the page.
HandleSave ==
    /\ Acts("calendar") /\ addOpen /\ named
    /\ savingNew' = TRUE /\ addError' = FALSE
    /\ adds' = adds \cup {[n |-> clicked, listed |-> listed, made |-> 0]}
    /\ crossed' = (crossed \/ adds # {} \/ loadingList)
    /\ UNCHANGED <<shareVars, addOpen, named, listed, ticked, onServer, loadingList>>

\* The server makes the calendar.
CalendarMade(r) ==
    /\ r.made = 0
    /\ onServer' = onServer \cup {Cardinality(onServer) + 1}
    /\ adds' = (adds \ {r}) \cup {[r EXCEPT !.made = Cardinality(onServer) + 1]}
    /\ UNCHANGED <<formKind, clicked, shareVars, addOpen, named, savingNew, addError, listed, ticked,
                   loadingList, crossed>>

\* The answer: the list of the closure and the new one; the dialog is closed, also when
\* it was opened again.
AddAnswered(r) ==
    /\ r.made # 0 /\ adds' = adds \ {r}
    /\ SetCalendars(r.listed \cup {r.made})
    /\ named' = FALSE /\ addOpen' = FALSE /\ savingNew' = FALSE
    /\ UNCHANGED <<formKind, clicked, shareVars, addError, onServer, loadingList, crossed>>

AddFails(r) ==
    /\ adds' = adds \ {r} /\ addError' = TRUE /\ savingNew' = FALSE
    /\ crossed' = (crossed \/ r.made # 0)
    /\ UNCHANGED <<formKind, clicked, shareVars, addOpen, named, listed, ticked, onServer,
                   loadingList>>

\* The list of the server replaces that of the page.
ListLoads ==
    /\ loadingList /\ loadingList' = FALSE
    /\ SetCalendars(onServer)
    /\ UNCHANGED <<formKind, clicked, shareVars, addOpen, named, savingNew, addError, onServer, adds,
                   crossed>>

\* The dialog, with its button and its line of an error.
AddShown ==
    IF addOpen THEN [button |-> named /\ ~savingNew, error |-> addError]
    ELSE [button |-> FALSE, error |-> FALSE]

FormsNext ==
    \/ \E f \in SharedFiles : OpenShare(f)
    \/ CloseShare \/ EditShare \/ HandleShare
    \/ \E r \in shares : ShareAnswered(r) \/ ShareFails(r)
    \/ ToggleAdd \/ NameIt \/ HandleSave \/ ListLoads
    \/ \E c \in listed : TickCalendar(c)
    \/ \E r \in adds : CalendarMade(r) \/ AddAnswered(r) \/ AddFails(r)

-------------------------------------------------------------------------------
(* Properties.                                                                 *)

\* The types of the variables.
FormsTypeOK ==
    /\ shareOf \in SharedFiles \cup {NoShare} /\ guest \in Guests \cup {NoGuest}
    /\ sharedWith \subseteq [who: Guests, may: Permissions]
    /\ shares \subseteq [n: 0 .. MaxForms, file: SharedFiles, who: Guests, may: Permissions]
    /\ grants \subseteq [file: SharedFiles, who: Guests, may: Permissions]
    /\ permission \in Permissions /\ clicked \in 0 .. MaxForms
    /\ listed \cup ticked \subseteq 1 .. MaxForms + 1 /\ onServer \subseteq 1 .. MaxForms + 1
    /\ {sharing, addOpen, named, savingNew, addError, loadingList, crossed} \subseteq BOOLEAN

\* The dialog of a file lists only what the server granted for that file, through
\* closing, choosing other files and sending the form twice, unless an answer came for
\* a dialog that was closed.
ShareListsGrants ==
    ~crossed => \A s \in ShareShown.list : [file |-> shareOf, who |-> s.who, may |-> s.may] \in grants

\* A dialog that nothing is under way for can be sent.
FormsCanBeSent ==
    /\ shares = {} /\ guest # NoGuest => ShareShown.button
    /\ adds = {} /\ addOpen /\ named => AddShown.button

\* The page lists the calendars of the server when nothing is under way, unless a form
\* was sent while another was, or while the list was loaded, or an answer failed after
\* the calendar was made; and no calendar it does not list is shown.
ListIsComplete ==
    /\ ticked \subseteq listed
    /\ formKind = "calendar" /\ adds = {} /\ ~loadingList /\ ~crossed => listed = onServer
===============================================================================
