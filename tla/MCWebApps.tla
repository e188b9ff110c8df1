------------------------------- MODULE MCWebApps -------------------------------
(* The instance of the web applications that TLC checks, MailClient and         *)
(* MailCompose apart.                                                           *)
(* They are separate pages, and what the calendar shows does not depend on its  *)
(* requests: the behaviours of the modules are checked side by side, those of   *)
(* one module in each behaviour.                                                *)
EXTENDS CalendarViews, CalendarApp, ContactsApp, DriveApp, AccountsApp, ConsoleApp,
        Lookups, DataExport, Overlays, Widgets, KeyRing, Forms, MailDomains, MailReader,
        TLC

CONSTANTS home, work, ann, root, sub, trash, starred, recent, noFolder,
          alice, bob, nobody, first, second, box1, noDomain, q1, q2, noQuery,
          laptop, phone, guest0, noShare, ben, cora, noGuest, north, south, noCustom,
          inboxL, archiveL

VARIABLE app   \* the module whose actions are taken

\* Five months, the third of 31 days and the second of 28; two ticks to a day.
MCMonthLength == <<31, 28, 31, 30, 31>>

\* A night into the month, two days of one calendar, the last of next month's
\* days but one, and an instant at midnight.
MCStored ==
    {[calendar |-> home, start |-> 2 * 58 + 1, end |-> 2 * 59 + 1, allDay |-> FALSE],
     [calendar |-> work, start |-> 2 * 88, end |-> 2 * 92, allDay |-> TRUE],
     [calendar |-> home, start |-> 2 * 118 - 1, end |-> 2 * 118, allDay |-> FALSE],
     [calendar |-> work, start |-> 2 * 70, end |-> 2 * 70, allDay |-> FALSE]}

MCTodays == {59, 72, 89}

\* 12 and 13 are repeated: each has a later instance, at the other of the two times.
MCLater ==
    [i \in Old \cup New |->
        [t \in Times |-> IF i \in Old THEN {[id |-> 10 * i + t, time |-> 3 - t]} ELSE {}]]

\* The accounts are alike.
Symmetry == Permutations({alice, bob})

\* The variables of the modules whose components no route mounts.
unmountedVars == <<domainVars, readerVars>>

vars == <<viewVars, calVars, conVars, driveVars, accountVars, consoleVars, lookVars,
          exportVars, overlayVars, widgetVars, ringVars, formVars, unmountedVars, app>>

Apps == {"views", "calendar", "contacts", "drive", "accounts", "console", "lookups",
         "export", "overlays", "widgets", "keys", "forms",
         "domains", "reader"}

\* The modules start in all their initial states when it is their turn, and in one
\* of them otherwise.
Init ==
    /\ app \in Apps
    /\ ViewsInit    /\ (app = "views"    \/ today = 59)
    /\ CalendarInit /\ (app = "calendar" \/ \A r \in server : r.time = 1)
    /\ ContactsInit /\ (app = "contacts" \/ keys = 0)
    /\ (app = "drive"    \/ dirs = {})                      /\ DriveInit
    /\ (app = "accounts" \/ route = "sign-up")               /\ AccountsInit
    /\ (app = "accounts" \/ \A a \in Accounts : ~accts[a].there)
    /\ (app = "console"  \/ owned = {})                     /\ ConsoleInit
    /\ (app = "lookups"  \/ box = "users")                  /\ LookupsInit
    /\ (app = "overlays" \/ overlay = "menu")               /\ (app = "overlays" \/ barred = {})
    /\ (app = "widgets"  \/ widget = "code")                /\ (app = "forms" \/ formKind = "share")
    /\ (app = "domains"  \/ held = {})                      /\ DomainsInit
    /\ ReaderInit   /\ (app = "reader" \/ /\ readerPart = "labels"
                                          /\ \A t \in Conversations : mailbox[t].place = FirstLabel)
    /\ OverlaysInit /\ WidgetsInit /\ FormsInit /\ ExportInit /\ KeyRingInit

Next ==
    /\ app' = app
    /\ \/ /\ app = "views" /\ ViewsNext
          /\ UNCHANGED <<calVars, conVars, driveVars, accountVars, consoleVars, lookVars,
                         exportVars, overlayVars, widgetVars, ringVars, formVars, unmountedVars>>
       \/ /\ app = "calendar" /\ CalendarNext
          /\ UNCHANGED <<viewVars, conVars, driveVars, accountVars, consoleVars, lookVars,
                         exportVars, overlayVars, widgetVars, ringVars, formVars, unmountedVars>>
       \/ /\ app = "contacts" /\ ContactsNext
          /\ UNCHANGED <<viewVars, calVars, driveVars, accountVars, consoleVars, lookVars,
                         exportVars, overlayVars, widgetVars, ringVars, formVars, unmountedVars>>
       \/ /\ app = "drive" /\ DriveNext
          /\ UNCHANGED <<viewVars, calVars, conVars, accountVars, consoleVars, lookVars,
                         exportVars, overlayVars, widgetVars, ringVars, formVars, unmountedVars>>
       \/ /\ app = "accounts" /\ AccountsNext
          /\ UNCHANGED <<viewVars, calVars, conVars, driveVars, consoleVars, lookVars,
                         exportVars, overlayVars, widgetVars, ringVars, formVars, unmountedVars>>
       \/ /\ app = "console" /\ ConsoleNext
          /\ UNCHANGED <<viewVars, calVars, conVars, driveVars, accountVars, lookVars,
                         exportVars, overlayVars, widgetVars, ringVars, formVars, unmountedVars>>
       \/ /\ app = "lookups" /\ LookupsNext
          /\ UNCHANGED <<viewVars, calVars, conVars, driveVars, accountVars, consoleVars,
                         exportVars, overlayVars, widgetVars, ringVars, formVars, unmountedVars>>
       \/ /\ app = "export" /\ ExportNext
          /\ UNCHANGED <<viewVars, calVars, conVars, driveVars, accountVars, consoleVars,
                         lookVars, overlayVars, widgetVars, ringVars, formVars, unmountedVars>>
       \/ /\ app = "overlays" /\ OverlaysNext
          /\ UNCHANGED <<viewVars, calVars, conVars, driveVars, accountVars, consoleVars,
                         lookVars, exportVars, widgetVars, ringVars, formVars, unmountedVars>>
       \/ /\ app = "widgets" /\ WidgetsNext
          /\ UNCHANGED <<viewVars, calVars, conVars, driveVars, accountVars, consoleVars,
                         lookVars, exportVars, overlayVars, ringVars, formVars, unmountedVars>>
       \/ /\ app = "keys" /\ KeyRingNext
          /\ UNCHANGED <<viewVars, calVars, conVars, driveVars, accountVars, consoleVars,
                         lookVars, exportVars, overlayVars, widgetVars, formVars, unmountedVars>>
       \/ /\ app = "forms" /\ FormsNext
          /\ UNCHANGED <<viewVars, calVars, conVars, driveVars, accountVars, consoleVars,
                         lookVars, exportVars, overlayVars, widgetVars, ringVars, unmountedVars>>
       \/ /\ app = "domains" /\ DomainsNext
          /\ UNCHANGED <<viewVars, calVars, conVars, driveVars, accountVars, consoleVars,
                         lookVars, exportVars, overlayVars, widgetVars, ringVars, formVars,
                         readerVars>>
       \/ /\ app = "reader" /\ ReaderNext
          /\ UNCHANGED <<viewVars, calVars, conVars, driveVars, accountVars, consoleVars,
                         lookVars, exportVars, overlayVars, widgetVars, ringVars, formVars,
                         domainVars>>

Spec == Init /\ [][Next]_vars

\* The types of the variables of the modules.
TypeOK ==
    CASE app = "views"    -> ViewsTypeOK
      [] app = "calendar" -> CalendarTypeOK
      [] app = "contacts" -> ContactsTypeOK
      [] app = "drive"    -> DriveTypeOK
      [] app = "accounts" -> AccountsTypeOK
      [] app = "console"  -> ConsoleTypeOK
      [] app = "lookups"  -> LookupsTypeOK
      [] app = "export"   -> ExportTypeOK
      [] app = "overlays" -> OverlaysTypeOK
      [] app = "widgets"  -> WidgetsTypeOK
      [] app = "keys"     -> KeyRingTypeOK
      [] app = "forms"    -> FormsTypeOK
      [] app = "domains"  -> DomainsTypeOK
      [] app = "reader"   -> ReaderTypeOK

\* The lists of the calendar, the contacts and the drive agree with what the server
\* has when nothing is under way, and what was saved or undone is as it was meant.
ListsSettle ==
    /\ CalendarSettles
    /\ ContactsSettle
    /\ FolderSettles /\ UndoneIsKept

\* What the screens show when nothing is under way is what is selected, entered, sent
\* or stored: the days of the calendar, the console and the searches, the export, the
\* dialogs and menus with the keyboard in them, the codes, messages and themes, the
\* forms, and the domains and the three panes of the mail application.
ScreensSettle ==
    /\ app = "views"    => ViewsWhole
    /\ DetailIsOfSelection /\ ResultsOfQuery
    /\ app = "export"   => ExportIsShown
    /\ app = "overlays" => FocusIsKept /\ NothingBarredChosen
    /\ app = "widgets"  => CodeIsShown /\ MessageGoes /\ ThemeIsStored
    /\ app = "forms"    => ShareListsGrants /\ FormsCanBeSent /\ ListIsComplete
    /\ app = "domains"  => ActiveDomainWhole /\ FlagsHaveRequests
    /\ app = "reader"   => RowsAreOfLabel /\ LabelsAreListed

\* The user a page shows is that of the session and the keys it stores open with the
\* user's password; no pair of an application that is published, or that something is
\* sealed with, is made again or replaced in the browser that made it, and the pair of the
\* last registration form is kept there, until somebody signs out there.
AccountsKeepKeys ==
    /\ AccountSettles
    /\ app = "keys" => PublishedIsHeld /\ SealedCanBeOpened /\ PagesUseTheRing /\ RegisteredIsKept

\* No step changes what its user did not ask for: contacts of a key that neither the page
\* nor a change under way has, events of the server, the page the arrows turn.
StepsAreAsked == ForeignUntouched /\ OnlyAskedChanges /\ ArrowsTurnPages
===============================================================================
