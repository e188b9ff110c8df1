------------------------------- MODULE DataExport -------------------------------
(* The page of the accounts application that downloads a copy of the user's    *)
(* data (apps/accounts/src/pages/DataExportPage.tsx). The sections that are    *)
(* selected are fetched one after the other, in the order of their selection,  *)
(* and each becomes a file of the browser. A user who leaves the page meanwhile *)
(* gets the files all the same; the page that is opened again knows nothing of *)
(* them, and may export while the first export still runs.                     *)
(*                                                                             *)
(* A file holds the data of its section or the text of an error: the status of *)
(* an answer is not looked at, only whether it can be read.                    *)
EXTENDS Naturals, SequencesExt

CONSTANTS
    Sections,      \* what can be exported
    MaxExport      \* bound: clicks on the page

ASSUME ExportAssumption == MaxExport \in Nat

VARIABLES
    toExport,      \* the sections selected, in the order of their selection
    status,        \* section -> "idle", "exporting", "done", "error"
    exporting,     \* the page exports
    todo,          \* what the export of the page has left; the first is being fetched
    left,          \* the same, of exports whose page was left: a bag as a sequence
    downloads,     \* the sections downloaded: [section, holds]
    since,         \* of these, the sections downloaded since the page was opened (history)
    pressed        \* clicks so far (bound)

exportVars == <<toExport, status, exporting, todo, left, downloads, since, pressed>>

Statuses == {"idle", "exporting", "done", "error"}
Holdings == {"data", "error"}

ExportInit ==
    /\ toExport = <<>> /\ status = [s \in Sections |-> "idle"] /\ exporting = FALSE
    /\ todo = <<>> /\ left = <<>> /\ downloads = {} /\ since = {} /\ pressed = 0

Pressed == pressed < MaxExport /\ pressed' = pressed + 1

\* A click on a section adds it at the end, or takes it away; none while exporting.
Toggle(s) ==
    /\ ~exporting /\ Pressed
    /\ IF Contains(toExport, s)
       THEN \E i \in DOMAIN toExport : toExport[i] = s /\ toExport' = RemoveAt(toExport, i)
       ELSE toExport' = Append(toExport, s)
    /\ UNCHANGED <<status, exporting, todo, left, downloads, since>>

\* The button: what is selected now is exported, whatever happens to the page.
HandleExport ==
    /\ toExport # <<>> /\ ~exporting /\ Pressed
    /\ exporting' = TRUE /\ todo' = toExport
    /\ status' = [status EXCEPT ![Head(toExport)] = "exporting"]
    /\ UNCHANGED <<toExport, left, downloads, since>>

\* The next section is fetched when the one before has its answer.
Onwards(now) ==
    /\ todo' = Tail(todo)
    /\ exporting' = (Tail(todo) # <<>>)
    /\ status' = [s \in Sections |->
                    IF Tail(todo) # <<>> /\ s = Head(Tail(todo)) THEN "exporting"
                    ELSE IF s = Head(todo) THEN now ELSE status[s]]

\* An answer that can be read becomes a file; an error of the server may be one.
SectionAnswered(holds) ==
    /\ todo # <<>> /\ Onwards("done")
    /\ downloads' = downloads \cup {[section |-> Head(todo), holds |-> holds]}
    /\ since' = since \cup {Head(todo)}
    /\ UNCHANGED <<toExport, left, pressed>>

\* No answer, or one that cannot be read.
SectionFails ==
    /\ todo # <<>> /\ Onwards("error")
    /\ UNCHANGED <<toExport, left, downloads, since, pressed>>

\* The page is left and opened again: its export goes on without it.
LeavePage ==
    /\ Pressed
    /\ left' = IF todo = <<>> THEN left ELSE Append(left, todo)
    /\ toExport' = <<>> /\ status' = [s \in Sections |-> "idle"]
    /\ exporting' = FALSE /\ todo' = <<>> /\ since' = {}
    /\ UNCHANGED downloads

\* An answer to an export whose page was left: nothing shows it.
LeftAnswered(i, got) ==
    /\ left' = IF Tail(left[i]) = <<>> THEN RemoveAt(left, i)
               ELSE [left EXCEPT ![i] = Tail(left[i])]
    /\ downloads' = IF got = "none" THEN downloads
                ELSE downloads \cup {[section |-> Head(left[i]), holds |-> got]}
    /\ UNCHANGED <<toExport, status, exporting, todo, since, pressed>>

\* The signs beside the sections, and whether they are ticked.
SectionsShown ==
    [s \in Sections |-> [sign |-> status[s], ticked |-> Contains(toExport, s)]]

AllDone == \A i \in DOMAIN toExport : status[toExport[i]] = "done"

\* The text of the button.
ButtonShown ==
    CASE exporting                                   -> "exporting"
      [] ~exporting /\ AllDone /\ toExport # <<>>    -> "complete"
      [] ~exporting /\ (~AllDone \/ toExport = <<>>) -> "export"

ExportNext ==
    \/ \E s \in Sections : Toggle(s)
    \/ HandleExport
    \/ \E holds \in Holdings : SectionAnswered(holds)
    \/ SectionFails
    \/ LeavePage
    \/ \E i \in DOMAIN left, got \in Holdings \cup {"none"} : LeftAnswered(i, got)

-------------------------------------------------------------------------------
(* Properties.                                                                 *)

\* The types of the variables; nothing is selected twice.
ExportTypeOK ==
    /\ IsInjective(toExport) /\ ToSet(toExport) \subseteq Sections
    /\ status \in [Sections -> Statuses] /\ exporting \in BOOLEAN
    /\ ToSet(todo) \subseteq Sections /\ pressed \in 0 .. MaxExport
    /\ downloads \subseteq [section: Sections, holds: Holdings] /\ since \subseteq Sections

\* The page shows its export: while one runs, the sign of waiting is at the one
\* section being fetched, and the sections of the selection behind it are those
\* left; when it is over no section waits. A page that says the export is complete
\* has downloaded a file of every section it ticks since it was opened, though
\* exports of a page left before, and selections changed in between, go on.
ExportIsShown ==
    /\ \A s \in Sections :
          SectionsShown[s].sign = "exporting" <=> exporting /\ s = Head(todo)
    /\ exporting => IsSuffix(todo, toExport)
    /\ \A s \in Sections : SectionsShown[s].sign = "done" => s \in since
    /\ ButtonShown = "complete" =>
          \A s \in Sections : SectionsShown[s].ticked => \E f \in downloads : f.section = s
===============================================================================
