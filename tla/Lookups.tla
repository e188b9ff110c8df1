-------------------------------- MODULE Lookups --------------------------------
(* The parts of the applications that ask the server about what is entered or  *)
(* chosen, and show the answer later: the searches of drive and mail, the      *)
(* suggestions for recipients, the users, the metrics and the audit log of the *)
(* console, the preview of a file and the folders of the move dialog. Some     *)
(* wait a moment before they ask; some drop the answers of what is not asked   *)
(* for any more.                                                               *)
(*                                                                             *)
(* An answer is known by its query: a text, a file, a folder or the tick of a  *)
(* timer. NoQuery is the empty text, or no file. One part is on the screen in  *)
(* each behaviour; opening a search again empties its text. The filters of the *)
(* search in mail are part of its query.                                       *)
EXTENDS Naturals, FiniteSets

CONSTANTS
    Queries,     \* texts, files, folders, ticks
    Viewable,    \* the files that have a preview
    NoQuery,     \* the empty text, no file
    MaxTyped     \* bound: changes of the query

ASSUME LookupsAssumption ==
    /\ Viewable \subseteq Queries /\ NoQuery \notin Queries /\ MaxTyped \in Nat
    /\ "empty" \notin Queries \cup {NoQuery}

VARIABLES
    box,        \* the part on the screen
    query,
    timer,      \* the part waits before it asks
    asked,      \* requests under way whose answer will be used: [n, query]
    results,    \* the query whose answer is shown, or "empty"
    searching,
    error,
    typed,
    astray      \* answers may cross, or one failed, or a load was left (history)

lookVars == <<box, query, timer, asked, results, searching, error, typed, astray>>

Texts == {"driveSearch", "mailSearch", "recipients"}
Polls == {"metrics", "audit"}
Boxes == Texts \cup Polls \cup {"users", "preview", "folders"}

Query == Queries \cup {NoQuery}

LookupsInit ==
    /\ box \in Boxes /\ query = NoQuery /\ results = "empty"
    /\ timer = (box = "users") /\ asked = {} /\ searching = FALSE /\ error = FALSE
    /\ typed = 0 /\ astray = FALSE

Request(q) == [n |-> typed', query |-> q]

-------------------------------------------------------------------------------
(* A new query.                                                                *)

\* All parts but these two use every answer.
Unguarded == box \notin {"users", "preview"}

\* Mutant: every answer is used.
KeptAll == asked

\* The requests whose answers are still used when the query changes: the users of
\* the console and the preview drop the others.
Kept == IF Unguarded THEN asked ELSE {}

\* Searches forget the results of a text that is emptied.
Emptied ==
    /\ results' = "empty" /\ timer' = FALSE
    /\ searching' = (searching /\ box = "recipients")
    /\ asked' = asked /\ astray' = (astray \/ asked # {})
    /\ UNCHANGED error

\* Otherwise the clock starts again.
Delayed ==
    /\ timer' = TRUE
    /\ asked' = Kept /\ astray' = (astray \/ (Unguarded /\ asked # {}))
    /\ UNCHANGED <<results, searching, error>>

\* The preview forgets what it shows, and asks for a file that has a preview. The
\* sign of loading and an error stay for one that has none.
Previewed(q) ==
    /\ results' = "empty" /\ UNCHANGED timer
    /\ IF q \in Viewable
       THEN /\ asked' = Kept \cup {Request(q)} /\ astray' = FALSE
            /\ searching' = TRUE /\ error' = FALSE
       ELSE /\ asked' = Kept /\ astray' = (astray \/ asked # {})
            /\ UNCHANGED <<searching, error>>

\* Folders, metrics and the log are asked for at once.
AskedAtOnce(q) ==
    /\ asked' = Kept \cup {Request(q)} /\ astray' = (Unguarded /\ asked # {})
    /\ searching' = TRUE
    /\ UNCHANGED <<results, timer, error>>

QueryChanged(q) ==
    /\ typed < MaxTyped /\ typed' = typed + 1
    /\ query' = q /\ UNCHANGED box
    /\ CASE box \in Texts /\ q = NoQuery        -> Emptied
         [] box \in Texts \cup {"users"} /\ ~(box \in Texts /\ q = NoQuery) -> Delayed
         [] box = "preview"                     -> Previewed(q)
         [] box \in {"folders"} \cup Polls      -> AskedAtOnce(q)

\* Typing, a click on a folder, the tick of the metrics or of the log.
Type(q) == q # query /\ QueryChanged(q)

\* The same text again: the list of mail or of recipients has changed, the dialog
\* was opened again.
Repeat ==
    /\ box = "folders" \/ (box \in {"mailSearch", "recipients"} /\ query # NoQuery)
    /\ QueryChanged(query)

\* The delay is over.
TimerFires ==
    /\ timer /\ typed' = typed
    /\ timer' = FALSE /\ searching' = TRUE
    /\ asked' = asked \cup {Request(query)}
    /\ astray' = (Unguarded /\ asked # {})
    /\ UNCHANGED <<box, query, results, error>>

\* Mail that is searched by filters alone is looked for in the threads of the page.
TimerFilters ==
    /\ timer /\ box = "mailSearch" /\ typed' = typed
    /\ timer' = FALSE /\ results' = query /\ searching' = FALSE
    /\ astray' = (asked # {})
    /\ UNCHANGED <<box, query, asked, error>>

-------------------------------------------------------------------------------
(* The answers.                                                                *)

Answered(r) ==
    /\ asked' = asked \ {r}
    /\ results' = r.query /\ searching' = FALSE /\ error' = FALSE
    /\ UNCHANGED <<box, query, timer, typed, astray>>

\* A request that fails: the search in mail looks at the threads of the page then,
\* others show nothing, or what they showed before.
Fails(r) ==
    /\ asked' = asked \ {r}
    /\ results' = CASE box = "mailSearch"                              -> r.query
                    [] box \in {"driveSearch", "recipients", "folders"} -> "empty"
                    [] box \in {"users", "preview"} \cup Polls          -> results
    /\ searching' = FALSE
    /\ error' = (box \in {"metrics", "preview"})
    /\ astray' = (astray \/ box # "mailSearch")
    /\ UNCHANGED <<box, query, timer, typed>>

-------------------------------------------------------------------------------
(* What is on the screen.                                                      *)

\* The search in drive: results, whatever the text is, or why there are none.
SearchScreen ==
    CASE results # "empty"                                    -> results
      [] results = "empty" /\ query = NoQuery                 -> "hint"
      [] results = "empty" /\ query # NoQuery /\ ~searching   -> "none"
      [] results = "empty" /\ query # NoQuery /\ searching    -> "blank"

\* The search in mail does the same; a filter counts as a text.
MailSearchScreen == SearchScreen

SuggestionsScreen == IF results = "empty" THEN "hint" ELSE results

UsersScreen == IF results = "empty" /\ ~searching THEN "none" ELSE results

\* The tick of the metrics that are shown, and the line of an error.
MetricsScreen == IF error THEN "error" ELSE results

AuditScreen == IF results = "empty" THEN "none" ELSE results

PreviewScreen ==
    CASE query = NoQuery                              -> "hint"
      [] query # NoQuery /\ searching                 -> "loading"
      [] query # NoQuery /\ ~searching /\ error       -> "error"
      [] query # NoQuery /\ ~searching /\ ~error      ->
            IF results = "empty" THEN "none" ELSE results

FoldersScreen == IF searching THEN "loading" ELSE IF results = "empty" THEN "none" ELSE results

Screen ==
    CASE box = "driveSearch"                   -> SearchScreen
      [] box = "mailSearch"                    -> MailSearchScreen
      [] box = "recipients"                    -> SuggestionsScreen
      [] box = "users"                         -> UsersScreen
      [] box = "metrics"                       -> MetricsScreen
      [] box = "audit"                         -> AuditScreen
      [] box = "preview"                       -> PreviewScreen
      [] box = "folders"                       -> FoldersScreen

LookupsNext ==
    \/ \E q \in Query : Type(q)
    \/ Repeat \/ TimerFires \/ TimerFilters
    \/ \E r \in asked : Answered(r) \/ Fails(r)

-------------------------------------------------------------------------------
(* Properties.                                                                 *)

\* The types of the variables.
LookupsTypeOK ==
    /\ box \in Boxes /\ query \in Query /\ results \in Query \cup {"empty"}
    /\ asked \subseteq [n: 0 .. MaxTyped, query: Query] /\ typed \in 0 .. MaxTyped
    /\ {timer, searching, error, astray} \subseteq BOOLEAN

\* When nothing is under way the screen shows the answer to the query that is
\* entered, a hint for none, and no sign of loading: whatever was typed, emptied
\* and typed again in between. Exceptions are the histories of astray: answers of
\* parts that do not drop any may cross or come after the text was emptied, a
\* request failed, and a preview was left while it loaded.
ResultsOfQuery ==
    ~timer /\ asked = {} /\ ~astray /\ typed > 0 =>
        Screen = CASE query = NoQuery /\ box \in Texts \cup {"preview"} -> "hint"
                   [] box = "preview" /\ query \notin Viewable \cup {NoQuery} -> "none"
                   [] OTHER -> query
===============================================================================
