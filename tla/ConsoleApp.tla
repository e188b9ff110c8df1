------------------------------- MODULE ConsoleApp -------------------------------
(* The domains page of the console (apps/console): a list of domains, the      *)
(* detail of the selected one, its mailboxes and its verification. Only the    *)
(* load of the detail looks at the selection when it is answered; every other  *)
(* answer changes the detail or the selection that it meets.                   *)
(*                                                                             *)
(* Of the server (services/mail) it matters which domains there are, which     *)
(* mailboxes they have, and how often they were verified, which stands for     *)
(* their records and the log of the checks.                                    *)
EXTENDS Naturals, FiniteSets

CONSTANTS
    Domains,      \* domains that may be added
    LocalParts,   \* local parts of mailboxes
    NoDomain,     \* null
    MaxConsole    \* bound: actions of the user

ASSUME ConsoleAssumption == NoDomain \notin Domains /\ MaxConsole \in Nat

VARIABLES
    owned,        \* the server: the domains
    boxesOf,      \* the server: the mailboxes of a domain
    checks,       \* the server: how often a domain was verified
    onPage,       \* the route is /domains
    domains, selectedId,
    detail,       \* detail and logs, [of, boxes, checks]
    detailLoad,   \* the load of the detail: "none", "asked", "served"
    detailGot,    \* what a served load carries
    jobs,         \* the other requests under way
    oldJobs,      \* changes asked for before the page was left, not yet taken
    conActs,
    tangled       \* the detail may not be that of the selection (history)

consoleVars == <<owned, boxesOf, checks, onPage, domains, selectedId, detail,
                 detailLoad, detailGot, jobs, oldJobs, conActs, tangled>>

mailVars == <<owned, boxesOf, checks>>

NoDetail  == [of |-> NoDomain, boxes |-> {}, checks |-> 0]
DetailOf(d) == [of |-> d, boxes |-> boxesOf[d], checks |-> checks[d]]

\* A request: "prefer" is the domain a list is to select, "of" the domain a click
\* was about, "got" what the server has answered.
Job(kind, of, box, prefer) ==
    [n |-> conActs', kind |-> kind, of |-> of, box |-> box, prefer |-> prefer,
     stage |-> "asked", got |-> NoDetail, list |-> {}]

FirstList == [n |-> 0, kind |-> "list", of |-> NoDomain, box |-> NoDomain,
              prefer |-> NoDomain, stage |-> "asked", got |-> NoDetail, list |-> {}]

ConsoleInit ==
    /\ owned \in SUBSET Domains
    /\ boxesOf = [d \in Domains |-> {}] /\ checks = [d \in Domains |-> 0]
    /\ onPage = TRUE /\ domains = {} /\ selectedId = NoDomain
    /\ detail = NoDetail /\ detailLoad = "none" /\ detailGot = NoDetail
    /\ jobs = {FirstList} /\ oldJobs = {} /\ conActs = 0 /\ tangled = FALSE

ConsoleAct == conActs < MaxConsole /\ conActs' = conActs + 1

\* What the page shows: the records of a domain and their state, the mailboxes, and
\* the log of the checks. The name above them is that of the selected domain.
RecordsShown   == [of |-> detail.of, checks |-> detail.checks]
MailboxesShown == detail.boxes
TimelineShown  == detail.checks

-------------------------------------------------------------------------------
(* The selection and its detail.                                               *)

\* Requests that change the detail that is shown when they are answered.
Changing == \E j \in jobs : j.kind # "list"

\* The effect of another selection: no detail without one, else the old detail
\* stays until the new one is answered, and the load before it is dropped.
Selected(d) ==
    /\ selectedId' = d
    /\ IF d = selectedId
       THEN UNCHANGED <<detail, detailLoad, tangled>>
       ELSE /\ detail' = IF d = NoDomain THEN NoDetail ELSE detail
            /\ detailLoad' = IF d = NoDomain THEN "none" ELSE "asked"
            /\ tangled' = Changing
    /\ detailGot' = IF d = selectedId THEN detailGot ELSE NoDetail

DetailServed ==
    /\ detailLoad = "asked" /\ selectedId \in owned
    /\ detailLoad' = "served" /\ detailGot' = DetailOf(selectedId)
    /\ tangled' = (tangled \/ Changing)
    /\ UNCHANGED <<mailVars, onPage, domains, selectedId, detail, jobs, oldJobs, conActs>>

DetailAnswered ==
    /\ detailLoad = "served"
    /\ detail' = detailGot /\ detailLoad' = "none" /\ detailGot' = NoDetail
    /\ UNCHANGED <<mailVars, onPage, domains, selectedId, jobs, oldJobs, conActs, tangled>>

\* A load that fails leaves the detail of another domain on the page.
DetailFails ==
    /\ detailLoad # "none"
    /\ detailLoad' = "none" /\ detailGot' = NoDetail
    /\ tangled' = TRUE
    /\ UNCHANGED <<mailVars, onPage, domains, selectedId, detail, jobs, oldJobs, conActs>>

-------------------------------------------------------------------------------
(* What the user asks for.                                                     *)

AskedFor(j) ==
    /\ ConsoleAct /\ onPage
    /\ jobs' = jobs \cup {j}
    /\ UNCHANGED <<mailVars, onPage, domains, selectedId, detail, detailLoad, detailGot, oldJobs>>

\* A change of the detail that is asked for while another or a load of it runs.
Meets == tangled' = (tangled \/ Changing \/ detailLoad # "none")

SelectDomain(d) ==
    /\ ConsoleAct /\ onPage /\ d \in domains
    /\ Selected(d)
    /\ UNCHANGED <<mailVars, onPage, domains, jobs, oldJobs>>

RefreshList    == AskedFor(Job("list", NoDomain, NoDomain, selectedId)) /\ UNCHANGED tangled
SubmitDomain(d) == AskedFor(Job("add", d, NoDomain, d)) /\ UNCHANGED tangled

AddMailbox(b) ==
    /\ selectedId # NoDomain
    /\ AskedFor(Job("box", selectedId, b, NoDomain)) /\ Meets

\* The mailboxes on the page are those of the detail; the request names the
\* selected domain.
RemoveMailbox(b) ==
    /\ selectedId # NoDomain /\ b \in MailboxesShown
    /\ AskedFor(Job("unbox", selectedId, b, NoDomain)) /\ Meets

RefreshVerification ==
    /\ selectedId # NoDomain
    /\ AskedFor(Job("verify", selectedId, NoDomain, selectedId)) /\ Meets

\* Another page of the console, and back: the state of the page is gone, and the
\* answers are for nobody. No request is aborted, so the server takes the changes still.
Leave ==
    /\ ConsoleAct /\ onPage
    /\ onPage' = FALSE /\ domains' = {} /\ selectedId' = NoDomain /\ detail' = NoDetail
    /\ detailLoad' = "none" /\ detailGot' = NoDetail
    /\ jobs' = {} /\ tangled' = FALSE
    /\ oldJobs' = oldJobs \cup {j \in jobs : j.stage = "asked" /\ j.kind # "list"}
    /\ UNCHANGED mailVars

Return ==
    /\ ~onPage
    /\ onPage' = TRUE /\ jobs' = {FirstList}
    /\ UNCHANGED <<mailVars, domains, selectedId, detail, detailLoad, detailGot, oldJobs,
                   conActs, tangled>>

-------------------------------------------------------------------------------
(* The requests.                                                               *)

\* Job j continues as k.
Becomes(j, k) == jobs' = (jobs \ {j}) \cup {k}

\* What the server changes, if it can; a mailbox is removed from its own domain
\* only.
MailChange(j) ==
    CASE j.kind = "list" -> UNCHANGED mailVars
      [] j.kind = "add" ->
            /\ j.of \notin owned /\ owned' = owned \cup {j.of}
            /\ UNCHANGED <<boxesOf, checks>>
      [] j.kind = "box" ->
            /\ j.of \in owned /\ j.box \notin boxesOf[j.of]
            /\ boxesOf' = [boxesOf EXCEPT ![j.of] = @ \cup {j.box}]
            /\ UNCHANGED <<owned, checks>>
      [] j.kind = "unbox" ->
            /\ j.of \in owned /\ j.box \in boxesOf[j.of]
            /\ boxesOf' = [boxesOf EXCEPT ![j.of] = @ \ {j.box}]
            /\ UNCHANGED <<owned, checks>>
      [] j.kind = "verify" ->
            /\ j.of \in owned
            /\ checks' = [checks EXCEPT ![j.of] = @ + 1]
            /\ UNCHANGED <<owned, boxesOf>>

JobServed(j) ==
    /\ j.stage = "asked"
    /\ MailChange(j)
    /\ Becomes(j, [j EXCEPT !.stage = IF j.kind = "verify" THEN "verified" ELSE "served",
                            !.list = owned])
    /\ UNCHANGED <<onPage, domains, selectedId, detail, detailLoad, detailGot, oldJobs,
                   conActs, tangled>>

\* After a verification the detail is asked for.
DetailAsked(j) ==
    /\ j.stage = "verified"
    /\ Becomes(j, [j EXCEPT !.stage = "served", !.got = DetailOf(j.of)])
    /\ UNCHANGED <<mailVars, onPage, domains, selectedId, detail, detailLoad, detailGot,
                   oldJobs, conActs, tangled>>

\* A list selects the domain it was asked to prefer, else the one that was selected
\* when it was asked for, else its first.
DomainsAnswered(j) ==
    /\ j.kind = "list" /\ j.stage = "served"
    /\ jobs' = jobs \ {j}
    /\ domains' = j.list
    /\ \E d \in IF j.prefer # NoDomain THEN {j.prefer}
               ELSE IF j.list = {} THEN {NoDomain} ELSE j.list : Selected(d)
    /\ UNCHANGED <<mailVars, onPage, oldJobs, conActs>>

\* The others change the detail that is shown now.
DetailChanged(j) ==
    CASE j.kind = "box"    -> IF detail = NoDetail THEN detail
                              ELSE [detail EXCEPT !.boxes = @ \cup {j.box}]
      [] j.kind = "unbox"  -> [detail EXCEPT !.boxes = @ \ {j.box}]
      [] j.kind = "verify" -> j.got
      [] j.kind = "add"    -> detail

\* Adding a domain and verifying one end with a list.
JobAnswered(j) ==
    /\ j.kind # "list" /\ j.stage = "served"
    /\ detail' = DetailChanged(j)
    /\ IF j.kind \in {"add", "verify"}
       THEN Becomes(j, [j EXCEPT !.kind = "list", !.stage = "asked", !.got = NoDetail])
       ELSE jobs' = jobs \ {j}
    /\ UNCHANGED <<mailVars, onPage, domains, selectedId, detailLoad, detailGot, oldJobs,
                   conActs, tangled>>

\* A request fails, or its answer is lost, and nobody is told but by a list.
JobFails(j) ==
    /\ jobs' = jobs \ {j}
    /\ \/ UNCHANGED mailVars
       \/ j.stage = "asked" /\ MailChange(j)
    /\ tangled' = (tangled \/ boxesOf' # boxesOf \/ checks' # checks
                         \/ (j.kind # "list" /\ j.stage # "asked"))
    /\ UNCHANGED <<onPage, domains, selectedId, detail, detailLoad, detailGot, oldJobs, conActs>>

\* The server takes a change of a page that was left, perhaps after it has served the
\* detail of the domain for the page that is open now. Or it never does.
OldJobServed(j) ==
    /\ MailChange(j) /\ oldJobs' = oldJobs \ {j}
    /\ tangled' = (tangled \/ (j.kind # "add" /\ j.of = selectedId /\ detailLoad # "asked"))
    /\ UNCHANGED <<onPage, domains, selectedId, detail, detailLoad, detailGot, jobs, conActs>>

ConsoleNext ==
    \/ DetailServed \/ DetailAnswered \/ DetailFails
    \/ \E d \in Domains : SelectDomain(d) \/ SubmitDomain(d)
    \/ RefreshList \/ RefreshVerification \/ Leave \/ Return
    \/ \E b \in LocalParts : AddMailbox(b) \/ RemoveMailbox(b)
    \/ \E j \in jobs : \/ JobServed(j) \/ DetailAsked(j) \/ DomainsAnswered(j)
                       \/ JobAnswered(j) \/ JobFails(j)
    \/ \E j \in oldJobs : OldJobServed(j)

-------------------------------------------------------------------------------
(* Properties.                                                                 *)

\* The types of the variables.
ConsoleTypeOK ==
    /\ owned \subseteq Domains /\ domains \subseteq Domains
    /\ boxesOf \in [Domains -> SUBSET LocalParts]
    /\ checks \in [Domains -> 0 .. MaxConsole]
    /\ selectedId \in Domains \cup {NoDomain} /\ detail.of \in Domains \cup {NoDomain}
    /\ detailLoad \in {"none", "asked", "served"} /\ conActs \in 0 .. MaxConsole
    /\ {onPage, tangled} \subseteq BOOLEAN

\* When nothing is under way, the records, the mailboxes and the checks on the page
\* are those the selected domain has on the server, though lists select domains
\* when they are answered. Exceptions are the histories of tangled: a change that
\* was asked for while another, or the load of the detail, was under way, another
\* domain selected before it was answered, an answer that was lost, a change of a page
\* that was left which the server took after it had served the detail.
DetailIsOfSelection ==
    jobs = {} /\ detailLoad = "none" /\ ~tangled /\ selectedId # NoDomain =>
        /\ RecordsShown = [of |-> selectedId, checks |-> checks[selectedId]]
        /\ MailboxesShown = boxesOf[selectedId]
        /\ TimelineShown = checks[selectedId]
===============================================================================
