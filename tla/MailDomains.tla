------------------------------ MODULE MailDomains ------------------------------
(* The domains page of the mail application: the list, the detail of the       *)
(* active domain and their dialogs (components/domains), and the store both    *)
(* read (store/domains.ts), into which every answer goes that comes, whichever *)
(* domain is active by then. No route of the application shows this page yet.  *)
(*                                                                             *)
(* Of the server (services/mail) it matters which domains there are, which     *)
(* mailboxes they have, and how often they were verified.                      *)
EXTENDS Naturals, FiniteSets

CONSTANTS
    CustomDomains,    \* domains that may be added
    NoCustom,         \* null
    MaxDomainActs     \* bound: actions of the user

ASSUME MailDomainsAssumption == NoCustom \notin CustomDomains /\ MaxDomainActs \in Nat

VARIABLES
    held, spent,      \* the server: the domains, and those there have been
    mailboxesOf,      \* the server: the mailboxes of a domain
    verified,         \* the server: how often a domain was verified
    domainView,       \* "list" or "detail"
    domainList,       \* [id, checks]
    activeDomainId,
    activeDomain,     \* [id, checks, records, mailboxes]: the domain, whose records
                      \* are with it, and the mailboxes
    dnsLogs,          \* of which domain the logs are
    waiting,          \* the flags of the store and the components that are up
    popup,            \* the dialog that covers the page
    detailTab,
    inFlight,         \* requests under way
    domainActs,
    overtaken         \* something was asked for or lost in the middle (history)

domainVars == <<held, spent, mailboxesOf, verified, domainView, domainList,
                activeDomainId, activeDomain, dnsLogs, waiting, popup, detailTab,
                inFlight, domainActs, overtaken>>

hosted == <<held, spent, mailboxesOf, verified>>
storedVars == <<domainList, activeDomain, dnsLogs>>

NoActive == [id |-> NoCustom, checks |-> 0, records |-> NoCustom, mailboxes |-> {}]

\* What the server answers for a domain, and for the list.
DomainResponse(d) ==
    [id |-> d, checks |-> verified[d], records |-> d, mailboxes |-> mailboxesOf[d]]

ListDomains == {[id |-> d, checks |-> verified[d]] : d \in held}

\* A request of the action n: "after" says that it was sent by an effect of a component
\* or after another request, "mine" that the component that waits is still there.
DomainAsk(n, kind, of, after) ==
    [n |-> n, kind |-> kind, of |-> of, box |-> 0, after |-> after, mine |-> TRUE,
     served |-> FALSE, got |-> NoActive, list |-> {}]

DomainsInit ==
    /\ held \in SUBSET CustomDomains /\ spent = held
    /\ mailboxesOf = [d \in CustomDomains |-> IF d \in held THEN {0} ELSE {}]
    /\ verified = [d \in CustomDomains |-> 0]
    /\ domainView = "list" /\ domainList = {} /\ activeDomainId = NoCustom
    /\ activeDomain = NoActive /\ dnsLogs = NoCustom /\ waiting = {"list"}
    /\ popup = "none" /\ detailTab = "dns"
    /\ inFlight = {DomainAsk(0, "list", NoCustom, "mount")}
    /\ domainActs = 0 /\ overtaken = FALSE

\* Requests under way that change something.
Changes == \E r \in inFlight : r.kind \notin {"list", "get", "logs"}

-------------------------------------------------------------------------------
(* The page.                                                                   *)

\* The flags of the components; those of the store outlive them.
OfComponents == {"add", "verify", "box"}

\* The store shows view v with active domain d, while the requests rs are under way and
\* the flags w are up. A list that appears loads itself; a detail loads the active
\* domain when it appears and whenever another becomes active. What a component holds
\* is gone with it.
Shows(v, d, rs, w, n) ==
    LET moved == v # domainView
        list  == IF moved /\ v = "list" THEN {DomainAsk(n, "list", d, "mount")} ELSE {}
        load  == IF v = "detail" /\ d # NoCustom /\ (moved \/ d # activeDomainId)
                 THEN {DomainAsk(n, "get", d, "mount")} ELSE {}
    IN /\ domainView' = v /\ activeDomainId' = d
       /\ inFlight' = list \cup load \cup
                  {[r EXCEPT !.mine = @ /\ ~moved] : r \in rs}
       /\ waiting' = {f \in w : ~(moved /\ f \in OfComponents)}
                     \cup {r.kind : r \in list \cup load}
       /\ detailTab' = IF moved THEN "dns" ELSE detailTab

\* The list, unless a dialog covers it; and the detail, which is a spinner with no way
\* back while it is loaded, or if there is none.
OnList   == domainView = "list" /\ popup = "none"
OnDetail == domainView = "detail" /\ "get" \notin waiting /\ activeDomain.id # NoCustom

DetailShown == IF OnDetail THEN activeDomain ELSE NoActive

\* What it shows: the domain with its progress, and below one of three tabs.
HeaderShown == [id |-> DetailShown.id, checks |-> DetailShown.checks]
RecordsOf   == IF detailTab = "dns" THEN DetailShown.records ELSE NoCustom
BoxesShown  == IF detailTab = "mailboxes" THEN DetailShown.mailboxes ELSE {}
LogsShown   == IF OnDetail /\ detailTab = "logs" /\ "logs" \notin waiting
               THEN dnsLogs ELSE NoCustom

\* The forms, with their buttons.
CanSubmit     == domainView = "list" /\ popup = "add" /\ "add" \notin waiting
CanAddMailbox == /\ OnDetail /\ detailTab = "mailboxes" /\ popup = "box"
                 /\ "box" \notin waiting

DomainAct == domainActs < MaxDomainActs /\ domainActs' = domainActs + 1

\* The page stays as it is, and the request r is sent.
Sends(r, w) ==
    /\ inFlight' = inFlight \cup {r} /\ waiting' = waiting \cup w
    /\ UNCHANGED <<hosted, storedVars, domainView, activeDomainId>>

-------------------------------------------------------------------------------
(* What the user does.                                                         *)

FetchDomains ==
    /\ DomainAct /\ OnList
    /\ Sends(DomainAsk(domainActs', "list", NoCustom, "click"), {"list"})
    /\ overtaken' = (overtaken \/ Changes)
    /\ UNCHANGED <<popup, detailTab>>

\* The click loads the domain, and so does the detail that appears.
HandleDomainClick(d) ==
    /\ DomainAct /\ OnList /\ d \in {x.id : x \in domainList}
    /\ Shows("detail", d, inFlight \cup {DomainAsk(domainActs', "get", d, "click")},
             waiting \cup {"get"}, domainActs')
    /\ overtaken' = (inFlight # {})
    /\ UNCHANGED <<hosted, storedVars, popup>>

\* The dialogs: each is opened from the page, and closed though its form is under way.
TurnsDialog(from, to) ==
    /\ DomainAct /\ popup = from /\ popup' = to
    /\ UNCHANGED <<hosted, storedVars, domainView, activeDomainId, waiting, detailTab, inFlight,
                   overtaken>>

OpenAdd           == domainView = "list" /\ TurnsDialog("none", "add")
CloseAdd          == domainView = "list" /\ TurnsDialog("add", "none")
OpenAddMailbox    == OnDetail /\ detailTab = "mailboxes" /\ TurnsDialog("none", "box")
CloseAddMailbox   == OnDetail /\ TurnsDialog("box", "none")
OpenDeleteConfirm == OnDetail /\ TurnsDialog("none", "delete")
CancelDelete      == OnDetail /\ TurnsDialog("delete", "none")

\* A change that is asked for while anything is under way may overtake it.
Asks(r, w) ==
    /\ Sends(r, w)
    /\ overtaken' = (overtaken \/ inFlight # {})
    /\ UNCHANGED <<popup, detailTab>>

\* A form is not sent twice, while its dialog is there.
HandleSubmit(d) ==
    /\ DomainAct /\ CanSubmit
    /\ Asks(DomainAsk(domainActs', "add", d, "click"), {"add"})

HandleAddMailbox ==
    /\ DomainAct /\ CanAddMailbox
    /\ Asks([DomainAsk(domainActs', "box", activeDomain.id, "click")
                EXCEPT !.box = domainActs'], {"box"})

DeleteMailbox(b) ==
    /\ DomainAct /\ OnDetail /\ popup = "none" /\ b \in BoxesShown
    /\ Asks([DomainAsk(domainActs', "unbox", activeDomain.id, "click")
                EXCEPT !.box = b], {})

\* The requests name the domain that is shown.
HandleVerify ==
    /\ DomainAct /\ OnDetail /\ popup = "none" /\ "verify" \notin waiting
    /\ Asks(DomainAsk(domainActs', "verify", activeDomain.id, "click"), {"verify"})

HandleDelete ==
    /\ DomainAct /\ OnDetail /\ popup = "delete"
    /\ Asks(DomainAsk(domainActs', "delete", activeDomain.id, "click"), {})

ChooseTab(t) ==
    /\ DomainAct /\ OnDetail /\ popup = "none" /\ detailTab' = t
    /\ IF t = "logs"
       THEN Sends(DomainAsk(domainActs', "logs", activeDomain.id, "click"), {"logs"})
       ELSE UNCHANGED <<hosted, storedVars, domainView, activeDomainId, waiting, inFlight>>
    /\ overtaken' = (overtaken \/ Changes)
    /\ UNCHANGED popup

BackToDomains ==
    /\ DomainAct /\ OnDetail /\ popup = "none"
    /\ Shows("list", activeDomainId, inFlight, waiting, domainActs')
    /\ overtaken' = (overtaken \/ Changes)
    /\ UNCHANGED <<hosted, storedVars, popup>>

-------------------------------------------------------------------------------
(* The requests.                                                               *)

\* What the server changes, if it can.
HostedChange(r) ==
    CASE r.kind = "list" -> UNCHANGED hosted
      [] r.kind \in {"get", "logs"} -> r.of \in held /\ UNCHANGED hosted
      [] r.kind = "add" ->
            /\ r.of \notin spent /\ spent' = spent \cup {r.of}
            /\ held' = held \cup {r.of} /\ UNCHANGED <<mailboxesOf, verified>>
      [] r.kind = "delete" ->
            /\ r.of \in held /\ held' = held \ {r.of}
            /\ UNCHANGED <<spent, mailboxesOf, verified>>
      [] r.kind = "verify" ->
            /\ r.of \in held /\ verified' = [verified EXCEPT ![r.of] = @ + 1]
            /\ UNCHANGED <<held, spent, mailboxesOf>>
      [] r.kind = "box" ->
            /\ r.of \in held
            /\ mailboxesOf' = [mailboxesOf EXCEPT ![r.of] = @ \cup {r.box}]
            /\ UNCHANGED <<held, spent, verified>>
      [] r.kind = "unbox" ->
            /\ r.of \in held /\ r.box \in mailboxesOf[r.of]
            /\ mailboxesOf' = [mailboxesOf EXCEPT ![r.of] = @ \ {r.box}]
            /\ UNCHANGED <<held, spent, verified>>

DomainServed(r) ==
    /\ ~r.served /\ HostedChange(r)
    /\ inFlight' = (inFlight \ {r}) \cup
               {[r EXCEPT !.served = TRUE,
                          !.got = IF r.kind \in {"get", "add", "verify"}
                                  THEN [DomainResponse(r.of) EXCEPT
                                            !.checks = verified'[r.of]]
                                  ELSE NoActive,
                          !.list = IF r.kind = "list" THEN ListDomains ELSE {}]}
    /\ UNCHANGED <<storedVars, domainView, activeDomainId, waiting, popup, detailTab, domainActs,
                   overtaken>>

\* The flags when request r has ended, and the component that waits is told.
Ended(r) ==
    waiting \ {f \in OfComponents \cup {"list", "get", "logs"} :
                  \/ r.kind = f /\ (f \in OfComponents => r.mine)
                  \/ f = "verify" /\ r.after = "verify" /\ r.mine}

\* The dialog when it has: one goes with its component, and a form closes its own.
DialogAfter(r, v) ==
    IF v # domainView \/ (r.mine /\ r.kind = popup /\ r.kind # "delete")
    THEN "none" ELSE popup

\* An answer goes into the store as it is; a change of the detail goes into the one of
\* the domain that is active now.
InDetail(r) ==
    IF activeDomain = NoActive THEN NoActive
    ELSE CASE r.kind = "verify" -> [activeDomain EXCEPT !.id = r.of,
                                                        !.checks = r.got.checks]
           [] r.kind = "box"    -> [activeDomain EXCEPT !.mailboxes = @ \cup {r.box}]
           [] r.kind = "unbox"  -> [activeDomain EXCEPT !.mailboxes = @ \ {r.box}]

\* A list, a detail and logs take the place of those before them.
DomainsLoadAnswered(r) ==
    /\ r.served /\ r.kind \in {"list", "get", "logs"}
    /\ inFlight' = inFlight \ {r} /\ waiting' = Ended(r)
    /\ domainList'   = IF r.kind = "list" THEN r.list ELSE domainList
    /\ activeDomain' = IF r.kind = "get" THEN r.got ELSE activeDomain
    /\ dnsLogs'      = IF r.kind = "logs" THEN r.of ELSE dnsLogs
    /\ UNCHANGED <<hosted, domainView, activeDomainId, popup, detailTab, domainActs,
                   overtaken>>

\* A domain that was added becomes the active one, wherever the user is by then; one
\* that was deleted leads to the list. (A domain that is listed twice is listed here.)
DomainAdded(r) ==
    /\ r.served /\ r.kind = "add"
    /\ domainList' = domainList \cup {[id |-> r.of, checks |-> r.got.checks]}
    /\ activeDomain' = r.got
    /\ Shows("detail", r.of, inFlight \ {r}, Ended(r), r.n)
    /\ popup' = DialogAfter(r, "detail")
    /\ UNCHANGED <<hosted, dnsLogs, domainActs, overtaken>>

DomainDeleted(r) ==
    /\ r.served /\ r.kind = "delete"
    /\ domainList' = {x \in domainList : x.id # r.of}
    /\ activeDomain' = NoActive
    /\ Shows("list", NoCustom, inFlight \ {r}, Ended(r), r.n)
    /\ popup' = DialogAfter(r, "list")
    /\ UNCHANGED <<hosted, dnsLogs, domainActs, overtaken>>

MailboxChanged(r) ==
    /\ r.served /\ r.kind \in {"box", "unbox"}
    /\ activeDomain' = InDetail(r)
    /\ inFlight' = inFlight \ {r} /\ waiting' = Ended(r)
    /\ popup' = DialogAfter(r, domainView)
    /\ UNCHANGED <<hosted, domainView, domainList, activeDomainId, dnsLogs, detailTab,
                   domainActs, overtaken>>

\* After a verification its domain is loaded, and becomes the active one with that.
DomainVerified(r) ==
    /\ r.served /\ r.kind = "verify"
    /\ domainList' = {IF x.id = r.of THEN [x EXCEPT !.checks = r.got.checks] ELSE x :
                        x \in domainList}
    /\ activeDomain' = InDetail(r)
    /\ Shows(domainView, r.of,
             (inFlight \ {r}) \cup
                 {[DomainAsk(r.n, "get", r.of, "verify") EXCEPT !.mine = r.mine]},
             waiting \cup {"get"}, r.n)
    /\ UNCHANGED <<hosted, dnsLogs, popup, domainActs, overtaken>>

\* A request fails, before or after the server did what it asks: a flag goes down, and
\* what is shown stays.
DomainFails(r) ==
    /\ inFlight' = inFlight \ {r} /\ waiting' = Ended(r)
    /\ \/ UNCHANGED hosted
       \/ ~r.served /\ HostedChange(r)
    /\ overtaken' = TRUE
    /\ UNCHANGED <<storedVars, domainView, activeDomainId, popup, detailTab, domainActs>>

DomainsNext ==
    \/ FetchDomains \/ HandleAddMailbox \/ HandleVerify \/ HandleDelete \/ BackToDomains
    \/ OpenAdd \/ CloseAdd \/ OpenAddMailbox \/ CloseAddMailbox
    \/ OpenDeleteConfirm \/ CancelDelete
    \/ \E d \in CustomDomains : HandleDomainClick(d) \/ HandleSubmit(d)
    \/ \E b \in BoxesShown : DeleteMailbox(b)
    \/ \E t \in {"dns", "mailboxes", "logs"} : ChooseTab(t)
    \/ \E r \in inFlight : \/ DomainServed(r) \/ DomainsLoadAnswered(r) \/ DomainAdded(r)
                       \/ DomainDeleted(r) \/ MailboxChanged(r) \/ DomainVerified(r)
                       \/ DomainFails(r)

-------------------------------------------------------------------------------
(* Properties.                                                                 *)

\* The types of the variables.
DomainsTypeOK ==
    /\ held \subseteq spent /\ spent \subseteq CustomDomains
    /\ domainView \in {"list", "detail"}
    /\ mailboxesOf \in [CustomDomains -> SUBSET (0 .. MaxDomainActs)]
    /\ verified \in [CustomDomains -> 0 .. MaxDomainActs]
    /\ domainList \subseteq [id: CustomDomains, checks: 0 .. MaxDomainActs]
    /\ {activeDomainId, activeDomain.id, activeDomain.records, dnsLogs}
         \subseteq CustomDomains \cup {NoCustom}
    /\ waiting \subseteq {"list", "get", "logs", "add", "verify", "box"}
    /\ popup \in {"none", "add", "box", "delete"} /\ overtaken \in BOOLEAN
    /\ detailTab \in {"dns", "mailboxes", "logs"} /\ domainActs \in 0 .. MaxDomainActs

\* When nothing is under way the list shows the domains of the server, and the detail
\* shows one domain, the active one, with its own records, its mailboxes and its logs.
\* Exceptions are the histories of overtaken, until a domain is opened while nothing is
\* under way: a request that failed, or one that was sent while a change was.
ActiveDomainWhole ==
    inFlight = {} /\ ~overtaken =>
        /\ domainView = "list" => domainList = ListDomains
        /\ domainView = "detail" =>
              /\ OnDetail /\ activeDomainId \in held
              /\ HeaderShown = [id |-> activeDomainId,
                                checks |-> verified[activeDomainId]]
              /\ RecordsOf \in {NoCustom, activeDomainId}
              /\ detailTab = "mailboxes" => BoxesShown = mailboxesOf[activeDomainId]
              /\ LogsShown \in {NoCustom, activeDomainId}

\* No flag stays up, whatever fails: a spinner or a disabled button has a request
\* under way that will end it.
FlagsHaveRequests ==
    \A f \in waiting : \E r \in inFlight :
        r.kind = f \/ (f = "verify" /\ r.after = "verify" /\ r.mine)
===============================================================================
