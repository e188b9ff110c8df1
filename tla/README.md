# Formal models of the haseen services and applications

This directory holds TLA+ models of the Go services under `src/services`, of the
web applications under `src/apps` and of the parts of the UI library with a state
of their own, the TLC configurations that check them on small instances, and
proofs about the services and the applications that TLAPS checks for all values of the
constants. Every definition is translated from the Go, SQL and TypeScript sources; `PROJECT.json`
maps each one to its lines.

## 1. Inventory

The backend is a set of Go services over one PostgreSQL database. They hardly
ever use transactions that span two statements, and call each other only through
the tables. The hard behaviour is in the interleaving of statements, in what is
left behind when one of several steps fails, and in the goroutines that outlive
the request that started them.

The web applications are React pages, each with a store of its own (zustand). They
send requests whose answers come in any order, change their lists before the
answer and put them back when it fails, and delay what can be undone by five
seconds. The hard behaviour is in what an answer, a timer or an effect finds when it
runs: the page has gone on, and most of them do not look.

| Part | State | Operations | Interacts with | Hard behaviour | What makes it correct | Status |
|---|---|---|---|---|---|---|
| Outbound queue and relay (`mail/internal/store/domain.go`, `worker/relay.go`, `smtp/sender.go`) | table `outbound_queue`; the batch of a relay worker | enqueue, claim of a batch, send domain by domain and MX host by MX host, mark sent or failed with a delay | rows come from compose; remote hosts; the cascade of account deletion | two services relay at once; crash between claim and outcome; lost replies; retries | no row on two workers; `sent` is true; bounded duplicates; nothing starves | modelled, proved |
| Compose and send (`handler/draft.go`, `handler/message.go`, `store/message.go`) | `mail_messages` of the sender; the delivery goroutine | save, update and send a draft; send; move; delete | inboxes of local users, the outbound queue, the event broker | a draft edited, moved or sent twice while it is sent; a goroutine lost in a crash | every recipient gets what the send lists, no more | in part, proved |
| Inbound SMTP (`smtp/server.go`, `smtp/session.go`) | listener, `WaitGroup`, one session per connection | accept, HELO, MAIL, RCPT, DATA, RSET, QUIT, Stop | inboxes, users | envelope reuse within a connection; delivery that fails half way and is repeated; shutdown | acknowledged mail is stored, nobody gets another message's mail | modelled, proved |
| Event broker (`events/broker.go`, `handler/events.go`) | map from users to channels, an `RWMutex` | subscribe, unsubscribe, publish | handlers and SMTP sessions publish | close against send, slow clients, lock queues | no panic, order, nobody waits for a slow client | modelled, proved |
| Key server (`keyserver/internal/...`, `auth/.../handleUploadKeys`) | `public_key_bundles`, `signed_pre_keys` | publish, rotate, revoke, replace, upload and claim pre-keys, look up | two services write one table | row locks, snapshots, deadlocks, reuse of ids | a revoked key stays revoked; a pre-key is handed out once by claims that do not overlap | modelled, proved |
| Request identity (`*/internal/middleware/auth.go`, `*/internal/handler/handler.go`) | `sessions`; the request context | look up the session, set and read the user id | all services | Go context keys compare by type | a handler acts for the session's user | modelled |
| Mail: composing (`apps/mail`, `ComposePanel.tsx`) | the panel, its refs, the draft id, one remembered timer | write, reply, forward, minimize, close, send, undo | the store of the page, drafts on the server | a panel that stays mounted; two delayed sends at once; late draft answers | what is posted was composed as one message; what is written stays | in part, proved |
| Mail: mailbox (`apps/mail`, `App.tsx`, hooks, store) | list, cursor, label, requests under way | load, load more, move, flag, open, event stream, polling | other tabs through the server | answers after a change of label, pages that shift, failed moves | the list is of its label, no doubles, and becomes the server's | in part, proved |
| Mail: three panes and domains page (`apps/mail`, components no route mounts yet) | rows, selection, open thread, delayed moves, labels; domains and their detail | choose a label, tick, move and flag in bulk, archive with Undo, reply in place; add, verify and delete domains and mailboxes | other tabs through the server, the mail service | handlers that put back the rows of their closure; a refresh that keeps the cursor; a detail that loads while another is asked for | the rows are the label's; the detail is whole | in part, proved |
| Calendar (`apps/calendar`) | date, mode, list of events, dialog, saves, drags | load, save step by step, drag and revert, navigate | the server's events | a list replaced as a whole; dates at the end of a month; hooks after a return | what is shown is stored; what is in the window is shown whole | modelled, proved |
| Contacts (`apps/contacts`) | vault key of the browser, list, selection, editor | load, decrypt, save, delete, search | other browsers with other keys | late answers close or remove what is selected by then | records of other keys stay; one primary address | modelled, proved |
| Drive (`apps/drive`) | list of the shown folder, selection, timers of deletions | open, upload, delete with Undo, move, star, rename, restore, empty the trash | rows and blobs of the service | lists replaced by the one the click saw; Undo against the timer | the list is the folder; what is undone stays | in part, proved |
| Accounts (`apps/accounts`) | user, cookie, encrypted keys in local storage, second factor, recovery key | sign up, in and out, hydrate, profile, password, links, export | all applications through the cookie | closures over an old user; keys of a sign-up that failed | the user is that of the session; the stored keys open | modelled, proved |
| Console (`apps/console`) | list, selection and detail of domains | add, delete, verify, mailboxes | the domains of the service | answers put into the detail shown by then | the detail is that of the selection | modelled, proved |
| Searches, suggestions, previews (five pages of drive, mail, console) | what is typed, a timer, the answer shown | type, empty, leave | - | answers in any order, timers | the screen answers what is entered | modelled, proved |
| Key pairs (`apps/*/store/crypto.ts`, `packages/crypto`) | a pair per application and browser, the key server's key of a user, the encrypted copy of the registration | open an application, publish, seal, sign in, sign out | key server, mail | three pairs, published once without waiting; pages that outlive the sign-out | what is published is held; what is sealed can be opened | modelled, proved |
| Dialogs that share a file and add a calendar | form, list, requests | open, edit, send, close | drive and calendar services | answers for a dialog that shows something else | lists what was granted; can be sent | modelled, proved |
| UI library (`src/ui`) | focus, highlight, boxes of a code, message, theme | keys, clicks, timers, effects | every application | effects undone and done again; timers of another message | the focus is in what is open; nothing disabled is chosen; the theme is the stored one | in part, proved |
| Accounts service (`auth/internal/httpapi`, `store`) | users, sessions, second factor, one-time tokens, recovery keys | register, sign in, verify, reset, change, set up a factor, sign out, suspend, delete | all services through `sessions`; resources of mail and drive | statements that commit one by one; what was read is old when it is used | a session is one the account is entitled to; a token works once | in part, proved |
| Custom domains and DNS worker (`handler/domain.go`, `worker/dns.go`, `store/domain.go`) | `custom_domains`, `dkim_keys`; the batch and the checks under way | add, delete, check, declare verified | DNS; the administrator in the auth service | checks that take seconds beside changes of the row; batches | a row says what DNS says; each domain has its turn | in part, proved |
| Drive service, calendar service, rate limiters, mailbox and threads of the mail service | tables | statements | - | steps that are not one transaction | - | left to a later stage; what their requests change is in the models of the applications |
| Contacts service, attachments, DKIM signing, gateway proxy, WebAuthn, metrics and audit, shared packages, gallery and marketing pages, schema, deployment | - | single statements, cryptography, external input and output, generated code | - | - | - | not modelled; the reason of each is in `PROJECT.json` |

## 2. Plan

Done, in this order: the outbound queue and its promise, composing, inbound SMTP,
the event broker, request identity, the key server; then the applications: the
compose panel, the mailbox, the calendar (two modules), contacts, drive, accounts,
console, the searches, the export, the key pairs, the two dialogs, the stateful
components of the UI library, and the three panes and the domains page of mail; at
last two more services, accounts and custom domains. The safety of the queue, of the
SMTP server, of the event broker, of the key server, of sending, of the accounts service,
of the custom domains, of the compose panel, of the mailbox page and of all the modules that
`MCWebApps` puts side by side is proved.

What is left, in the order of its worth:

1. `Drive` (the service): rows and blobs in separate steps; `Recurrence`: the expansion
   of recurring events against a declarative definition; `RateLimit`.
2. A composition of `MailCompose`, `MailSend` and `OutboundQueue`, from a click on
   Send to the settled row.

Every module follows one pattern: parameters as constants with a named
assumption, one action per operation or per step between two database calls, and
for a page one action per event with the render and the effects it causes;
invariants as conjunctions of named parts, and no recursive operator in a module
that is proved about. An operator whose comment begins with "Mutant:" is a
deliberate mistake next to the definition it would replace; it belongs to no
specification, and `PROJECT.json` says which property it breaks.

## 3. The modules

### OutboundQueue, OutboundPromise, OutboundQueue_proofs

The state has the columns of `outbound_queue` the code reads (`status`,
`attempts`, `nextRetryAt`, `rcpts`), the local variables of each relay worker
(`batch`, `seen`, `current` for the loop of `processQueue`; `todo`, `domain`,
`host`, `lastErr` for the nested loops of `Send`, `deliverToDomain` and
`deliverToHost`), and what the world has seen (`copies`, `refused`). One action
stands for one statement or for one dialogue with a host: `Claim` for
`GetQueuedMessages`, `HostAccepts`, `HostFails` and `ReplyLost` for what
`deliverToHost` may meet, `MarkMessageSent` and `MarkMessageFailed` for the
updates. `Crash`, `ClaimLost` and `MarkLost` are the faults; `DeleteUser` of the
auth service cascades to the rows. The clock counts minutes and moves only while
a row waits for it.

`OutboundPromise` says what the queue promises to someone who only sees the
outcome of a message: `sent` only when each address that can be routed was
reached or refused, `failed` and `sent` for ever, and at most a fixed number of
copies for an address. `OutboundQueue` implements it (`PromiseKept`) under the
mapping `Outcome`, in which `queued`, `sending` and `deferred` are all "open".

DKIM signing is left out since `EnqueueOutbound` never stores a `domain_id`, and
the relay signs only for one.

### MailSend, MailSend_proofs

A message row of the sender (`row`), each request with the goroutine it leaves
behind (`req`), and for each request the copies it has put in local inboxes (`inbox`)
and its outbound rows that list an address (`listed`). Requests read, check and write in separate actions, as the handlers do
(`UpdateDraft`, `SendDraft`). The goroutine visits To, Cc and Bcc in order. A
failed lookup makes a recipient an external one, a failed insert skips it, a crash
ends the goroutine, as in the code. Contents are edit numbers.

### SmtpInbound (proofs in Services_proofs)

The server (`listening`, `stopping` while `Stop` waits for the sessions, `stopped`,
`exited`), a record per connection with
`mailFrom`, `rcptTo` and the recipient being delivered to, the accounts, the
stored copies. Clients give commands in any order and repeat messages; accounts
disappear between any two database calls. When the deadline of DATA passes, the command
loop goes on with the envelope that was there (`session.go:207-214`), and the client may add
recipients and send the data again; what is assumed of it is that it sends no other message in
an envelope for which it was refused a new one (503 to MAIL). `Stop` waits for the `WaitGroup`, and a
connection that was accepted just before may join it too late (`late`).
STARTTLS is left out: `main` passes no TLS configuration.

### EventBroker, EventBroker_proofs

The `RWMutex` is modelled with the preference of Go's implementation: a waiting
writer keeps new readers out, and waits for the readers that are in. A publisher
holds the read lock while it sends to the channels one by one, without waiting
for any; `Subscribe` and the unsubscribe function hold the write lock, the latter
also while it closes the channel. `got`, `due` and `lost` are histories.

### KeyServer, KeyServer_proofs

One action for the start of each statement (the rows it sees are those of its
snapshot), one for each row it locks, one for each commit. A bundle is known by
the request that brought it. `created_at` is the start of the transaction, so the
order of `created_at` is not the order of commits; the model takes these times to
be distinct and increasing, as one database clock that is not set back gives
them. The auth service's replacement of keys is two transactions, and it goes on
when the first fails. The deadlock detector rolls one of the waiting requests
back. Two consequences of the code that are no violations of a statement in it:
two rotations that overlap leave two active bundles, of which the younger is
served, and pre-keys survive a rotation.

### RequestIdentity

Sessions come and go; the middleware of a service stores the user under a key,
and its handler reads it. A key is a pair of a type and a text, and the packages
that declare the types are constants that `MCRequestIdentity` reads off the code.
The other modules take the handlers with the identity the comments promise: they
describe what the handlers do for a user once they know who it is.

### AuthService (proofs in Services_proofs)

The requests about one account. A handler is the sequence of its statements
(`handleLogin`, `handleResetPassword`, ...), a request the record of what it carries and
of the statements it still has to make, and an action is one statement of one request,
with the handler's look at its result. What a request makes (a session, a token, a
secret, a key) has the number of the request. `Unchecked` and `EndsCall` name the
statements whose errors the code drops, `Fails` is any statement that fails and
`ServiceStops` the end of the process. `past` of a request are those that were answered
before it began, so that the properties can tell requests that overlap from those that
do not; `running` are the requests that were under way when sessions were last deleted.

### CustomDomains (proofs in Services_proofs)

The rows with their DKIM keys, the batch and the check of the worker, the checks the
owner asks for. A check looks one record up after the other and writes what it found in
one statement, whatever was written in between. `lastChecked` is the order of the
`last_checked_at` of the rows, a relation of their ids, and `Batches` are the answers that
`ORDER BY last_checked_at ASC NULLS FIRST LIMIT 50` allows. `zone` is what DNS says and changes at any
time; `past` keeps what the properties compare a row with: whether its last write was
that of an undisturbed check, how many batches have passed it over, whether it has been
verified since the last batch was selected.

### The modules of the applications

They follow one convention. An action is one event of the page, with the render and
the effects that follow from it before the next event: a click or a key, an answer, a
timer, an event of the stream. A request is a record in a set (`calls`, `jobs`,
`changes`, ...) with what its closure has captured; in most modules it is served and
answered in two steps, so that the server may change in between and the answer be
lost. Names, texts and formats are members of small sets. The server is modelled by
what a request changes in it, as far as the application can tell.

Several of the pages are wrong in races that are easy to see in the code, for example
two requests that each replace the whole list. A property that held only without any
race would say little, and one that ignored them would be false. Each such module has
a history variable (`mixed`, `raced`, `off`, `tangled`, `astray`, `crossed`, `overlap`,
`userOff`, `shifted`, `replaced`, `overtaken`, ...) that is set in the action in which such a race begins, and that the
next load or opening of the page resets. The property says that whatever else
happens the page comes to show what it should; the places where the variable is set
are the list of the races the code leaves open.

| Module | What it models | Remarks |
|---|---|---|
| `MailCompose` (proofs in `MailSend_proofs`) | `ComposePanel.tsx` with the recipients, the store's compose fields, drafts, sends and Undo | a text is the set of its pieces (typed words, quotations, the signature). The closures of a timer are kept in `snapshot`; `pending`, `timer` and `ref` are the refs, which are of the panel and not of a message |
| `MailClient`, `MailClient_proofs` | the store, `useMailboxData`, `useInboxEvents`, the page's optimistic actions | a thread's number is its age; a list entry carries the label it was asked for, which the code does not keep |
| `CalendarViews` | the date, the view modes, the grids, which events a day shows | five months with their lengths as a constant; a date past the end of a month runs on, as in JavaScript. `MonthView` lists three events of a day and the number of the others; the model has them all |
| `CalendarApp` | load, dialog, saves that invite one person after the other, drags with their revert, the crash of the page by the order of hooks | `Virtual` events are the later instances of series, `Later` says which a series has and `Begun` which started before the window; the first instance in it has the id of the series. `shifted` are the series that were moved by it, `oldSaves` and `oldDrags` what a page that was loaded again has left under way, `Samples` the events shown when a load fails |
| `ContactsApp` | vault key, load, editor with its rows, save, deletion, search, selection | one list of addresses stands for the three alike; a record of another key is listed by nobody; `orphans` are the changes a page that was loaded again has left under way |
| `DriveApp` | places, selections, deletions that wait, Undo, moves, stars, restores, uploads, folders | a file that is deleted loses its content at once (`blobs`); `marked` is star or name |
| `AccountsApp` | pages of signing up, in and out, settings and links | one browser; the server of `calls` answers in any order |
| `ConsoleApp` | the domains page | `oldJobs` are the changes that a page that was left has asked for; the server takes them at any time |
| `Lookups` | eight parts that ask while one types or chooses | `box` is the part; it is the same in a behaviour |
| `DataExport` | the page that downloads a user's data | the loop over the sections outlives the page |
| `Overlays` | `Dialog`, `Dropdown`, `Select`: focus, highlight, keyboard | a new `onClose` undoes and redoes the effect of a dialog |
| `Widgets` | `CodeInput`, `Toast` and its stores, `HaseenThemeProvider` | the toast of contacts hides itself by a timer of its store, one more hide at any time |
| `KeyRing` | the pairs of mail, drive and calendar in several browsers, publication, registration, envelopes, both sign-outs, the end of a session | a pair is the number of its making; a cipher text the set of pairs that open it. The form of the registration asks nobody who is signed in, and stores its pair over the one that was there before it asks the server (`registering`) |
| `Forms` | `ShareDialog` and `AddCalendarDialog` | Enter sends a form again while it is sent |
| `MailReader` | `Sidebar`, `MailboxHeader`, `MailboxList`, `ThreadRow`, `ThreadView`, `InlineReply`, `LabelDialog` | no route mounts them. A request carries in `next` the rows its closure puts back; `leaving` are the moves whose five seconds run; `undoOf` is the one the message at the foot offers to undo, which stays when the move was sent |
| `MailDomains` | `components/domains` and `store/domains.ts` | no route mounts them. The flags of the detail are of the component and survive a change of domain |

`WebApps_proofs` proves the safety of `KeyRing`, `AccountsApp`, `ContactsApp`, `CalendarApp`
and `DriveApp`, `WebScreens_proofs` that of `CalendarViews`, `Lookups`, `ConsoleApp`,
`DataExport`, `Overlays`, `Widgets`, `Forms`, `MailDomains` and `MailReader`; both are put
together at the end of `WebApps_proofs`.

`MCWebApps` runs all but `MailCompose` and `MailClient` side by side: `app` names the module whose
actions are taken in a behaviour, and the others stay as they started. They are pages
of their own; what they have in common (cookie, storage, theme) is in `AccountsApp`,
`KeyRing` and `Widgets`.

## 4. The runs

| Run | Instance | Shows |
|---|---|---|
| `outbound_safety` | two workers, two messages, a domain with two hosts, one with one, an address without a domain; two attempts, one fault; symmetric messages and workers | `TypeOK`, `ClaimExclusive`, `SentIsHandled`, `CopiesBounded`, `StrandedOnlyByFault`; the refinement `PromiseKept` |
| `outbound_liveness` | one worker whose batch is smaller than the backlog, three attempts, one fault | `EventuallySettled` |
| `mail_send` | two messages, two requests beside moves and deletions, one fault; forms with addresses in every field and one twice | `SentAsListed` (for each send: no copies or rows beyond its envelope, none missing without a fault), `EveryoneServed` |
| `services` | inbound SMTP with two connections, two messages, two MAIL commands; the auth service with three requests and two passwords; two domains with two records, a batch of one, two rounds; one fault each | `DeliveredAsAsked` (no copies beyond what was asked, a 250 means stored), `GracefulStop`; `SessionsAreEntitled`, `AnswersHold`; `ChecksAreTrue`, `VerifiedStands` |
| `event_broker` | two streams of one user, two publishers with two events, channels of two places | `NeverPanics`, `MapIsExact`, `InOrder`, `EachConsidered`, `CallsReturn` |
| `key_server` | four requests of any kind, two ids, one failure | `RevokedForGood`, `LatestServed`, `NeverKeyless`, `LaterClaimsDiffer`, `NobodyStuck` |
| `web_compose` | two sends, a draft, a thread, two people, five edits | `SentIsComposed` (whole, exact when alone, answers refer to their thread), `WrittenIsKept` |
| `web_mailbox` | two threads, two labels, pages of one, two requests, three clicks, two events | `PageAgrees` (no doubles, of its label, signs of loading end), `Converges` |
| `web_apps` | see `MCWebApps.cfg` and below | `ListsSettle`, `ScreensSettle`, `AccountsKeepKeys`, `StepsAreAsked` |
| `acked_not_stored` | one session, one failed lookup | violated: 250 for a recipient that has nothing |
| `handler_identity` | one session, five services | violated: a handler that does not know its user |
| `trash_restorable` | the drive with two clicks | violated: a file in the trash without its content |

What the properties of `services` about accounts and domains say, and what they leave to
the code:

- `SessionsAreEntitled` (`SignInsEnd`, `SecondFactorHolds`): no session outlives a
  suspension, a reset or a change of the password, and no password alone makes one when
  a second factor is on or demanded. The exceptions are named in the formulas: a sign-in
  that was under way at the deletion keeps its session (`server.go:423`, `:448`); the second
  step of a sign-in and a reset do not look at `suspended_at`; a verification that
  overlaps a setup enables the new secret without a code of it (`:741`).
- `AnswersHold`: a request for a new token, challenge or recovery key that begins after
  another was answered leaves its row alone in the table; a token works for one request;
  the recovery key shown is the stored one; one registration is answered, and the account
  then has its resources and keys. Two rows need two requests that overlap.
- `ChecksAreTrue`: what a row says is what DNS says, until DNS changes, a lookup fails or an
  administrator decides; verified means all four records; a domain has its key unless it is
  being added; the order of the batches passes no domain over more often than there are
  others.
- `VerifiedStands` (an action property): the worker takes "verified" back only from a domain
  whose check was waiting or under way when it was verified.

`MCServices` runs `SmtpInbound`, `AuthService` and `CustomDomains` side by side, one of them
in each behaviour: their tables have nothing in common that these modules keep.

What the properties of `web_apps` consist of:

- `ListsSettle`: the calendar's list is the server's, but for the later instances of a series
  whose first was dragged, and a save makes one event as written (`CalendarSettles`); the contacts are those the key opens, with one primary
  address each (`ContactsSettle`); the drive's list is the folder's, each file once and as
  marked (`FolderSettles`), and a deletion that is undone in time does not take place
  (`UndoneIsKept`).
- `ScreensSettle`: the grid of a month is whole weeks and holds each day once, and today's
  month, week and day show every event of a visible calendar on each day it touches
  (`ViewsWhole`); the detail is of the selected domain, results are of what is
  entered; the export says what it downloaded (`ExportIsShown`); focus, disabled items
  (`FocusIsKept`, `NothingBarredChosen`); codes, messages, theme (`CodeIsShown`,
  `MessageGoes`, `ThemeIsStored`); the two dialogs (`ShareListsGrants`,
  `FormsCanBeSent`, `ListIsComplete`); the detail of a custom domain is whole and its signs
  of waiting have a request (`ActiveDomainWhole`, `FlagsHaveRequests`); the rows of a
  mailbox are those of its label, also after an Undo or a move that failed, and the labels
  those of the server (`RowsAreOfLabel`, `LabelsAreListed`).
- `AccountsKeepKeys`: the user is that of the session, the recovery key shown is the
  current one, the stored keys are those of the account and open with its password
  (`AccountSettles`); what is published is held by one application of one browser
  (`PublishedIsHeld`), what is sealed can be opened (`SealedCanBeOpened`), open pages
  use the stored pair (`PagesUseTheRing`), and the pair of the last registration form sent
  from a browser can be unlocked, whether or not it was accepted (`RegisteredIsKept`), each
  until somebody signs out in that browser.
- `StepsAreAsked` (an action property): contacts of a key that neither the page nor a change
  under way has are not touched, an event changes by a drop of it or an invitation of its own
  save, and the arrows of the calendar turn one page.

Bounds, all in the `.cfg` files. Two workers, requests, connections or publishers
are the least that race, and the code has no step that involves three of a kind;
the key server gets four requests because its interesting cases need an upload or
a publication beside two that compete and one that comes later. The auth service gets
three: one that begins when another is answered, and one that overlaps them, each of
which makes its first statement as it begins. Two domains and a batch of one make the
order of the batches matter, and two of the four records (one of them DKIM, which reads the
key) stand for all, since the others are alike. Two hosts of a
domain are the least for a fallback, two domains for an error that a later
success might hide, a backlog longer than the batch for starvation. One fault
(`MaxFaults`) hits any step; properties that hold without faults are stated for
`faults = 0`. Channels have two places instead of 32 and publishers two events
each, so that a channel fills up. The applications are bounded by the number of
clicks (`MaxSteps`, `MaxActs`, `MaxDriveActs`, `MaxClicks`, `MaxConsole`, `MaxTyped`,
`MaxExport`, `MaxPresses`, `MaxUses`, `MaxForms`, `MaxSends`, `MaxEdits`,
`MaxDomainActs`, `MaxReads`, and `MaxVisits` for the keys): three to six,
which is enough for two requests that overlap, something the user does between
them, and a failure. Two of each kind of thing are the least that can be mixed up.
Months have their real lengths, and today is the last of January, the middle of
February or the first of March, with a first weekday that makes months of four to
six rows. Three sections of an export leave one before and one behind the one
being fetched; a code has three digits; two users in two browsers with three pairs
meet every order of publication. The calendar has one repeated event that starts in the
window and one that started before it.

Deadlock is not checked: all these systems come to rest once the bounded requests
have been made. That nobody waits for ever is checked by the liveness properties and
by `NobodyStuck`.

Fairness. `OutboundQueue`: the ticker of a worker goes on and every dialogue has
deadlines (`sender.go`), so a worker that has something to do does it, and time
passes. `MailSend`: a goroutine that was started runs on; crashes are actions
without fairness. `EventBroker`: a goroutine that can run is run in the end by
the Go scheduler, and the mutex passes to the writer that waits; clients need not
read, and streams need not leave. `MailClient`: the timer of the polling
(`useInboxEvents.ts`) fires again and again, the server serves a request, and the page
handles an answer; the stream need not come back, and `Converges` is about the
behaviours in which it does not. Nothing is assumed of users, clients, remote hosts,
faults or the arrival of requests.

The three violated properties are statements of comments and of a dialog of the
code; `findings` in `PROJECT.json` quotes them.

### Divergences met on the way

These were read off the code while it was modelled. The models do as the code does;
no run is spent on them.

Services:

- The rows of external recipients repeat all of Cc and Bcc, local ones included
  (`mail/internal/handler/message.go:128`).
- `UpdateDraft` checks the folder and then writes by id (`draft.go:88-93`): a message
  that was sent in between changes.
- Two claims that overlap get the same pre-key (`keyserver/internal/store/prekeys.go:42`).
- The drive's list of files scans more destinations than its query has columns.
- Two sign-ins at once leave two challenges, though `CreateMFALoginChallenge` removes the
  earlier ones first (`tokens.go:83-89`); the same holds for the other tokens.
- A reset whose token was consumed and whose next statement fails leaves the user without a
  token (`server.go:567-577`).

Mail:

- Undo of a send opens an empty panel, though the comment next to it says it opens
  with the same content (`ComposePanel.tsx:321`); the timer of an earlier send goes on,
  as `sendTimerRef` is of the last one. The delayed send reads the page's refs, though
  the comment at `:295` says that it does not depend on the state of the page.
- The filters of the search lose the focus to the search field after each stroke
  (`SearchOverlay.tsx:104`, `:141`), because its `onClose` is new at every rendering and
  the effect of `Dialog` runs again.

- In the three panes, moves to a label, flags and replies put back the rows as they were when
  clicked (`ThreadView.tsx:139`, `:180`), which undoes what came in between; a refresh replaces the
  rows and keeps the cursor of the old ones (`MailboxHeader.tsx:106`), so that threads may
  be passed over; a bulk move to a label leaves the rows (`:82-90`). The message with Undo has a
  countdown nobody counts down (`ThreadView.tsx:89-100`, `App.tsx:498`): it stays after the move
  was sent, and its Undo then puts the moved row back.
- The page of a custom domain that fails to load keeps its sign of loading, without a
  way back to the list (`DomainDetail.tsx:48-54`).

Accounts:

- Sign-out removes the stored copy of the keys of mail, drive and calendar
  (`store/auth.ts:67-78`), which is the only one; pages that are open go on with them.
- "Sign out" of the rail (`ProductRail.tsx:26-30`) removes names nobody writes and leaves
  the cookie, so that the sign-in page sends the user back.
- Changing the password sends it, though `SecuritySettingsPage.tsx:137` says "It is never
  sent to our servers", and leaves the stored keys encrypted with the old one.
- `VerifyEmailPage` verifies again when its effect runs again. `CodeInput` never calls
  `onComplete` for a code that is typed; pasting leaves old digits in the boxes behind.
- The export takes an answer with an error for data (`DataExportPage.tsx:53`).
- The appearance settings never mark "System", since they compare the resolved theme.
  Messages with a countdown are counted by nobody and stay.

Drive, calendar, console:

- The deletion of a folder keeps the rows of its files. `DriveLayout` renders its
  children twice (`:147`); files dropped on the upload dialog are uploaded by the layout
  as well. The client posts JSON to the handler of uploads, which expects a form.
- A preview that was left while it loaded keeps its sign of loading
  (`FilePreviewPanel.tsx:77`).
- `EventDialog` calls hooks after a return (`:80`), so opening a mounted dialog throws.
- Dragging the first instance of a series moves the series: it has the id of the template
  (`recurrence.go:51-57`, `event.go:115-129`), and the page moves one row (`WeekView.tsx:105-109`,
  `DayView.tsx:80-84`). Dragging a later one asks for an event that does not exist.
- The service may still take what a page has asked for that was left or loaded again: the new
  page shows it only if the list is asked for again (calendar, contacts, console).
- After a calendar was added all calendars are visible again.
- The card "Total users" of the console shows sessions (`OverviewPage.tsx:75-77`).

Keys:

- `/sign-up` is open to who is signed in (accounts `App.tsx:25`), and its form replaces the stored
  keys before it registers (`SignUpPage.tsx:44-62`): those of an earlier account are gone, also
  when the address is taken.
- Each application publishes a pair of its own and the key server keeps the last as the
  user's, though `packages/crypto/src/index.ts:8` says "Each user has a long-term keypair".
- An encrypted message carries its subject and body in plain text beside the envelope;
  the lookup of keys gets addresses where the server expects ids of users.

UI library: a dialog in which an element takes the focus by itself does not give it back
(the comment at `Dialog.tsx:62` says it is restored); Shift+Tab from the box of a dialog
leaves it; the arrow keys on the closed `Select` never pass the first option.

## 5. The proofs

All theorems hold for any values of the constants that satisfy the named
assumption of the module. They are about safety: of the services, and of the applications.

`OutboundQueue_proofs` proves `IInv` inductive: the five safety properties need
`HeldRows` (a row on a worker is in `sending`, and the worker knows its
`attempts`), `AttemptLeft` (a row that can be claimed has one), `Nesting` (the
loops of the sender), `Accounted` (while no error is recorded, the domains that
were passed are taken care of) and `Unspent` (the hosts not yet tried have their
share of the copies). From it: `TypeCorrect`, `ExclusiveClaims`,
`SentOnlyWhenHandled`, `DuplicatesBounded`, `NoStrandingWithoutFaults`, and
`Refinement`, step by step, to `OutboundPromise`.

`Services_proofs` has a section for each of the three services of `MCServices`, and at the
end `EachBehavesAlone`: a behaviour of the three side by side is one of each, so that what
is proved of `Spec`, `AuthSpec` and `CustomSpec` holds of the specification the run checks
(`ServicesTypes` is its type invariant).

Its section I proves `SmtpInv` of `SmtpInbound` inductive. That no address gets more copies than
were asked for is a count: `EachWasAsked` adds to the copies that are stored the places
of envelopes that may still make one (`Outstanding`), and a RCPT command adds one place,
a delivery turns one place into a copy, and everything that empties an envelope only takes
places away; `EnvelopeOK` excludes a delivery without a sender. That a 250 means stored
needs `PassedHaveIt`, the same for the recipients a running delivery has passed. From it:
`SmtpTypes`, `StoredAsAsked`, and, with `OnlyLateServed`, `StopIsGraceful`.

`EventBroker_proofs` proves `TypeCorrect`, `NoPanic`, `ExactMap`, `OrderedDelivery`
and `EveryEventConsidered`. A send on a closed channel is excluded because a publisher
that is in the loop holds the read lock, so no channel of its remaining
subscribers is closed: this link of the map, the state of each stream and the
channels is the invariant. The order needs that what a stream has received,
followed by what is in its buffer, followed by what its publishers are about to
send, increases for each publisher. `EveryEventConsidered` is again a count, of what a
stream has taken, what waits for it, what was refused and the publishers that still have
it before them.

`KeyServer_proofs` rests on `Base` (types, the stages of each kind of request,
only bundles of answered requests are seen). `RevokedStays` needs `Covered`: an
UPDATE has written, or still has to write, all that was answered before its
request began. `ServedLatest` needs `Ordered` (requests that do not overlap have
ordered times) and `Together` (no UPDATE takes a younger bundle without the older
ones). `LaterClaims` needs `Marked` and `Selected`: a key that was handed out
stays marked until its id is uploaded anew, and what a running claim has selected
was given to no earlier one. `RotationKeepsKeys` needs only `Base`.

Section II proves `AuthInv` of `AuthService` inductive, for any number of requests. A step is
described once, by what it does to each variable (`Makes`; `Misses` for a statement that
fails, `Begins` and `Stops` for the rest), and `Following` is the table of all pairs of
statements that follow one another in a handler, from which the lemmas `...Order` read
what they need; `RequestsOK` says that a request is always somewhere in its script and
carries only what ended before it began. The other conjuncts are the properties one or
two statements earlier: `RowsOK` and `TokensOK` also speak of requests that have cleared
or consumed and not yet inserted or answered, `KeyOK` of a recovery key that was inserted
and not yet shown, `PasswordOK` and `SuspensionOK` of sign-ins that have looked at the
password, `SecretOK` of verifications whose code was right and which have not enabled the
factor yet, `FactorOK` of logins that were told that the factor is off. `AccountOK` counts
the registrations that have got past their insert: there is one at most. From it:
`AuthTypes`, `AnswersAreKept`, `OnlyEntitledSessions`.

Section III proves `CustomInv` of `CustomDomains` inductive. The flags are true because of
`FoundSoFar` (an undisturbed check has found what DNS has of the records it has passed,
no more); the worker takes nothing back from a domain that was verified before, because
of `WorkerOK` (what it has selected or is checking was not). That every domain has its
turn is a count again: `TurnsLeft` adds to the batches that left a domain out the domains
that may still be selected before it and are not in the worker's hands. A batch that
leaves the domain out is full of such domains, a check that is written puts its domain
behind, and only a mishap gives the worker's share back; a domain that is added was
counted from the start, which is why the set of ids must be finite. From it:
`CustomTypesHold`, `ChecksHold`, `VerifiedDomainsStand`.

`MailSend_proofs` proves `SendInv` inductive. `StagesOK` ties the place of a goroutine to
the stage of its request: it is 0 before the send and one past the last when it is over.
`CountsOK` is `SentAsListed` for a goroutine on its way: the copies and rows of a send are
those of the places it has passed (`Passed`), at most so when something has failed and
exactly so otherwise. A step passes one place, which adds one to the counts of the sets its
recipient is of (`NextPlace`); a request that has passed none has given nothing, and so may
still take another form (`GivenNothing`). At the end the places passed are all places, and
an address that is not in Cc or Bcc has those of To (`PlacesOfTo`). `TypeOK` bounds the
edits of a row by the updates that were made, which only grow (`MoreRequests`). From it:
`SendTypes`, `SendsAreAsListed`.

Its second part proves `ComposeInv` of `MailCompose` inductive. A closed panel answers nothing, and the
ref is that of the thread an open one answers (`FormRefers`), so what a click saw refers to
the thread it answers (`SnapshotsRefer`). A timer that meets the snapshot of another click
overlaps with it, and an Undo that is offered is of a click whose timer has not fired, since
whatever ends a send, and every timer, takes the toast away (`TimersOK`). A message then
keeps what it had when its timer fired (`MessagesOK`). The proof shows a little more than
the property: no message is posted by the timer of a click that was undone, even when sends
overlap; its text may be that of an undone click then. From it: `ComposeTypes`, `SentAsComposed` and, as an action property,
`WritingIsKept`.

`MailClient_proofs` proves `PageInv` inductive. The list of the page has no thread twice
because an answer has none and `load more` drops what is listed; both need that a page of
the server is a page: `PageIds` picks the i-th newest threads of a set of numbers, and that
there is an i-th one is an induction over the numbers (`NthExists`). The list is of its
label while `AskedFor` holds, that is, while every request whose answer may change the list
is of the label shown; `crossed` is set exactly where that ends. A sign of loading has a
request, one only for `load more` (`MoreUnderWay`). From it: `TypesOK`, `PageAgreesAlways`.

`WebApps_proofs` has a section for each of five applications and composes all fourteen
modules at the end: a step of `MCWebApps` is for every application a step of its own or none
(`StepsAreTheirOwn`), so an invariant of one holds in all behaviours.

- Key pairs, `KeyRingInv`: a pair is new when it is made (`PairsAreMinted`), no two
  applications store the same (`RingIsDistinct`), and somebody answers for what is published
  or on its way there (`KnownIsAnswered`) and for every key of an envelope
  (`EnvelopesAnswered`): it is stored, forgotten by a sign-out, or made by a registration.
  `RegisteredIsKept` is inductive with these, since the pair of a form is younger than all that
  were there.
- Accounts, `AccountsInv`: the user shown is that of the session, or a request is under way
  whose answer will make it so (`UserFollows`, `Corrects`); the same of the recovery key
  (`KeyFollows`, `Rekeys`). For that, what an answer on its way says must be so while no
  history is set (`AnswerHolds`). `VaultFollows` also speaks of the sign-ups that have
  written their keys and have no answer, and of an account that is gone.
  `BeforeTheSession` is the page before the first answer. From it and `KeyRingInv`:
  `AccountsKeep`. That every number stays within the clicks is a count of its own
  (`NumbersInv`): the changes of a password and the two requests that may yet make one are
  no more than the clicks, since the pages allow one request of each kind at a time.
- Contacts, `ContactsInv`: a record the page knows of is of its key (`KnownIsMine`), with one
  save at a time (`SavesAreOne`). While nothing raced, the list has each contact as the
  server does but those ahead of it, whose change the server has taken and the list has not
  (`Ahead`, `ChangesApart`). What a page has left under way is of the key it was sent with
  (`OrphansOK`). `PayloadsWhole` is the normalisation, for lists of any length.
- Events, `CalendarInv`: `OneAtATime` says what is listed while a save or a drag is under way
  and nothing overlaps with it, apart from the rows of series that were shifted (`AsStored`); `SaveOK` that a save invites nobody but the people of its form.
- Drive, `DriveInv`: the lists are the folder's without what waits to be deleted
  (`ListsAgree`), and for each change under way what it will set is what there will be when
  the server has taken it (`ChangeWaits`). An Undo brings back what its own deletion removed
  because deletions are numbered (`DeletionsNumbered`); what was undone in time is in no
  request that trashes (`SparedFiles`, which holds without the history). With the contacts and
  the events: `ListsSettleAlways`.
- `AskedAlways` is the action property, from the contacts, the events and the dates.

`WebScreens_proofs` has a section for each of nine modules. Their invariants give
`ScreensSettleAlways` and, with those above, `TypesAlways`.

- Numbers: a finite set of numbers has a k-th one, and its elements in their order are all of
  it (`NthInIsAll`); the lists of the models are written with it.
- Dates, `ViewsInv`: that a month forward and back is the month next to it rests on the
  recursive function `FirstDay`, whose defining equation is proved by induction
  (`CountsExist`). `Flattened` is the same for the rows of the grid, laid end to end, by
  which each day of a month is shown once (`GridIsWhole`); `TodayIsWhole` is that an event
  is shown on each day it touches.
- Searches, `LookupsInv`: what is under way asks for what is entered (`AsksForQuery`); with
  nothing under way, what is shown answers it (`ShowsAnswer`).
- Console, `ConsoleInv`: the detail is what the server has, or a load or one change of it is
  under way, for which it is known what is shown until then (`DetailFollows`, `ChangeShown`).
- Export, `ExportInv`: what the loop has left is the end of what was selected, and each section
  says where it is (`SignsOfExport`).
- Dialogs and menus, `OverlaysInv`: an open dialog remembers the element the focus came from,
  unless an element in it took the focus first (`DialogRemembers`); whatever the arrow keys
  lead to can be used (`Neighbours`).
- Widgets, `WidgetsInv`: the code is what the boxes hold, in their order; a message has a timer;
  the theme that is painted is that of the mode, and the mode is the stored one.
- Forms, `FormsInv`: a sign of sending has a request (`SignsOfSending`), calendars are numbered
  as they are made (`CalendarsNumbered`), and the list is the server's but for the one
  calendar that is being added (`ListFollows`).
- Domains page, `DomainsInv`: a flag has the request that will end it (`FlagsWillEnd`); while
  nothing is overtaken, the list and the detail are what the server answers, or a request that
  will make them so is under way, and a mailbox that was added or removed already is the only
  difference until its answer (`DetailInTurn`, `BehindBy`).
- Three panes, `ReaderInv`: the rows are those of a label as the server has them, each once, all
  of them down to the cursor, without those that are leaving (`WholeRows`). The one request
  under way has in its closure rows that are whole when it fails, and others that are whole
  once the server has done it (`WireFits`). `LabelsSettled` is the same for the dialog of
  labels; `ReaderLengths` bounds the threads by the replies that may still be sent.

The proof of the three panes found that `RowsAreOfLabel` was false beyond the bounds of its
run: a refresh keeps the cursor, so the next page that is fetched may hold a row whose
deletion waits, and an Undo then lists it twice. The code does that (TLC shows it with three
conversations, two of them on a page); `replaced` now counts a page that is fetched after a
refresh, while a row is leaving, among the races.

The proof of `AccountsKeep` found that `AccountSettles` was false beyond the bounds of its
run: a password reset whose answer is late opens a session after the sign-out, a recovery key
asked for before is then shown without a user, and the next account that signs in sees it.
The code does that; `keyOff` now counts it among the races (a recovery key whose answer
comes after the session it was made in).

Assumptions added for these proofs are those the code makes: months have 28 to 31 days and
an event ends no earlier than it begins (`ViewsAssumption`), today is not in the first or
last month of the model (`TodaysAssumption`; dates of the program have no first month), the
names of the folders and views of the drive are different (`DriveAssumption`). A selection
from a list is written with `Nth`, `NthRow`, `NthAt`, `NthFilled` and `NthIn`, the k-th of a set
of places: the `SelectSeq` of the library is recursive, and nothing can be proved of it.
Induction over data is in reach only in this form, a least counterexample by `WFMin` and
`NatLessThanWellFounded` in place of a theorem with an operator parameter.

Model-checked only:

- all liveness properties (`EventuallySettled`, `EveryoneServed`, `CallsReturn`,
  `Converges`), and `NobodyStuck`, which speaks of `ENABLED`;
- everything in `RequestIdentity`, which is finite, and the three violated properties

## 6. What is not modelled

- Components that are written and that no page mounts: `MessageItem` and `MailLayout` in
  mail, `AdminCommandPage` and `HaseenUsernameInput` in accounts. Those with behaviour of
  their own are modelled (`MailReader`, `MailDomains`).
- Layout, styles and wording, and the components of the UI library that only have
  these; the marketing site and the gallery of components.
- The view of shared files of the drive, whose request no service answers; attachments
  of a message; the toolbar of the editor.
- Cryptographic primitives, SRP, DKIM, WebAuthn.
- The statements of the services listed as left to a later stage in section 1; in the auth
  service the profile, the renewal and expiry of sessions and the quotas, in the custom
  domains their mailboxes and the log of the checks.
- Contents of messages, formats and logging; requests that are refused before they
  change anything. Faults of the disk and the loss of committed rows are taken not
  to happen: the database keeps what it has committed.
