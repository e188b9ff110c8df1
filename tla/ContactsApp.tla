------------------------------ MODULE ContactsApp ------------------------------
(* The contacts application (apps/contacts): an encrypted address book whose *)
(* key is in the local storage of one browser, a list that is loaded once,   *)
(* an editor dialog that follows the contact in the list, and saves and      *)
(* deletions that end after the user has gone on to something else.          *)
(*                                                                           *)
(* A name is blank or a letter, a letter is its place in the order of names. *)
(* Email stands for the labeled lists with a primary entry (emails, phones   *)
(* and addresses), "extra" for everything behind "Show more fields".         *)
EXTENDS Naturals, FiniteSets, Sequences, SequencesExt

CONSTANTS
    Letters,      \* names, numbers from 1
    MaxContacts,  \* bound: contacts ever stored
    MaxKeys,      \* bound: vault keys ever made
    MaxEmails,    \* bound: rows of the list in the editor
    MaxActs,      \* bound: actions of the user
    None          \* null

ContactIds == 1 .. MaxContacts
Keys       == 1 .. MaxKeys
Names      == {0} \cup Letters      \* 0: nothing but blanks
Id         == ContactIds \cup {None}

ASSUME ContactsAssumption ==
    /\ MaxContacts \in Nat /\ MaxKeys \in Nat \ {0} /\ MaxEmails \in Nat \ {0}
    /\ MaxActs \in Nat /\ Letters \subseteq Nat \ {0} /\ None \notin Nat

VARIABLES
    stored,     \* the server: the records, each encrypted with a key
    made,       \* records stored so far
    key,        \* the vault key, None until the session is confirmed
    keys,       \* keys made so far: the last one is in the local storage
    contacts,   \* the store: id -> payload, of the records that were decrypted
    listing,    \* the load: "none", "asked", "served", "done"
    records,    \* the records a served load carries
    selected, search,
    editor,     \* the dialog: open, the contact it edits, its draft
    saving,
    saveJobs, deleteJobs,
    orphans,    \* changes of a page that was loaded again, not yet taken
    acts,
    raced       \* a save or a deletion met the load or one of the same contact, or
                \* an answer was lost (history)

conVars == <<stored, made, key, keys, contacts, listing, records, selected, search,
             editor, saving, saveJobs, deleteJobs, orphans, acts, raced>>

Email   == [value: Names, primary: BOOLEAN]
Payload == [name: Names, emails: Seq(Email), extra: BOOLEAN]

EmptyEmail == [value |-> 0, primary |-> FALSE]

\* createEmptyContactPayload
EmptyPayload ==
    [name |-> 0, emails |-> <<[value |-> 0, primary |-> TRUE]>>, extra |-> FALSE]

ContactsInit ==
    /\ stored = {} /\ made = 0 /\ key = None /\ keys \in 0 .. 1
    /\ contacts = <<>> /\ listing = "none" /\ records = {}
    /\ selected = None /\ search = 0
    /\ editor = [open |-> FALSE, id |-> None, draft |-> EmptyPayload]
    /\ saving = FALSE /\ saveJobs = {} /\ deleteJobs = {} /\ orphans = {}
    /\ acts = 0 /\ raced = FALSE

-------------------------------------------------------------------------------
(* Payloads.                                                                 *)

\* The i-th of the rows in S.
NthRow(S, i) == CHOOSE k \in S : Cardinality({j \in S : j < k}) = i - 1

\* normalizePrimaryFields: rows without a value go; the first is primary, and a
\* later one if no row before it was.
NormalizedEmails(emails) ==
    LET full == {k \in DOMAIN emails : emails[k].value # 0}
        kept == [i \in 1 .. Cardinality(full) |-> emails[NthRow(full, i)]]
    IN  [i \in DOMAIN kept |->
            [kept[i] EXCEPT !.primary =
                i = 1 \/ (@ /\ \A j \in 1 .. i - 1 : ~kept[j].primary)]]

\* normalizeContactPayload
Normalized(p) == [p EXCEPT !.emails = NormalizedEmails(@)]

\* getPrimaryField: the primary row, the first one, or nothing.
PrimaryOf(emails) ==
    LET primary == {i \in DOMAIN emails : emails[i].primary}
    IN  IF primary # {} THEN emails[CHOOSE i \in primary : \A j \in primary : i <= j].value
        ELSE IF emails # <<>> THEN emails[1].value ELSE 0

\* What a contact is sorted by: its name, or its address; ids come last here.
SortName(p) == IF p.name # 0 THEN p.name ELSE PrimaryOf(p.emails)

\* The contacts that may head the list ds, names being equal or missing.
Heads(list) ==
    LET named == {i \in DOMAIN list : SortName(list[i]) # 0}
        among == IF named = {} THEN DOMAIN list ELSE named
    IN  {i \in among : \A j \in among : SortName(list[i]) <= SortName(list[j])}

\* buildSearchIndex and the filter: by name or address.
Found(list, q) ==
    {i \in DOMAIN list :
        \/ q = 0 \/ list[i].name = q
        \/ \E k \in DOMAIN list[i].emails : list[i].emails[k].value = q}

\* canSave
CanSave(p) == p.name # 0 \/ \E k \in DOMAIN p.emails : p.emails[k].value # 0

-------------------------------------------------------------------------------
(* The list and the selection.                                               *)

Without(list, i) == [j \in DOMAIN list \ {i} |-> list[j]]
With(list, i, p) == [j \in DOMAIN list \cup {i} |-> IF j = i THEN p ELSE list[j]]

\* The contact on the right: the selected one, or the first that is found.
OnScreen == IF selected \in DOMAIN contacts THEN {selected}
            ELSE Heads([i \in Found(contacts, search) |-> contacts[i]])

\* The effect that selects what is shown, after the list, the search or the
\* selection changed to list, q and s.
Selection(list, q, s) ==
    LET found == Heads([i \in Found(list, q) |-> list[i]])
    IN  IF s \in DOMAIN list THEN {s} ELSE IF found = {} THEN {s} ELSE found

\* The effect of the editor: the payload it edits has changed, from the list
\* old to the list new; the draft starts from it again.
Followed(e, old, new) ==
    IF e.open /\ e.id \in DOMAIN new \cup DOMAIN old
    THEN [e EXCEPT !.draft = IF e.id \in DOMAIN new THEN new[e.id] ELSE EmptyPayload]
    ELSE e

Act == acts < MaxActs /\ acts' = acts + 1

-------------------------------------------------------------------------------
(* The session, the key and the load.                                        *)

\* getOrCreateVaultKey: the key of the local storage, or a new one.
AuthConfirmed ==
    /\ key = None
    /\ keys' = IF keys = 0 THEN 1 ELSE keys
    /\ key' = keys'
    /\ listing' = "asked"
    /\ UNCHANGED <<stored, made, contacts, records, selected, search, editor, saving,
                   saveJobs, deleteJobs, acts, raced, orphans>>

\* A change under way, for a page that is not there any more.
Orphan(kind, i, payload) == [kind |-> kind, id |-> i, key |-> key, payload |-> payload]

\* The page is loaded again, with the local storage or after it was cleared: a
\* new browser, a private window. The server takes what was sent still, or does not.
Restart ==
    /\ Act /\ key # None
    /\ key' = None
    /\ \/ UNCHANGED keys
       \/ keys < MaxKeys /\ keys' = keys + 1
    /\ contacts' = <<>> /\ listing' = "none" /\ records' = {}
    /\ selected' = None /\ search' = 0
    /\ editor' = [open |-> FALSE, id |-> None, draft |-> EmptyPayload]
    /\ saving' = FALSE /\ saveJobs' = {} /\ deleteJobs' = {}
    /\ orphans' = orphans
         \cup {Orphan("save", j.id, j.payload) : j \in {x \in saveJobs : x.stored = None}}
         \cup {Orphan("delete", d.id, EmptyPayload) : d \in {x \in deleteJobs : ~x.taken}}
    /\ raced' = FALSE
    /\ UNCHANGED <<stored, made>>

ListServed ==
    /\ listing = "asked"
    /\ listing' = "served" /\ records' = stored
    /\ UNCHANGED <<stored, made, key, keys, contacts, selected, search, editor, saving,
                   saveJobs, deleteJobs, acts, raced, orphans>>

\* Records of another key are left out, with a toast.
Decrypted(rs) ==
    [i \in {r.id : r \in {q \in rs : q.key = key}} |->
        (CHOOSE r \in rs : r.id = i).payload]

\* setContacts: the selection stays if it is in the list, else the first is.
ListAnswered ==
    LET list == Decrypted(records)
    IN  /\ listing = "served"
        /\ listing' = "done" /\ records' = {}
        /\ contacts' = list
        /\ selected' \in IF selected \in DOMAIN list THEN {selected}
                         ELSE IF DOMAIN list = {} THEN {None} ELSE Heads(list)
        /\ editor' = Followed(editor, contacts, list)
        /\ UNCHANGED <<stored, made, key, keys, search, saving, saveJobs, deleteJobs,
                       acts, raced, orphans>>

ListFails ==
    /\ listing \in {"asked", "served"}
    /\ listing' = "done" /\ records' = {}
    /\ raced' = TRUE
    /\ UNCHANGED <<stored, made, key, keys, contacts, selected, search, editor, saving,
                   saveJobs, deleteJobs, acts, orphans>>

-------------------------------------------------------------------------------
(* The page.                                                                 *)

Search(q) ==
    /\ Act /\ key # None /\ ~editor.open /\ q # search
    /\ search' = q
    /\ selected' \in Selection(contacts, q, selected)
    /\ UNCHANGED <<stored, made, key, keys, contacts, listing, records, editor, saving,
                   saveJobs, deleteJobs, raced, orphans>>

Select(i) ==
    /\ Act /\ key # None /\ ~editor.open /\ i \in Found(contacts, search)
    /\ selected' = i
    /\ UNCHANGED <<stored, made, key, keys, contacts, listing, records, search, editor,
                   saving, saveJobs, deleteJobs, raced, orphans>>

\* New, and Edit of the contact on the screen: the effect fills the draft.
OpenEditor(i) ==
    /\ Act /\ key # None /\ ~editor.open /\ i \in OnScreen \cup {None}
    /\ editor' = [open |-> TRUE, id |-> i,
                  draft |-> IF i = None THEN EmptyPayload ELSE contacts[i]]
    /\ UNCHANGED <<stored, made, key, keys, contacts, listing, records, selected, search,
                   saving, saveJobs, deleteJobs, raced, orphans>>

\* Cancel, Escape and a click beside the dialog.
CloseEditor ==
    /\ Act /\ editor.open
    /\ editor' = [editor EXCEPT !.open = FALSE, !.id = None]
    /\ UNCHANGED <<stored, made, key, keys, contacts, listing, records, selected, search,
                   saving, saveJobs, deleteJobs, raced, orphans>>

Editing(draft) ==
    /\ Act /\ editor.open /\ draft # editor.draft
    /\ editor' = [editor EXCEPT !.draft = draft]
    /\ UNCHANGED <<stored, made, key, keys, contacts, listing, records, selected, search,
                   saving, saveJobs, deleteJobs, raced, orphans>>

SetName(n) == Editing([editor.draft EXCEPT !.name = n])
SetExtra   == Editing([editor.draft EXCEPT !.extra = ~@])

AddRow ==
    /\ Len(editor.draft.emails) < MaxEmails
    /\ Editing([editor.draft EXCEPT !.emails = Append(@, EmptyEmail)])

SetRow(k, v) ==
    /\ k \in DOMAIN editor.draft.emails
    /\ Editing([editor.draft EXCEPT !.emails[k].value = v])

\* The last row cannot be removed.
RemoveRow(k) ==
    /\ k \in DOMAIN editor.draft.emails /\ Len(editor.draft.emails) > 1
    /\ Editing([editor.draft EXCEPT !.emails = RemoveAt(@, k)])

-------------------------------------------------------------------------------
(* Saving and deleting.                                                      *)

\* handleSubmit and handleSave, up to the request.
SaveContact ==
    /\ Act /\ editor.open /\ CanSave(editor.draft) /\ ~saving
    /\ saving' = TRUE
    /\ saveJobs' = saveJobs \cup {[id |-> editor.id, payload |-> Normalized(editor.draft),
                                   stored |-> None]}
    /\ raced' = (raced \/ listing \in {"asked", "served"}
                        \/ \E d \in deleteJobs : d.id = editor.id)
    /\ UNCHANGED <<stored, made, key, keys, contacts, listing, records, selected, search,
                   editor, deleteJobs, orphans>>

\* The record is created or replaced, if it is still there.
SaveTaken(j) ==
    /\ j.stored = None
    /\ \/ /\ j.id = None /\ made < MaxContacts
          /\ made' = made + 1
          /\ stored' = stored \cup {[id |-> made', key |-> key, payload |-> j.payload]}
          /\ saveJobs' = (saveJobs \ {j}) \cup {[j EXCEPT !.stored = made']}
       \/ /\ \E r \in stored : r.id = j.id
          /\ made' = made
          /\ stored' = {IF r.id = j.id THEN [r EXCEPT !.key = key, !.payload = j.payload]
                        ELSE r : r \in stored}
          /\ saveJobs' = (saveJobs \ {j}) \cup {[j EXCEPT !.stored = j.id]}
    /\ UNCHANGED <<key, keys, contacts, listing, records, selected, search, editor, saving,
                   deleteJobs, acts, raced, orphans>>

\* Mutant: the contact is entered under the id the editor had.
SaveAnsweredById(j) ==
    LET list == With(contacts, j.id, j.payload)
    IN  /\ j.stored # None
        /\ saveJobs' = saveJobs \ {j} /\ saving' = FALSE
        /\ contacts' = list /\ selected' = j.stored
        /\ editor' = [editor EXCEPT !.open = FALSE, !.id = None]
        /\ UNCHANGED <<stored, made, key, keys, listing, records, search, deleteJobs, acts,
                       raced, orphans>>

\* upsertContact selects the contact; closeEditor closes whatever is edited now.
SaveAnswered(j) ==
    LET list == With(contacts, j.stored, j.payload)
    IN  /\ j.stored # None
        /\ saveJobs' = saveJobs \ {j} /\ saving' = FALSE
        /\ contacts' = list /\ selected' = j.stored
        /\ editor' = [editor EXCEPT !.open = FALSE, !.id = None]
        /\ UNCHANGED <<stored, made, key, keys, listing, records, search, deleteJobs, acts,
                       raced, orphans>>

\* The editor stays open; the server may have taken the save all the same.
SaveFails(j) ==
    /\ saveJobs' = saveJobs \ {j} /\ saving' = FALSE
    /\ raced' = (raced \/ j.stored # None)
    /\ UNCHANGED <<stored, made, key, keys, contacts, listing, records, selected, search,
                   editor, deleteJobs, acts, orphans>>

\* handleDelete, once it is confirmed.
DeleteContact(i) ==
    /\ Act /\ key # None /\ ~editor.open /\ i \in OnScreen
    /\ deleteJobs' = deleteJobs \cup {[id |-> i, taken |-> FALSE]}
    /\ raced' = (raced \/ listing \in {"asked", "served"} \/ \E j \in saveJobs : j.id = i)
    /\ UNCHANGED <<stored, made, key, keys, contacts, listing, records, selected, search,
                   editor, saving, saveJobs, orphans>>

DeleteTaken(d) ==
    /\ ~d.taken /\ \E r \in stored : r.id = d.id
    /\ stored' = {r \in stored : r.id # d.id}
    /\ deleteJobs' = (deleteJobs \ {d}) \cup {[d EXCEPT !.taken = TRUE]}
    /\ UNCHANGED <<made, key, keys, contacts, listing, records, selected, search, editor,
                   saving, saveJobs, acts, raced, orphans>>

\* removeContact: the first contact takes the place of a selected one.
DeleteAnswered(d) ==
    LET list == Without(contacts, d.id)
    IN  /\ d.taken
        /\ deleteJobs' = deleteJobs \ {d}
        /\ contacts' = list
        /\ selected' \in IF selected # d.id THEN {selected}
                         ELSE IF DOMAIN list = {} THEN {None} ELSE Heads(list)
        /\ editor' = IF d.id = editor.id THEN Followed(editor, contacts, list)
                     ELSE editor
        /\ UNCHANGED <<stored, made, key, keys, listing, records, search, saving, saveJobs,
                       acts, raced, orphans>>

DeleteFails(d) ==
    /\ deleteJobs' = deleteJobs \ {d}
    /\ raced' = (raced \/ d.taken)
    /\ UNCHANGED <<stored, made, key, keys, contacts, listing, records, selected, search,
                   editor, saving, saveJobs, acts, orphans>>

\* A change of a page that was loaded again, perhaps after its list was loaded again.
OrphanTaken(w) ==
    /\ orphans' = orphans \ {w}
    /\ \/ /\ w.kind = "delete" /\ made' = made
          /\ stored' = {r \in stored : r.id # w.id}
       \/ /\ w.kind = "save" /\ w.id = None /\ made < MaxContacts
          /\ made' = made + 1
          /\ stored' = stored \cup {[id |-> made', key |-> w.key, payload |-> w.payload]}
       \/ /\ w.kind = "save" /\ made' = made /\ \E r \in stored : r.id = w.id
          /\ stored' = {IF r.id = w.id THEN [r EXCEPT !.key = w.key, !.payload = w.payload]
                        ELSE r : r \in stored}
    /\ raced' = (raced \/ listing \in {"served", "done"})
    /\ UNCHANGED <<key, keys, contacts, listing, records, selected, search, editor, saving,
                   saveJobs, deleteJobs, acts>>
-------------------------------------------------------------------------------
ContactsNext ==
    \/ AuthConfirmed \/ Restart \/ ListServed \/ ListAnswered \/ ListFails
    \/ \E q \in Names : Search(q) \/ SetName(q)
    \/ \E i \in ContactIds : Select(i) \/ DeleteContact(i)
    \/ \E i \in Id : OpenEditor(i)
    \/ CloseEditor \/ SetExtra \/ AddRow \/ SaveContact
    \/ \E k \in 1 .. MaxEmails : RemoveRow(k) \/ \E v \in Names : SetRow(k, v)
    \/ \E j \in saveJobs : SaveTaken(j) \/ SaveAnswered(j) \/ SaveFails(j)
    \/ \E d \in deleteJobs : DeleteTaken(d) \/ DeleteAnswered(d) \/ DeleteFails(d)
    \/ \E w \in orphans : OrphanTaken(w)

-------------------------------------------------------------------------------
(* Properties.                                                               *)

\* The types of the variables.
ContactsTypeOK ==
    /\ \A r \in stored : r.id \in ContactIds /\ r.key \in Keys /\ r.payload \in Payload
    /\ key \in Keys \cup {None} /\ keys \in 0 .. MaxKeys /\ made \in 0 .. MaxContacts
    /\ DOMAIN contacts \subseteq ContactIds /\ selected \in Id /\ search \in Names
    /\ \A i \in DOMAIN contacts : contacts[i] \in Payload
    /\ editor.open \in BOOLEAN /\ editor.id \in Id /\ editor.draft \in Payload
    /\ saving \in BOOLEAN /\ raced \in BOOLEAN /\ acts \in 0 .. MaxActs

\* A contact stored with a key this browser does not have, or had when it sent a change
\* that is still to be taken, is neither changed nor deleted from it, and never encrypted
\* over: not by a save that comes late nor by one whose contact was deleted meanwhile.
ForeignUntouched ==
    [][\A r \in stored : r.key \notin {key} \cup {w.key : w \in orphans}
                          => r \in stored']_conVars

\* A stored contact has exactly one primary address, if it has any, after any
\* sequence of adding, filling in and removing rows.
OnePrimary ==
    \A r \in stored :
        r.payload.emails # <<>> =>
            /\ Cardinality({i \in DOMAIN r.payload.emails : r.payload.emails[i].primary}) = 1
            /\ \A i \in DOMAIN r.payload.emails : r.payload.emails[i].value # 0

\* When nothing is under way the list is what the server has for the key, unless
\* a change met the load or another of the same contact, an answer was lost, or a change
\* of the page before was taken after the list was read: changes of different contacts may
\* end in any order, whatever is edited, found or selected meanwhile.
ListSettles ==
    listing = "done" /\ saveJobs = {} /\ deleteJobs = {} /\ ~raced
        => contacts = Decrypted(stored)

\* The list and the records are as they were saved.
ContactsSettle == ListSettles /\ OnePrimary
===============================================================================
