-------------------------------- MODULE KeyRing --------------------------------
(* The key pairs of the browsers (apps/mail, apps/drive and apps/calendar,     *)
(* store/crypto.ts), and what is sealed with them (packages/crypto). Every     *)
(* application keeps a pair of its own in the storage of the browser, makes it  *)
(* when it finds none, and publishes the public half once, without waiting and *)
(* as whoever is signed in. The last one published is the key of its user at   *)
(* the key server; the registration publishes one as well, whose private half  *)
(* is kept encrypted and used by nothing. The page of the registration asks    *)
(* nobody who is signed in, and stores the encrypted half before it asks the   *)
(* server. Signing out clears the storage, not the pages that are open; the    *)
(* button of the rail clears other names, and a session that ends nothing.     *)
(*                                                                             *)
(* A pair, which is one for encryption and one for signatures, is the number   *)
(* of its making; 0 is none. A cipher text is the set of pairs that open it.   *)
EXTENDS Naturals, FiniteSets

CONSTANTS
    Browsers,
    Members,        \* the users
    Guest,          \* nobody is signed in
    MaxPairs,       \* bound: pairs made
    MaxSealed,      \* bound: messages sealed
    MaxVisits       \* bound: what the users do

ASSUME KeyRingAssumption ==
    Guest \notin Members /\ MaxPairs \in Nat /\ MaxSealed \in Nat /\ MaxVisits \in Nat

VARIABLES
    ring,           \* local storage: browser, application -> its pair
    inUse,          \* the pair of the page of the application, or 0 if it is not open
    session,        \* the user of the cookie of a browser
    sealedKeys,     \* the encrypted keys of a browser: [pair, password]
    publishing,     \* requests under way: [pair, who]
    known,          \* the key server: the current key of a user
    minted,         \* pairs made so far
    envelopes,      \* messages sealed: [by, at, opens]
    lost,           \* pairs a browser forgot when somebody signed out of it (history)
    private,        \* the pairs of registration forms: [pair, who, at] (history)
    registering,    \* registrations under way, of the same form
    enrolled,       \* the users who have an account
    userPages,      \* browsers where a page of the account shows a user
    visits          \* what the users have done so far

signUpVars == <<registering, enrolled, userPages>>
ringVars == <<ring, inUse, session, sealedKeys, publishing, known, minted, envelopes,
              lost, private, signUpVars, visits>>

KeyApps == {"mail", "drive", "calendar"}
Slots   == Browsers \X KeyApps
NoKey   == 0
NoSealed == [pair |-> NoKey, password |-> Guest]

KeyRingInit ==
    /\ ring = [s \in Slots |-> NoKey] /\ inUse = [s \in Slots |-> NoKey]
    /\ session = [b \in Browsers |-> Guest] /\ sealedKeys = [b \in Browsers |-> NoSealed]
    /\ publishing = {} /\ known = [m \in Members |-> NoKey] /\ minted = 0
    /\ envelopes = {} /\ lost = {} /\ private = {}
    /\ registering = {} /\ enrolled = {} /\ userPages = {} /\ visits = 0

Mint     == minted < MaxPairs /\ minted' = minted + 1
UserActs == visits < MaxVisits /\ visits' = visits + 1

-------------------------------------------------------------------------------
(* Private keys under a password: the password of a member is the member's.    *)

\* What is stored is opened by the password it was stored under, and no other.
EncryptPrivateKeys(password, pair) == [pair |-> pair, password |-> password]

DecryptPrivateKeys(password, packed) ==
    IF packed.password = password THEN packed.pair ELSE NoKey

\* The form of the registration, of anybody, with or without a session: a pair is made
\* and stored encrypted, over what was stored, and only then is the server asked.
SubmitSignUp(b, m) ==
    LET form == [pair |-> minted', who |-> m, at |-> b]
    IN  /\ UserActs /\ Mint
        /\ sealedKeys' = [sealedKeys EXCEPT ![b] = EncryptPrivateKeys(m, minted')]
        /\ private' = private \cup {form} /\ registering' = registering \cup {form}
        /\ UNCHANGED <<ring, inUse, session, publishing, known, envelopes, lost, enrolled,
                       userPages>>

Enters(b, m) ==
    session' = [session EXCEPT ![b] = m] /\ userPages' = userPages \cup {b}

\* The server creates an account and publishes the key; the page is signed in and
\* publishes it again. Or the server stops on its way, before or after the key, or the
\* answer is lost.
RegisterTaken(q) ==
    /\ q.who \notin enrolled /\ enrolled' = enrolled \cup {q.who}
    /\ registering' = registering \ {q}
    /\ known' \in {known, [known EXCEPT ![q.who] = q.pair]}
    /\ \/ /\ known'[q.who] = q.pair /\ Enters(q.at, q.who)
          /\ publishing' = publishing \cup {[pair |-> q.pair, who |-> q.who]}
       \/ UNCHANGED <<session, userPages, publishing>>
    /\ UNCHANGED <<ring, inUse, sealedKeys, minted, envelopes, lost, private, visits>>

\* The address is taken, or the request is lost: what was stored is gone all the same.
RegisterFails(q) ==
    /\ registering' = registering \ {q}
    /\ UNCHANGED <<ring, inUse, session, sealedKeys, publishing, known, minted, envelopes,
                   lost, private, enrolled, userPages, visits>>

\* The page of the sign-in tries the password on what is stored, and keeps nothing of it.
SignInAt(b, m) ==
    /\ UserActs /\ m \in enrolled /\ Enters(b, m)
    /\ UNCHANGED <<ring, inUse, sealedKeys, publishing, known, minted, envelopes, lost, private,
                   registering, enrolled>>

\* A session expires, or is revoked elsewhere: the browser is not told.
SessionExpires(b) ==
    /\ session[b] # Guest /\ session' = [session EXCEPT ![b] = Guest]
    /\ UNCHANGED <<ring, inUse, sealedKeys, publishing, known, minted, envelopes, lost, private,
                   signUpVars, visits>>

-------------------------------------------------------------------------------
(* The pairs of the applications.                                              *)

\* Mutant: what is stored cannot be read.
LoadKeysNever(b, a) == NoKey

LoadKeys(b, a) == ring[<<b, a>>]

\* initializeKeys, when the page of an application is opened: whether anybody is signed
\* in does not matter to it, but the server refuses to publish for nobody.
OpenApp(b, a) ==
    /\ UserActs /\ inUse[<<b, a>>] = NoKey
    /\ IF LoadKeys(b, a) # NoKey
       THEN /\ inUse' = [inUse EXCEPT ![<<b, a>>] = LoadKeys(b, a)]
            /\ UNCHANGED <<ring, publishing, minted>>
       ELSE /\ Mint
            /\ ring' = [ring EXCEPT ![<<b, a>>] = minted']
            /\ inUse' = [inUse EXCEPT ![<<b, a>>] = minted']
            /\ publishing' = IF session[b] = Guest THEN publishing
                             ELSE publishing \cup {[pair |-> minted', who |-> session[b]]}
    /\ UNCHANGED <<session, sealedKeys, known, envelopes, lost, private, signUpVars>>

CloseApp(b, a) ==
    /\ UserActs /\ inUse[<<b, a>>] # NoKey
    /\ inUse' = [inUse EXCEPT ![<<b, a>>] = NoKey]
    /\ UNCHANGED <<ring, session, sealedKeys, publishing, known, minted, envelopes, lost, private,
                   signUpVars>>

\* The requests arrive in any order, or not at all; nobody asks again.
PublishArrives(p) ==
    /\ publishing' = publishing \ {p}
    /\ known' = [known EXCEPT ![p.who] = p.pair]
    /\ UNCHANGED <<ring, inUse, session, sealedKeys, minted, envelopes, lost, private, visits,
                   signUpVars>>

PublishFails(p) ==
    /\ publishing' = publishing \ {p}
    /\ UNCHANGED <<ring, inUse, session, sealedKeys, known, minted, envelopes, lost, private,
                   visits, signUpVars>>

\* Signing out on the page of the account clears the storage, even when the request
\* fails and the session goes on; pages of applications that are open keep their pair.
Logout(b) ==
    /\ UserActs /\ b \in userPages
    /\ session' \in {session, [session EXCEPT ![b] = Guest]}
    /\ userPages' = userPages \ {c \in {b} : session'[b] = Guest}
    /\ ring' = [s \in Slots |-> IF s[1] = b THEN NoKey ELSE ring[s]]
    /\ sealedKeys' = [sealedKeys EXCEPT ![b] = NoSealed]
    /\ lost' = lost \cup (({ring[<<b, a>>] : a \in KeyApps} \cup {sealedKeys[b].pair}) \ {NoKey})
    /\ UNCHANGED <<inUse, publishing, known, minted, envelopes, private, registering, enrolled>>

\* The button of the rail removes two names that nothing stores, and leaves the page.
\* The cookie stays, so the page of the sign-in goes on as the same user.
HandleLogout(b, a) == CloseApp(b, a)

-------------------------------------------------------------------------------
(* Envelopes.                                                                  *)

\* What is sealed opens for the sender and for everyone whose key is given.
SealEnvelope(pair, keys) == [by |-> pair, opens |-> {pair} \cup keys]

\* Opening takes the private key of a recipient, and the public key for signatures of
\* the sender.
OpensWith(e, pair, signer) == pair \in e.opens /\ signer = e.by

\* Mail seals with the pair of its page, for the recipients whose keys it is told.
Send(b, to) ==
    LET pair == inUse[<<b, "mail">>]
        e    == SealEnvelope(pair, {known[m] : m \in to} \ {NoKey})
    IN  /\ UserActs /\ pair # NoKey /\ session[b] # Guest /\ Cardinality(envelopes) < MaxSealed
        /\ envelopes' = envelopes \cup {[at |-> b, by |-> e.by, opens |-> e.opens]}
        /\ UNCHANGED <<ring, inUse, session, sealedKeys, publishing, known, minted, lost, private,
                       signUpVars>>

KeyRingNext ==
    \/ \E b \in Browsers, m \in Members : SubmitSignUp(b, m) \/ SignInAt(b, m)
    \/ \E q \in registering : RegisterTaken(q) \/ RegisterFails(q)
    \/ \E b \in Browsers, a \in KeyApps : OpenApp(b, a) \/ CloseApp(b, a) \/ HandleLogout(b, a)
    \/ \E p \in publishing : PublishArrives(p) \/ PublishFails(p)
    \/ \E b \in Browsers : Logout(b) \/ SessionExpires(b)
    \/ \E b \in Browsers, to \in SUBSET Members : Send(b, to)

-------------------------------------------------------------------------------
(* Properties.                                                                 *)

Pairs == 0 .. MaxPairs
SignUpForms == [pair: Pairs, who: Members, at: Browsers]

\* The types of the variables.
KeyRingTypeOK ==
    /\ ring \in [Slots -> Pairs] /\ inUse \in [Slots -> Pairs] /\ minted \in Pairs
    /\ session \in [Browsers -> Members \cup {Guest}]
    /\ sealedKeys \in [Browsers -> [pair: Pairs, password: Members \cup {Guest}]]
    /\ publishing \subseteq [pair: Pairs, who: Members] /\ known \in [Members -> Pairs]
    /\ envelopes \subseteq [at: Browsers, by: Pairs, opens: SUBSET Pairs]
    /\ lost \subseteq Pairs /\ private \subseteq SignUpForms
    /\ registering \subseteq private /\ enrolled \subseteq Members /\ userPages \subseteq Browsers
    /\ visits \in 0 .. MaxVisits

Registered == {r.pair : r \in private}

Held == {ring[s] : s \in Slots} \ {NoKey}

\* Until somebody signs out of the browser, the private half of every key that the key
\* server has, or is on its way to it, is in the storage of exactly one application of
\* one browser, however pages are opened, closed and left and requests come late: the
\* pair is stored before it is published, and never made again. Pairs of registrations
\* are the exception: the browser keeps them encrypted. So a user who opens the drive
\* after mail has a key that mail does not hold.
PublishedIsHeld ==
    \A k \in ({known[m] : m \in Members} \cup {p.pair : p \in publishing})
             \ ({NoKey} \cup Registered \cup lost) :
        Cardinality({s \in Slots : ring[s] = k}) = 1

\* A sender can open what was sealed in the browser again, from its storage, until
\* somebody signs out of it; and what is sealed for the keys of others can be opened
\* by who holds them, with the sender's key for signatures.
SealedCanBeOpened ==
    \A e \in envelopes :
        /\ e.by \in lost \/ OpensWith(e, ring[<<e.at, "mail">>], e.by)
        /\ \A k \in e.opens \ (lost \cup Registered) : k \in Held /\ OpensWith(e, k, e.by)

\* Pages that are open use the pair of the storage, or one that was signed out of.
PagesUseTheRing == \A s \in Slots : inUse[s] \in {NoKey, ring[s]} \cup lost

\* A browser keeps the pair of the last registration form that was sent from it, whether
\* or not the server took it, until somebody signs out there: it opens with the password
\* of that form, and no sign-in, no end of a session and no pair an application makes
\* replaces it. (The pairs of earlier forms are gone, also those of accounts.)
RegisteredIsKept ==
    \A r \in private :
        \/ r.pair \in lost \/ DecryptPrivateKeys(r.who, sealedKeys[r.at]) = r.pair
        \/ \E s \in private : s.at = r.at /\ s.pair > r.pair
===============================================================================
