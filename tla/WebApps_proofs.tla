---------------------------- MODULE WebApps_proofs ----------------------------
(* The safety of the web applications, for any numbers of accounts, contacts,  *)
(* events, files, folders, browsers and answers under way: key pairs, accounts, *)
(* contacts, events and drive, one section each, and at the end what follows    *)
(* for MCWebApps, where they stand beside the screens of WebScreens_proofs.     *)
EXTENDS MCWebApps, WebScreens_proofs, FiniteSetTheorems, WellFoundedInduction, TLAPS

-------------------------------------------------------------------------------
(* I. The key pairs. *)

\* The pairs somebody answers for: in the storage of an application, forgotten, or
\* made by a registration.
AnsweredFor == Held \cup lost \cup Registered

\* No pair is above the count of those made, so the next one is new.
PairsAreMinted ==
    /\ \A s \in Slots : ring[s] <= minted /\ inUse[s] <= minted
    /\ \A b \in Browsers : sealedKeys[b].pair <= minted
    /\ \A p \in publishing : p.pair <= minted
    /\ \A m \in Members : known[m] <= minted
    /\ \A e \in envelopes : e.by <= minted /\ \A k \in e.opens : k <= minted
    /\ \A k \in lost : k <= minted
    /\ \A r \in private : r.pair <= minted /\ r.pair # NoKey

\* Two applications never store the same pair, nor that of a registration.
RingIsDistinct ==
    \A s \in Slots :
        ring[s] # NoKey => /\ \A t \in Slots : ring[t] = ring[s] => t = s
                           /\ ring[s] \notin Registered

\* Somebody answers for every key that is published or on its way.
KnownIsAnswered ==
    /\ \A m \in Members : known[m] \in {NoKey} \cup AnsweredFor
    /\ \A p \in publishing : p.pair \in AnsweredFor

\* The sender of an envelope is the mail of its browser, and somebody answers for
\* every key that opens it.
EnvelopesAnswered ==
    \A e \in envelopes :
        /\ e.by \in e.opens /\ e.by # NoKey
        /\ e.by \in lost \/ e.by = ring[<<e.at, "mail">>]
        /\ \A k \in e.opens : k \in AnsweredFor

\* The inductive invariant.
KeyRingInv ==
    /\ KeyRingTypeOK /\ PairsAreMinted /\ RingIsDistinct /\ KnownIsAnswered
    /\ EnvelopesAnswered /\ PagesUseTheRing /\ RegisteredIsKept

LEMMA KeyRingInitOK == KeyRingInit => KeyRingInv
<1> SUFFICES ASSUME KeyRingInit PROVE KeyRingInv OBVIOUS
<1> USE KeyRingAssumption DEF KeyRingInit, NoKey, NoSealed, Pairs
<1>1. KeyRingTypeOK BY DEF KeyRingTypeOK
<1>2. PairsAreMinted BY DEF PairsAreMinted
<1>3. RingIsDistinct /\ PagesUseTheRing BY DEF RingIsDistinct, PagesUseTheRing
<1>4. KnownIsAnswered /\ EnvelopesAnswered BY DEF KnownIsAnswered, EnvelopesAnswered
<1>5. RegisteredIsKept BY DEF RegisteredIsKept
<1> QED BY <1>1, <1>2, <1>3, <1>4, <1>5 DEF KeyRingInv

\* The types in the forms the steps need.
LEMMA PairTypes ==
    ASSUME KeyRingTypeOK
    PROVE  /\ minted \in Nat /\ minted <= MaxPairs
           /\ \A s \in Slots : ring[s] \in Pairs /\ inUse[s] \in Pairs
           /\ \A b \in Browsers : sealedKeys[b] \in [pair: Pairs, password: Members \cup {Guest}]
           /\ \A m \in Members : known[m] \in Pairs
           /\ \A p \in publishing : p.pair \in Pairs /\ p.who \in Members
           /\ \A e \in envelopes : e.at \in Browsers /\ e.by \in Pairs /\ e.opens \subseteq Pairs
           /\ \A r \in private : r.pair \in Pairs /\ r.who \in Members /\ r.at \in Browsers
           /\ \A k \in lost : k \in Pairs
           /\ \A k \in Pairs : k \in Nat
  BY KeyRingAssumption DEF KeyRingTypeOK, Pairs, SignUpForms

LEMMA VisitsCounted ==
    KeyRingTypeOK /\ (UserActs \/ visits' = visits) => visits' \in 0 .. MaxVisits
  BY KeyRingAssumption DEF KeyRingTypeOK, UserActs

\* A new pair is not one that is there.
LEMMA NewPair ==
    ASSUME KeyRingTypeOK, Mint
    PROVE  /\ minted' = minted + 1 /\ minted' \in Pairs /\ minted' # NoKey
           /\ \A k \in Nat : k <= minted => k # minted' /\ k <= minted'
  BY PairTypes, KeyRingAssumption DEF Mint, Pairs, NoKey

\* What is below a count is below a greater one.
LEMMA MintedGrows ==
    ASSUME KeyRingTypeOK, PairsAreMinted, Mint,
           \A s \in Slots : ring'[s] \in {ring[s], minted', NoKey},
           \A s \in Slots : inUse'[s] \in {inUse[s], ring[s], minted', NoKey},
           \A b \in Browsers : sealedKeys'[b].pair \in {sealedKeys[b].pair, minted'},
           \A p \in publishing' : p \in publishing \/ p.pair = minted',
           \A m \in Members : known'[m] \in {known[m], minted'},
           envelopes' = envelopes, lost' = lost,
           \A r \in private' : r \in private \/ r.pair = minted'
    PROVE  PairsAreMinted'
<1>n. /\ minted' \in Pairs /\ minted' # NoKey /\ minted' \in Nat /\ NoKey <= minted'
      /\ \A k \in Nat : k <= minted => k <= minted'
  BY NewPair, PairTypes DEF NoKey
<1>0. minted' <= minted' BY <1>n
<1>1. (\A s \in Slots : ring[s] <= minted /\ inUse[s] <= minted)'
 <2> SUFFICES ASSUME NEW s \in Slots PROVE ring'[s] <= minted' /\ inUse'[s] <= minted' OBVIOUS
 <2>1. ring[s] <= minted' /\ inUse[s] <= minted' BY <1>n, PairTypes DEF PairsAreMinted
 <2> QED BY <2>1, <1>n, <1>0
<1>2. (\A b \in Browsers : sealedKeys[b].pair <= minted)'
  BY <1>n, <1>0, PairTypes DEF PairsAreMinted
<1>3. (\A p \in publishing : p.pair <= minted)' BY <1>n, <1>0, PairTypes DEF PairsAreMinted
<1>4. (\A m \in Members : known[m] <= minted)' BY <1>n, <1>0, PairTypes DEF PairsAreMinted
<1>5. (\A e \in envelopes : e.by <= minted /\ \A k \in e.opens : k <= minted)'
  BY <1>n, PairTypes DEF PairsAreMinted
<1>6. (\A k \in lost : k <= minted)' BY <1>n, PairTypes DEF PairsAreMinted
<1>7. (\A r \in private : r.pair <= minted /\ r.pair # NoKey)'
  BY <1>n, <1>0, PairTypes DEF PairsAreMinted
<1> QED BY <1>1, <1>2, <1>3, <1>4, <1>5, <1>6, <1>7 DEF PairsAreMinted

\* A registration form.
LEMMA SubmitsSignUp ==
    ASSUME KeyRingInv, NEW b \in Browsers, NEW m \in Members, SubmitSignUp(b, m)
    PROVE  KeyRingInv'
<1> USE DEF KeyRingInv
<1>v. visits' \in 0 .. MaxVisits BY VisitsCounted DEF KeyRingInv, SubmitSignUp
<1>m. Mint BY DEF SubmitSignUp
<1>n. /\ minted' \in Pairs /\ minted' # NoKey
      /\ \A k \in Nat : k <= minted => k # minted' /\ k < minted'
  BY <1>m, NewPair, PairTypes
<1>q. PICK q : q = [pair |-> minted', who |-> m, at |-> b] OBVIOUS
<1>f. q.pair = minted' /\ q.who = m /\ q.at = b /\ q \in SignUpForms BY <1>q, <1>n DEF SignUpForms
<1>s. /\ ring' = ring /\ inUse' = inUse /\ publishing' = publishing /\ known' = known
      /\ envelopes' = envelopes /\ lost' = lost /\ session' = session
      /\ enrolled' = enrolled /\ userPages' = userPages
      /\ private' = private \cup {q} /\ registering' = registering \cup {q}
      /\ sealedKeys' = [sealedKeys EXCEPT ![b] = [pair |-> minted', password |-> m]]
  BY <1>q DEF SubmitSignUp, EncryptPrivateKeys
<1>k. sealedKeys \in [Browsers -> [pair: Pairs, password: Members \cup {Guest}]]
  BY DEF KeyRingTypeOK
<1>e. /\ sealedKeys'[b] = [pair |-> minted', password |-> m]
      /\ \A c \in Browsers : c # b => sealedKeys'[c] = sealedKeys[c]
  BY <1>s, <1>k
<1>h. Held' = Held /\ Registered' = Registered \cup {minted'}
 <2>1. Held' = Held BY <1>s DEF Held
 <2>4. \A k : k \in Registered' <=> k \in Registered \/ k = minted' BY <1>f, <1>s DEF Registered
 <2> QED BY <2>1, <2>4
<1>1. KeyRingTypeOK'
 <2>1. sealedKeys' \in [Browsers -> [pair: Pairs, password: Members \cup {Guest}]]
   BY <1>n, <1>s, <1>k
 <2> QED BY <1>v, <1>n, <1>f, <1>s, <2>1 DEF KeyRingTypeOK
<1>2. PairsAreMinted'
 <2>1. \A c \in Browsers : sealedKeys'[c].pair \in {sealedKeys[c].pair, minted'} BY <1>e
 <2>3. \A r \in private' : r \in private \/ r.pair = minted' BY <1>s, <1>f
 <2> QED BY <1>m, <1>s, <2>1, <2>3, MintedGrows
<1>3. RingIsDistinct'
 <2>1. \A s \in Slots : ring[s] # minted' BY <1>n, PairTypes DEF PairsAreMinted
 <2> QED BY <1>s, <1>h, <2>1 DEF RingIsDistinct
<1>4. KnownIsAnswered' BY <1>s, <1>h DEF KnownIsAnswered, AnsweredFor, KeyRingTypeOK
<1>5. EnvelopesAnswered' /\ PagesUseTheRing'
  BY <1>s, <1>h DEF EnvelopesAnswered, AnsweredFor, PagesUseTheRing
<1>7. RegisteredIsKept'
 <2> SUFFICES ASSUME NEW r \in private', r.pair \notin lost',
                     \A s \in private' : s.at = r.at => ~(s.pair > r.pair)
              PROVE  DecryptPrivateKeys(r.who, sealedKeys'[r.at]) = r.pair
   BY DEF RegisteredIsKept, DecryptPrivateKeys
 <2>1. CASE r = q BY <2>1, <1>e, <1>f DEF DecryptPrivateKeys
 <2>2. CASE r \in private
  <3>1. r.at # b BY <2>2, <1>f, <1>n, <1>s, PairTypes DEF PairsAreMinted
  <3>2. DecryptPrivateKeys(r.who, sealedKeys[r.at]) = r.pair BY <2>2, <1>s DEF RegisteredIsKept
  <3> QED BY <3>1, <3>2, <2>2, <1>e, PairTypes
 <2> QED BY <2>1, <2>2, <1>s
<1> QED BY <1>1, <1>2, <1>3, <1>4, <1>5, <1>7

\* The server takes a registration, wholly or in part.
LEMMA RegistersUser ==
    ASSUME KeyRingInv, NEW q \in registering, RegisterTaken(q)
    PROVE  KeyRingInv'
<1> USE DEF KeyRingInv
<1>v. visits' \in 0 .. MaxVisits BY VisitsCounted DEF KeyRingInv, RegisterTaken
<1>q. /\ q \in private /\ q.pair \in Pairs /\ q.who \in Members /\ q.at \in Browsers
      /\ q.pair <= minted /\ q.pair \in AnsweredFor
 <2>1. q \in private BY DEF KeyRingTypeOK
 <2> QED BY <2>1, PairTypes DEF PairsAreMinted, AnsweredFor, Registered
<1>s. /\ UNCHANGED <<ring, inUse, sealedKeys, minted, envelopes, lost, private>>
      /\ registering' = registering \ {q} /\ enrolled' = enrolled \cup {q.who}
      /\ known' \in {known, [known EXCEPT ![q.who] = q.pair]}
      /\ session' \in {session, [session EXCEPT ![q.at] = q.who]}
      /\ userPages' \subseteq userPages \cup {q.at}
      /\ publishing' \in {publishing, publishing \cup {[pair |-> q.pair, who |-> q.who]}}
  BY DEF RegisterTaken, Enters
<1>k. \A m \in Members : known'[m] \in {known[m], q.pair} BY <1>s DEF KeyRingTypeOK
<1>p. /\ publishing' \subseteq [pair: Pairs, who: Members]
      /\ \A p \in publishing' : p \in publishing \/ p.pair = q.pair
  BY <1>q, <1>s DEF KeyRingTypeOK
<1>h. AnsweredFor' = AnsweredFor BY <1>s DEF AnsweredFor, Held, Registered
<1>1. KeyRingTypeOK'
 <2>1. known' \in [Members -> Pairs] /\ session' \in [Browsers -> Members \cup {Guest}]
   BY <1>q, <1>s DEF KeyRingTypeOK
 <2> QED BY <1>v, <1>q, <1>s, <1>p, <2>1 DEF KeyRingTypeOK
<1>2. PairsAreMinted' BY <1>q, <1>s, <1>k, <1>p DEF PairsAreMinted
<1>3. RingIsDistinct' /\ EnvelopesAnswered'
  BY <1>s, <1>h DEF RingIsDistinct, EnvelopesAnswered, Registered
<1>4. KnownIsAnswered' BY <1>q, <1>k, <1>p, <1>h DEF KnownIsAnswered
<1>5. PagesUseTheRing' /\ RegisteredIsKept'
  BY <1>s DEF PagesUseTheRing, RegisteredIsKept, DecryptPrivateKeys
<1> QED BY <1>1, <1>2, <1>3, <1>4, <1>5

\* A user who signs in, a session that ends, and a registration that fails.
LEMMA SignsIn ==
    ASSUME KeyRingInv,
           \/ \E b \in Browsers, m \in Members : SignInAt(b, m)
           \/ \E b \in Browsers : SessionExpires(b)
           \/ \E q \in registering : RegisterFails(q)
    PROVE  KeyRingInv'
<1> USE DEF KeyRingInv
<1>v. visits' \in 0 .. MaxVisits BY VisitsCounted DEF SignInAt, SessionExpires, RegisterFails
<1>s. /\ UNCHANGED <<ring, inUse, sealedKeys, publishing, known, minted, envelopes, lost,
                     private, enrolled>>
      /\ registering' \subseteq registering /\ userPages' \subseteq userPages \cup Browsers
      /\ session' \in [Browsers -> Members \cup {Guest}]
  BY DEF SignInAt, Enters, SessionExpires, RegisterFails, signUpVars, KeyRingTypeOK
<1>1. KeyRingTypeOK' BY <1>v, <1>s DEF KeyRingTypeOK, Pairs
<1>2. PairsAreMinted' /\ RingIsDistinct' BY <1>s DEF PairsAreMinted, RingIsDistinct, Registered
<1>3. KnownIsAnswered' /\ EnvelopesAnswered' /\ PagesUseTheRing'
  BY <1>s DEF KnownIsAnswered, EnvelopesAnswered, PagesUseTheRing, AnsweredFor, Held, Registered
<1>5. RegisteredIsKept' BY <1>s DEF RegisteredIsKept, DecryptPrivateKeys
<1> QED BY <1>1, <1>2, <1>3, <1>5

\* A page that finds its pair, and one that makes it.
LEMMA Opens ==
    ASSUME KeyRingInv, NEW b \in Browsers, NEW a \in KeyApps, OpenApp(b, a)
    PROVE  KeyRingInv'
<1> USE DEF KeyRingInv
<1>v. visits' \in 0 .. MaxVisits BY VisitsCounted DEF KeyRingInv, OpenApp
<1>u. /\ UNCHANGED <<session, sealedKeys, known, envelopes, lost, private,
                     registering, enrolled, userPages>>
      /\ inUse[<<b, a>>] = NoKey
  BY DEF OpenApp, signUpVars
<1>t. PICK t \in Slots : t = <<b, a>> BY DEF Slots
<1>r. Registered' = Registered BY <1>u DEF Registered
<1>a. CASE ring[t] # NoKey
 <2>1. UNCHANGED <<ring, publishing, minted>> /\ inUse' = [inUse EXCEPT ![t] = ring[t]]
   BY <1>a, <1>t DEF OpenApp, LoadKeys
 <2>2. KeyRingTypeOK' BY <1>v, <1>u, <2>1, PairTypes DEF KeyRingTypeOK, Pairs
 <2>3. PairsAreMinted' BY <1>u, <2>1 DEF PairsAreMinted, KeyRingTypeOK
 <2>4. RingIsDistinct' /\ KnownIsAnswered' /\ EnvelopesAnswered'
   BY <1>u, <2>1, <1>r DEF RingIsDistinct, KnownIsAnswered, EnvelopesAnswered, AnsweredFor, Held
 <2>5. PagesUseTheRing' BY <1>u, <2>1 DEF PagesUseTheRing, KeyRingTypeOK
 <2>6. RegisteredIsKept' BY <1>u DEF RegisteredIsKept, DecryptPrivateKeys
 <2> QED BY <2>2, <2>3, <2>4, <2>5, <2>6
<1>b. CASE ring[t] = NoKey
 <2>m. Mint BY <1>b, <1>t DEF OpenApp, LoadKeys
 <2>n. /\ minted' \in Pairs /\ minted' # NoKey
       /\ \A k \in Nat : k <= minted => k # minted'
   BY <2>m, NewPair
 <2>1. /\ ring' = [ring EXCEPT ![t] = minted'] /\ inUse' = [inUse EXCEPT ![t] = minted']
       /\ publishing' = IF session[b] = Guest THEN publishing
                        ELSE publishing \cup {[pair |-> minted', who |-> session[b]]}
   BY <1>b, <1>t DEF OpenApp, LoadKeys
 <2>p. /\ publishing' \subseteq [pair: Pairs, who: Members]
       /\ \A p \in publishing' : p \in publishing \/ p.pair = minted'
  <3>1. session[b] # Guest => [pair |-> minted', who |-> session[b]] \in [pair: Pairs, who: Members]
    BY <2>n DEF KeyRingTypeOK
  <3> QED BY <2>1, <3>1 DEF KeyRingTypeOK
 <2>r. ring'[t] = minted' /\ \A s \in Slots : s # t => ring'[s] = ring[s] BY <2>1 DEF KeyRingTypeOK
 <2>h. Held' = Held \cup {minted'}
  <3>1. \A k : k \in Held' <=> k \in Held \cup {minted'} BY <2>r, <2>n, <1>b DEF Held
  <3> QED BY <3>1
 <2>2. KeyRingTypeOK' BY <1>v, <1>u, <2>1, <2>n, <2>p DEF KeyRingTypeOK
 <2>3. PairsAreMinted'
  <3>1. \A s \in Slots : ring'[s] \in {ring[s], minted', NoKey} BY <2>r
  <3>2. \A s \in Slots : inUse'[s] \in {inUse[s], ring[s], minted', NoKey}
    BY <2>1 DEF KeyRingTypeOK
  <3> QED BY <1>u, <2>m, <3>1, <3>2, <2>p, MintedGrows
 <2>4. RingIsDistinct'
  <3>1. \A s \in Slots : ring[s] # minted' BY <2>n, PairTypes DEF PairsAreMinted
  <3>2. minted' \notin Registered BY <2>n, PairTypes DEF PairsAreMinted, Registered
  <3> QED BY <3>1, <3>2, <2>r, <1>r DEF RingIsDistinct
 <2>5. KnownIsAnswered' BY <1>u, <1>r, <2>h, <2>p DEF KnownIsAnswered, AnsweredFor
 <2>6. EnvelopesAnswered'
  <3> SUFFICES ASSUME NEW e \in envelopes
               PROVE  /\ e.by \in e.opens /\ e.by # NoKey
                      /\ e.by \in lost' \/ e.by = ring'[<<e.at, "mail">>]
                      /\ \A k \in e.opens : k \in AnsweredFor'
    BY <1>u, Zenon DEF EnvelopesAnswered
  <3>1. <<e.at, "mail">> \in Slots /\ e.by \in Nat BY PairTypes DEF Slots, KeyApps
  <3>2. e.by \in lost \/ e.by = ring'[<<e.at, "mail">>]
   <4>1. CASE <<e.at, "mail">> # t BY <4>1, <3>1, <2>r DEF EnvelopesAnswered
   <4>2. CASE <<e.at, "mail">> = t
    <5>1. e.by # NoKey BY <1>u DEF EnvelopesAnswered
    <5> QED BY <4>2, <5>1, <1>b DEF EnvelopesAnswered
   <4> QED BY <4>1, <4>2
  <3> QED BY <3>2, <1>u, <1>r, <2>h DEF EnvelopesAnswered, AnsweredFor
 <2>7. PagesUseTheRing' BY <1>u, <2>1, <2>r DEF PagesUseTheRing, KeyRingTypeOK
 <2>8. RegisteredIsKept' BY <1>u DEF RegisteredIsKept, DecryptPrivateKeys
 <2> QED BY <2>2, <2>3, <2>4, <2>5, <2>6, <2>7, <2>8
<1> QED BY <1>a, <1>b

\* Pages close; nothing else changes.
LEMMA Closes ==
    ASSUME KeyRingInv, NEW b \in Browsers, NEW a \in KeyApps, CloseApp(b, a)
    PROVE  KeyRingInv'
<1> USE DEF KeyRingInv
<1>v. visits' \in 0 .. MaxVisits BY VisitsCounted DEF KeyRingInv, CloseApp
<1>s. /\ UNCHANGED <<ring, session, sealedKeys, publishing, known, minted, envelopes, lost,
                     private, registering, enrolled, userPages>>
      /\ inUse' = [inUse EXCEPT ![<<b, a>>] = NoKey]
  BY DEF CloseApp, signUpVars
<1>i. \A s \in Slots : inUse'[s] \in {inUse[s], NoKey} BY <1>s DEF KeyRingTypeOK
<1>1. KeyRingTypeOK'
 <2>1. NoKey \in Pairs BY KeyRingAssumption DEF Pairs, NoKey
 <2>2. inUse' \in [Slots -> Pairs] BY <1>s, <2>1 DEF KeyRingTypeOK
 <2> QED BY <1>v, <1>s, <2>2 DEF KeyRingTypeOK, Pairs
<1>2. PairsAreMinted' BY <1>s, <1>i, PairTypes DEF PairsAreMinted, NoKey
<1>3. RingIsDistinct' /\ KnownIsAnswered' /\ EnvelopesAnswered'
  BY <1>s DEF RingIsDistinct, KnownIsAnswered, EnvelopesAnswered, AnsweredFor, Held, Registered
<1>4. PagesUseTheRing' BY <1>s, <1>i DEF PagesUseTheRing
<1>5. RegisteredIsKept' BY <1>s DEF RegisteredIsKept, DecryptPrivateKeys
<1> QED BY <1>1, <1>2, <1>3, <1>4, <1>5

\* A key arrives at the key server, or does not.
LEMMA Publishes ==
    ASSUME KeyRingInv, NEW p \in publishing, PublishArrives(p) \/ PublishFails(p)
    PROVE  KeyRingInv'
<1> USE DEF KeyRingInv
<1>v. visits' \in 0 .. MaxVisits BY VisitsCounted DEF KeyRingInv, PublishArrives, PublishFails
<1>s. /\ UNCHANGED <<ring, inUse, session, sealedKeys, minted, envelopes, lost, private,
                     registering, enrolled, userPages>>
      /\ publishing' = publishing \ {p}
      /\ known' \in {known, [known EXCEPT ![p.who] = p.pair]}
  BY DEF PublishArrives, PublishFails, signUpVars
<1>k. \A m \in Members : known'[m] \in {known[m], p.pair} BY <1>s DEF KeyRingTypeOK
<1>h. AnsweredFor' = AnsweredFor BY <1>s DEF AnsweredFor, Held, Registered
<1>1. KeyRingTypeOK'
 <2>1. known' \in [Members -> Pairs] BY <1>s, PairTypes DEF KeyRingTypeOK
 <2> QED BY <1>v, <1>s, <2>1 DEF KeyRingTypeOK
<1>2. PairsAreMinted' BY <1>s, <1>k DEF PairsAreMinted
<1>3. RingIsDistinct' /\ EnvelopesAnswered'
  BY <1>s, <1>h DEF RingIsDistinct, EnvelopesAnswered, Registered
<1>4. KnownIsAnswered' BY <1>s, <1>k, <1>h DEF KnownIsAnswered
<1>5. PagesUseTheRing' /\ RegisteredIsKept'
  BY <1>s DEF PagesUseTheRing, RegisteredIsKept, DecryptPrivateKeys
<1> QED BY <1>1, <1>2, <1>3, <1>4, <1>5

\* Signing out forgets what the browser stores.
LEMMA SignsOut ==
    ASSUME KeyRingInv, NEW b \in Browsers, Logout(b)
    PROVE  KeyRingInv'
<1> USE DEF KeyRingInv
<1>v. visits' \in 0 .. MaxVisits BY VisitsCounted DEF KeyRingInv, Logout
<1>s. /\ UNCHANGED <<inUse, publishing, known, minted, envelopes, private, registering, enrolled>>
      /\ userPages' \subseteq userPages
      /\ session' \in {session, [session EXCEPT ![b] = Guest]}
      /\ ring' = [s \in Slots |-> IF s[1] = b THEN NoKey ELSE ring[s]]
      /\ sealedKeys' = [sealedKeys EXCEPT ![b] = NoSealed]
      /\ lost' = lost \cup (({ring[<<b, a>>] : a \in KeyApps} \cup {sealedKeys[b].pair}) \ {NoKey})
  BY DEF Logout
<1>0. NoKey \in Pairs /\ NoKey \in Nat /\ \A n \in Nat : NoKey <= n
  BY KeyRingAssumption DEF NoKey, Pairs
<1>r. \A s \in Slots : \/ ring'[s] = ring[s]
                       \/ ring'[s] = NoKey /\ ring[s] \in lost' \cup {NoKey}
 <2> SUFFICES ASSUME NEW s \in Slots, s[1] = b PROVE ring[s] \in lost' \cup {NoKey} BY <1>s
 <2>1. PICK a \in KeyApps : s = <<b, a>> BY DEF Slots
 <2> QED BY <2>1, <1>s
<1>e. /\ sealedKeys'[b] = NoSealed
      /\ \A c \in Browsers : c # b => sealedKeys'[c] = sealedKeys[c]
  BY <1>s DEF KeyRingTypeOK
<1>l. lost \subseteq lost' /\ \A k \in lost' : k \in Pairs /\ k <= minted
 <2>1. \A a \in KeyApps : ring[<<b, a>>] \in Pairs /\ ring[<<b, a>>] <= minted
   BY PairTypes DEF Slots, PairsAreMinted
 <2>2. sealedKeys[b].pair \in Pairs /\ sealedKeys[b].pair <= minted BY PairTypes DEF PairsAreMinted
 <2> QED BY <1>s, <2>1, <2>2, PairTypes DEF PairsAreMinted
<1>h. AnsweredFor \subseteq AnsweredFor'
 <2>1. Held \subseteq Held' \cup lost' BY <1>r DEF Held
 <2> QED BY <2>1, <1>l, <1>s DEF AnsweredFor, Registered
<1>1. KeyRingTypeOK'
 <2>1. ring' \in [Slots -> Pairs] BY <1>s, <1>0 DEF KeyRingTypeOK
 <2>2. session' \in [Browsers -> Members \cup {Guest}] BY <1>s DEF KeyRingTypeOK
 <2>3. sealedKeys' \in [Browsers -> [pair: Pairs, password: Members \cup {Guest}]]
   BY <1>s, <1>0 DEF KeyRingTypeOK, NoSealed
 <2> QED BY <1>v, <1>s, <1>l, <2>1, <2>2, <2>3 DEF KeyRingTypeOK, Pairs
<1>2. PairsAreMinted'
 <2>1. \A s \in Slots : ring'[s] <= minted BY <1>r, <1>0, PairTypes DEF PairsAreMinted
 <2>2. \A c \in Browsers : sealedKeys'[c].pair <= minted
   BY <1>e, <1>0, PairTypes DEF PairsAreMinted, NoSealed
 <2> QED BY <1>s, <1>l, <2>1, <2>2 DEF PairsAreMinted
<1>3. RingIsDistinct' BY <1>s, <1>r DEF RingIsDistinct, Registered
<1>4. KnownIsAnswered' BY <1>s, <1>h DEF KnownIsAnswered
<1>5. EnvelopesAnswered'
 <2> SUFFICES ASSUME NEW e \in envelopes
              PROVE  e.by \in lost' \/ e.by = ring'[<<e.at, "mail">>]
   BY <1>s, <1>h, Zenon DEF EnvelopesAnswered
 <2>1. <<e.at, "mail">> \in Slots BY PairTypes DEF Slots, KeyApps
 <2> QED BY <2>1, <1>r, <1>l DEF EnvelopesAnswered
<1>6. PagesUseTheRing' BY <1>s, <1>r, <1>l DEF PagesUseTheRing
<1>8. RegisteredIsKept'
 <2> SUFFICES ASSUME NEW r \in private, r.pair \notin lost',
                     \A s \in private : s.at = r.at => ~(s.pair > r.pair)
              PROVE  DecryptPrivateKeys(r.who, sealedKeys'[r.at]) = r.pair
   BY <1>s DEF RegisteredIsKept, DecryptPrivateKeys
 <2>1. DecryptPrivateKeys(r.who, sealedKeys[r.at]) = r.pair BY <1>l DEF RegisteredIsKept
 <2>2. sealedKeys[r.at].pair = r.pair /\ r.pair # NoKey
   BY <2>1 DEF DecryptPrivateKeys, PairsAreMinted
 <2>3. r.at # b BY <2>2, <1>s
 <2> QED BY <2>1, <2>3, <1>e, PairTypes
<1> QED BY <1>1, <1>2, <1>3, <1>4, <1>5, <1>6, <1>8

\* Mail seals a message.
LEMMA SendsMail ==
    ASSUME KeyRingInv, NEW b \in Browsers, NEW to \in SUBSET Members, Send(b, to)
    PROVE  KeyRingInv'
<1> USE DEF KeyRingInv
<1>v. visits' \in 0 .. MaxVisits BY VisitsCounted DEF KeyRingInv, Send
<1>p. PICK pair : pair = inUse[<<b, "mail">>] OBVIOUS
<1>o. PICK opens : opens = {pair} \cup ({known[m] : m \in to} \ {NoKey}) OBVIOUS
<1>s. /\ UNCHANGED <<ring, inUse, session, sealedKeys, publishing, known, minted, lost, private,
                     registering, enrolled, userPages>>
      /\ envelopes' = envelopes \cup {[at |-> b, by |-> pair, opens |-> opens]}
      /\ pair # NoKey
  BY <1>p, <1>o DEF Send, SealEnvelope, signUpVars
<1>t. PICK t \in Slots : t = <<b, "mail">> BY DEF Slots, KeyApps
<1>q. /\ pair \in Pairs /\ pair <= minted
      /\ pair \in lost \/ pair = ring[<<b, "mail">>]
      /\ pair \in AnsweredFor
  BY <1>p, <1>s, <1>t, PairTypes DEF PagesUseTheRing, PairsAreMinted, AnsweredFor, Held
<1>k. \A k \in opens : k \in Pairs /\ k <= minted /\ k \in AnsweredFor
  BY <1>q, <1>o, PairTypes DEF PairsAreMinted, KnownIsAnswered
<1>a. AnsweredFor' = AnsweredFor BY <1>s DEF AnsweredFor, Held, Registered
<1>1. KeyRingTypeOK'
 <2>1. opens \subseteq Pairs BY <1>k
 <2>2. [at |-> b, by |-> pair, opens |-> opens] \in [at: Browsers, by: Pairs, opens: SUBSET Pairs]
   BY <1>q, <2>1
 <2> QED BY <1>v, <1>s, <2>2 DEF KeyRingTypeOK, Pairs
<1>2. PairsAreMinted'
 <2>1. \A e \in envelopes' : e.by <= minted /\ \A k \in e.opens : k <= minted
   BY <1>s, <1>q, <1>k DEF PairsAreMinted
 <2> QED BY <1>s, <2>1 DEF PairsAreMinted
<1>3. RingIsDistinct' /\ KnownIsAnswered'
  BY <1>s, <1>a DEF RingIsDistinct, KnownIsAnswered, Registered
<1>4. EnvelopesAnswered'
 <2> SUFFICES ASSUME NEW e \in envelopes'
              PROVE  /\ e.by \in e.opens /\ e.by # NoKey
                     /\ e.by \in lost \/ e.by = ring[<<e.at, "mail">>]
                     /\ \A k \in e.opens : k \in AnsweredFor
   BY <1>s, <1>a, Zenon DEF EnvelopesAnswered
 <2>1. CASE e \in envelopes BY <2>1 DEF EnvelopesAnswered
 <2>2. CASE e = [at |-> b, by |-> pair, opens |-> opens] BY <2>2, <1>o, <1>q, <1>k, <1>s
 <2> QED BY <2>1, <2>2, <1>s
<1>5. PagesUseTheRing' /\ RegisteredIsKept'
  BY <1>s DEF PagesUseTheRing, RegisteredIsKept, DecryptPrivateKeys
<1> QED BY <1>1, <1>2, <1>3, <1>4, <1>5

LEMMA KeyRingNextOK == KeyRingInv /\ [KeyRingNext]_ringVars => KeyRingInv'
<1> SUFFICES ASSUME KeyRingInv, [KeyRingNext]_ringVars PROVE KeyRingInv' OBVIOUS
<1>1. CASE \/ \E b \in Browsers, m \in Members : SubmitSignUp(b, m) \/ SignInAt(b, m)
           \/ \E q \in registering : RegisterTaken(q) \/ RegisterFails(q)
           \/ \E b \in Browsers : SessionExpires(b)
  BY <1>1, SubmitsSignUp, RegistersUser, SignsIn
<1>2. CASE \E b \in Browsers, a \in KeyApps : OpenApp(b, a) \/ CloseApp(b, a) \/ HandleLogout(b, a)
  BY <1>2, Opens, Closes DEF HandleLogout
<1>3. CASE \E p \in publishing : PublishArrives(p) \/ PublishFails(p) BY <1>3, Publishes
<1>4. CASE \E b \in Browsers : Logout(b) BY <1>4, SignsOut
<1>5. CASE \E b \in Browsers, to \in SUBSET Members : Send(b, to) BY <1>5, SendsMail
<1>6. CASE UNCHANGED ringVars
 <2>1. KeyRingTypeOK' /\ PairsAreMinted' /\ RingIsDistinct'
   BY <1>6 DEF KeyRingInv, ringVars, signUpVars, KeyRingTypeOK, Pairs, PairsAreMinted, RingIsDistinct,
               Registered
 <2>2. KnownIsAnswered' /\ EnvelopesAnswered' /\ PagesUseTheRing'
   BY <1>6 DEF KeyRingInv, ringVars, KnownIsAnswered, EnvelopesAnswered, AnsweredFor, Held,
               Registered, PagesUseTheRing
 <2>3. RegisteredIsKept'
   BY <1>6 DEF KeyRingInv, ringVars, RegisteredIsKept,
               DecryptPrivateKeys
 <2> QED BY <2>1, <2>2, <2>3 DEF KeyRingInv
<1> QED BY <1>1, <1>2, <1>3, <1>4, <1>5, <1>6 DEF KeyRingNext

\* What the invariant says of a key that nobody has forgotten.
LEMMA KeysAreHeld == KeyRingInv => PublishedIsHeld
<1> SUFFICES ASSUME KeyRingInv,
                    NEW k \in ({known[m] : m \in Members} \cup {p.pair : p \in publishing})
                              \ ({NoKey} \cup Registered \cup lost)
             PROVE  Cardinality({s \in Slots : ring[s] = k}) = 1
  BY DEF PublishedIsHeld
<1>1. k \in Held BY DEF KeyRingInv, KnownIsAnswered, AnsweredFor
<1>2. PICK s \in Slots : ring[s] = k BY <1>1 DEF Held
<1>3. {t \in Slots : ring[t] = k} = {s}
 <2>1. \A t \in Slots : ring[t] = k => t = s BY <1>2 DEF KeyRingInv, RingIsDistinct
 <2> QED BY <1>2, <2>1
<1>4. Cardinality({s}) = 1 BY FS_Singleton
<1> QED BY <1>3, <1>4

LEMMA EnvelopesOpen == KeyRingInv => SealedCanBeOpened
<1> SUFFICES ASSUME KeyRingInv, NEW e \in envelopes
             PROVE  /\ e.by \in lost \/ OpensWith(e, ring[<<e.at, "mail">>], e.by)
                    /\ \A k \in e.opens \ (lost \cup Registered) : k \in Held /\ OpensWith(e, k, e.by)
  BY Zenon DEF SealedCanBeOpened
<1> QED BY DEF KeyRingInv, EnvelopesAnswered, AnsweredFor, OpensWith
-------------------------------------------------------------------------------
(* II. The accounts application. *)

CallKinds == {"session", "login", "passkey", "code", "register", "logout", "verify",
              "forgot", "reset", "profile", "delete", "regenerate", "mfaOn", "mfaOff",
              "password", "revoke"}

UserRecords == {NoUser} \cup [who: Accounts, mfa: BOOLEAN]

CallRecords ==
    [n: Nat, kind: CallKinds, who: Accounts \cup {Nobody}, click: Nat,
     closed: UserRecords, answer: {"none", "ok", "error"}, got: UserRecords]

AccountRecords == [there: BOOLEAN, key: Nat, recovery: Nat, mfa: BOOLEAN, pwd: Nat]

\* The types of the variables, the requests included; that numbers are bounded is left out.
AccountVarTypes ==
    /\ accts \in [Accounts -> AccountRecords]
    /\ challenge \subseteq Accounts /\ cookie \in Accounts \cup {Nobody}
    /\ link \in [Accounts -> {"none", "sent", "used"}] /\ resets \subseteq Accounts
    /\ vault \in [who: Accounts \cup {Nobody}, key: Nat, pwd: Nat]
    /\ user \in UserRecords
    /\ hydrated \in BOOLEAN /\ loading \in BOOLEAN /\ recoveryKey \in Nat
    /\ route \in Pages /\ mfaFor \in Accounts \cup {Nobody}
    /\ verifyState \in {"verifying", "ok", "error"} /\ clicks \in Nat
    /\ userOff \in BOOLEAN /\ keyOff \in BOOLEAN /\ vaultOff \in BOOLEAN

\* A request is for an account, except the one for the session.
CallOK(c) ==
    /\ c \in CallRecords /\ c.click <= clicks
    /\ c.kind # "session" => c.who \in Accounts
    /\ c.kind = "code" => ~c.got.mfa
    /\ c.kind = "register" => c.click # 0
    /\ c.kind \in {"mfaOn", "mfaOff"} => c.closed.who = c.who

CallsOK ==
    /\ IsFiniteSet(calls)
    /\ \A c \in calls : CallOK(c)
    /\ \A c, d \in calls : c.kind = "regenerate" /\ d.kind = "regenerate" => c = d

\* Sessions, reset links and second factors are of accounts that are there.
AccountsThere ==
    /\ cookie # Nobody => accts[cookie].there
    /\ \A a \in resets : accts[a].there
    /\ \A a \in Accounts : accts[a].mfa => accts[a].there

\* Until the session was asked for there is no user, on a page that needs none.
BeforeTheSession ==
    hydrated \/ (\E c \in calls : c.kind = "session")
      \/ /\ user = NoUser /\ route \notin Protected \cup {"sign-in"}
         /\ \A c \in calls : c.kind \in {"register", "forgot", "reset", "verify"}

\* What an answer on the way says of the session is so.
AnswerHolds(c) ==
    /\ c.kind = "session" /\ c.answer = "ok" => c.got = AccountOf(cookie)
    /\ c.kind = "session" /\ c.answer = "error" => cookie = Nobody
    /\ c.kind = "logout" /\ c.answer # "none" => cookie = Nobody
    /\ c.kind \in {"login", "passkey"} /\ c.answer = "ok" /\ ~c.got.mfa =>
          AccountOf(cookie) = [who |-> c.who, mfa |-> FALSE]
    /\ c.kind = "code" /\ c.answer = "ok" => AccountOf(cookie) = [who |-> c.who, mfa |-> TRUE]
    /\ c.kind = "register" /\ c.answer = "ok" =>
          /\ AccountOf(cookie) = [who |-> c.who, mfa |-> FALSE]
          /\ accts[c.who].recovery = c.click
    /\ c.kind \in {"mfaOn", "mfaOff"} /\ c.answer = "ok" =>
          AccountOf(cookie) = [who |-> c.who, mfa |-> c.kind = "mfaOn"]

\* The answer to request c makes the user that of the session, or leads to one that does.
Corrects(c) ==
    \/ c.kind \in {"session", "logout"}
    \/ /\ c.answer = "ok"
       /\ \/ c.kind \in {"login", "passkey"} /\ ~c.got.mfa
          \/ c.kind \in {"code", "register", "mfaOn", "mfaOff", "delete"}
          \/ c.kind = "reset" /\ route # "sign-in"

UserFollows ==
    ~userOff =>
        /\ \A c \in calls : AnswerHolds(c)
        /\ hydrated => user = AccountOf(cookie) \/ \E c \in calls : Corrects(c)

\* The same of the recovery key.
Rekeys(c) ==
    c.kind = "logout" \/ (c.answer = "ok" /\ c.kind \in {"regenerate", "register", "delete"})

KeyFollows ==
    ~userOff /\ ~keyOff =>
        /\ \A c \in calls : c.kind = "regenerate" /\ c.answer = "ok" =>
               cookie # Nobody /\ accts[cookie].recovery = c.click
        /\ recoveryKey # 0 => \/ cookie # Nobody /\ accts[cookie].recovery = recoveryKey
                              \/ \E c \in calls : Rekeys(c)

\* The stored keys are those of their account, if it is there, and nobody else is
\* signed in.
VaultFollows ==
    /\ vault.key <= clicks
    /\ \A c \in calls : c.kind = "register" /\ c.click = vault.key =>
           vault.who = c.who /\ vault.pwd = 0
    /\ ~vaultOff /\ vault # NoVault =>
           /\ vault.who \in Accounts /\ cookie \in {Nobody, vault.who}
           /\ accts[vault.who].there => /\ accts[vault.who].key = vault.key
                                        /\ accts[vault.who].pwd = vault.pwd

\* The inductive invariant.
AccountsInv ==
    /\ AccountVarTypes /\ CallsOK /\ AccountsThere /\ BeforeTheSession /\ UserFollows
    /\ KeyFollows /\ VaultFollows

\* Fewer requests than numbers leave a number free.
LEMMA NumberIsFree ==
    ASSUME NEW S, IsFiniteSet(S)
    PROVE  \E k \in 1 .. Cardinality(S) + 1 : \A c \in S : c.n # k
<1> SUFFICES ASSUME \A k \in 1 .. Cardinality(S) + 1 : \E c \in S : c.n = k PROVE FALSE OBVIOUS
<1> DEFINE K == 1 .. Cardinality(S) + 1
           f == [k \in K |-> CHOOSE c \in S : c.n = k]
<1>1. Cardinality(S) \in Nat BY FS_CardinalityType
<1>2. IsFiniteSet(K) /\ Cardinality(K) = Cardinality(S) + 1
 <2>1. 1 \in Int /\ Cardinality(S) + 1 \in Int BY <1>1
 <2> QED BY <1>1, <2>1, FS_Interval
<1>3. \A k \in K : f[k] \in S /\ f[k].n = k OBVIOUS
<1>4. f \in [K -> S] BY <1>3
<1> HIDE DEF K, f
<1>5. PICK x, y \in K : x # y /\ f[x] = f[y]
 <2>1. Cardinality(S) < Cardinality(K) BY <1>1, <1>2
 <2> QED BY <1>2, <1>4, <2>1, FS_PigeonHole
<1> QED BY <1>3, <1>5

\* A new request.
LEMMA NewCall ==
    ASSUME NEW kind \in CallKinds, NEW who \in Accounts \cup {Nobody}, NEW S, IsFiniteSet(S),
           user \in UserRecords, clicks' \in Nat
    PROVE  /\ CallOf(kind, who, S) \in CallRecords
           /\ CallOf(kind, who, S).kind = kind /\ CallOf(kind, who, S).who = who
           /\ CallOf(kind, who, S).click = clicks' /\ CallOf(kind, who, S).closed = user
           /\ CallOf(kind, who, S).answer = "none" /\ CallOf(kind, who, S).got = NoUser
           /\ ~CallOf(kind, who, S).got.mfa
<1>1. PICK n : n = CHOOSE k \in 1 .. Cardinality(S) + 1 : \A c \in S : c.n # k OBVIOUS
<1>2. n \in 1 .. Cardinality(S) + 1 BY <1>1, NumberIsFree
<1>3. n \in Nat BY <1>2, FS_CardinalityType
<1>4. NoUser \in UserRecords /\ NoUser.mfa = FALSE BY DEF NoUser, UserRecords
<1>5. CallOf(kind, who, S) = [n |-> n, kind |-> kind, who |-> who, click |-> clicks',
                              closed |-> user, answer |-> "none", got |-> NoUser]
  BY <1>1 DEF CallOf
<1> HIDE DEF NoUser
<1>6. CallOf(kind, who, S) \in CallRecords BY <1>3, <1>4, <1>5 DEF CallRecords
<1> QED BY <1>4, <1>5, <1>6

\* Pages that ask for the session.
Asking == Protected \cup {"sign-in"}

\* What showing a page does: it may ask for the session, and does when nobody has yet
\* and the page needs it, and whenever the sign-in page appears.
LEMMA ShowsPage ==
    ASSUME NEW p \in Pages, NEW rest, IsFiniteSet(rest), user \in UserRecords,
           clicks' \in Nat, mfaFor \in Accounts \cup {Nobody}, ShowPage(p, rest)
    PROVE  /\ route' \in Pages /\ mfaFor' \in Accounts \cup {Nobody}
           /\ ~hydrated' => route' = p
           /\ \E N : /\ calls' = rest \cup N /\ IsFiniteSet(N)
                     /\ \A e \in N : /\ e \in CallRecords /\ e.kind = "session"
                                     /\ e.answer = "none" /\ e.click = clicks' /\ ~e.got.mfa
                     /\ route' = "sign-in" /\ route # "sign-in" => N # {}
                     /\ p = "sign-in" /\ route # "sign-in" => N # {}
                     /\ ~hydrated' /\ p \in Asking /\ route \notin Asking => N # {}
<1> DEFINE signIn == p = "sign-in" \/ (p \in Protected /\ hydrated' /\ user' = NoUser)
           asks   == (signIn /\ route # "sign-in")
                        \/ (p \in Protected /\ route \notin Protected /\ ~hydrated')
           e      == CallOf("session", Nobody, rest)
<1>1. /\ route' = CASE signIn /\ hydrated' /\ user' # NoUser -> "settings"
                    [] signIn -> "sign-in"
                    [] p = "recovery-key" /\ hydrated' /\ recoveryKey' = 0 -> "settings"
                    [] OTHER -> p
      /\ calls' = IF asks THEN rest \cup {e} ELSE rest
      /\ mfaFor' = IF route' # "sign-in" THEN Nobody ELSE mfaFor
  BY DEF ShowPage
<1>2. /\ e \in CallRecords /\ e.kind = "session" /\ e.answer = "none" /\ e.click = clicks'
      /\ ~e.got.mfa
  BY NewCall DEF CallKinds
<1>3. PICK N : N = IF asks THEN {e} ELSE {} OBVIOUS
<1> HIDE DEF e
<1>4. calls' = rest \cup N /\ IsFiniteSet(N) BY <1>1, <1>3, FS_Singleton, FS_EmptySet
<1>5. \A d \in N : d = e BY <1>3
<1>6. route' \in Pages /\ (~hydrated' => route' = p)
 <2>1. CASE ~signIn BY <2>1, <1>1 DEF Pages, Protected
 <2>2. CASE signIn BY <2>2, <1>1 DEF Pages, Protected
 <2> QED BY <2>1, <2>2
<1>7. route' = "sign-in" => signIn
 <2> SUFFICES ASSUME ~signIn PROVE route' # "sign-in" OBVIOUS
 <2>1. p # "sign-in" OBVIOUS
 <2>2. route' = CASE p = "recovery-key" /\ hydrated' /\ recoveryKey' = 0 -> "settings"
                  [] OTHER -> p
   BY <1>1
 <2> QED BY <2>1, <2>2
<1>8. /\ route' = "sign-in" /\ route # "sign-in" => asks
      /\ p = "sign-in" /\ route # "sign-in" => asks
      /\ ~hydrated' /\ p \in Asking /\ route \notin Asking => asks
  BY <1>7 DEF Asking
<1>9. mfaFor' \in Accounts \cup {Nobody} BY <1>1
<1>10. asks => N # {} BY <1>3
<1> HIDE DEF asks, signIn
<1> QED BY <1>2, <1>4, <1>5, <1>6, <1>8, <1>9, <1>10

-------------------------------------------------------------------------------
(* An answer arrives. *)

\* Request c is answered, and requests N are made.
Receives(c, N) ==
    /\ c \in calls /\ IsFiniteSet(N)
    /\ calls' = (calls \ {c}) \cup N
    /\ \A e \in N : CallOK(e) /\ e.answer = "none" /\ e.kind \in {"session", "logout", "verify"}
    /\ UNCHANGED <<accts, challenge, cookie, link, resets, clicks, userOff>>
    /\ route' = "sign-in" /\ route # "sign-in" => \E e \in N : e.kind = "session"

LEMMA ReceivesCalls ==
    ASSUME AccountsInv, NEW c, NEW N, Receives(c, N)
    PROVE  CallsOK' /\ AccountsThere'
<1>1. IsFiniteSet(calls')
 <2>1. IsFiniteSet(calls \ {c}) BY FS_RemoveElement DEF AccountsInv, CallsOK
 <2> QED BY <2>1, FS_Union DEF Receives
<1>2. \A d \in calls' : CallOK(d)' BY DEF AccountsInv, CallsOK, Receives, CallOK
<1>3. (\A d, e \in calls : d.kind = "regenerate" /\ e.kind = "regenerate" => d = e)'
  BY DEF AccountsInv, CallsOK, Receives
<1>4. AccountsThere' BY DEF AccountsInv, AccountsThere, Receives
<1> QED BY <1>1, <1>2, <1>3, <1>4 DEF CallsOK

LEMMA ReceivesUser ==
    ASSUME AccountsInv, NEW c, NEW N, Receives(c, N),
           hydrated' /\ ~userOff =>
               \/ user' = AccountOf(cookie)
               \/ \E e \in N : e.kind \in {"session", "logout"}
               \/ user' = user /\ hydrated /\ ~Corrects(c)
    PROVE  UserFollows'
<1> SUFFICES ASSUME ~userOff
             PROVE  /\ (\A d \in calls : AnswerHolds(d))'
                    /\ (hydrated => user = AccountOf(cookie) \/ \E d \in calls : Corrects(d))'
  BY DEF UserFollows, Receives
<1>1. (\A d \in calls : AnswerHolds(d))'
 <2> SUFFICES ASSUME NEW d \in calls' PROVE AnswerHolds(d)' OBVIOUS
 <2>1. CASE d \in calls
  <3>1. AnswerHolds(d) BY <2>1 DEF AccountsInv, UserFollows
  <3> QED BY <3>1 DEF AnswerHolds, AccountOf, Receives
 <2>2. CASE d \in N BY <2>2 DEF AnswerHolds, Receives
 <2> QED BY <2>1, <2>2 DEF Receives
<1>2. ASSUME hydrated'
      PROVE  user' = AccountOf(cookie)' \/ \E d \in calls' : Corrects(d)'
 <2>0. AccountOf(cookie)' = AccountOf(cookie) BY DEF AccountOf, Receives
 <2>1. CASE user' = AccountOf(cookie) BY <2>1, <2>0
 <2>2. CASE \E e \in N : e.kind \in {"session", "logout"} BY <2>2 DEF Receives, Corrects
 <2>3. CASE user' = user /\ hydrated /\ ~Corrects(c)
  <3>1. user = AccountOf(cookie) \/ \E d \in calls : Corrects(d)
    BY <2>3 DEF AccountsInv, UserFollows
  <3>2. ASSUME NEW d \in calls, Corrects(d) PROVE \E e \in calls' : Corrects(e)'
   <4>1. d \in calls' BY <2>3, <3>2 DEF Receives
   <4>2. CASE route' = "sign-in" /\ route # "sign-in" BY <4>2 DEF Receives, Corrects
   <4>3. CASE ~(route' = "sign-in" /\ route # "sign-in") BY <4>1, <4>3, <3>2 DEF Corrects
   <4> QED BY <4>2, <4>3
  <3> QED BY <3>1, <3>2, <2>0, <2>3
 <2> QED BY <1>2, <2>1, <2>2, <2>3
<1> QED BY <1>1, <1>2

LEMMA ReceivesKey ==
    ASSUME AccountsInv, NEW c, NEW N, Receives(c, N), keyOff' = keyOff,
           ~userOff /\ ~keyOff =>
               \/ recoveryKey' = recoveryKey /\ ~Rekeys(c)
               \/ cookie # Nobody /\ accts[cookie].recovery = recoveryKey'
               \/ \E e \in N : e.kind = "logout"
    PROVE  KeyFollows'
<1> SUFFICES ASSUME ~userOff, ~keyOff
             PROVE  /\ (\A d \in calls : d.kind = "regenerate" /\ d.answer = "ok" =>
                            cookie # Nobody /\ accts[cookie].recovery = d.click)'
                    /\ (recoveryKey # 0 => \/ cookie # Nobody /\ accts[cookie].recovery = recoveryKey
                                           \/ \E d \in calls : Rekeys(d))'
  BY DEF KeyFollows, Receives
<1>1. \A d \in calls' : d.kind = "regenerate" /\ d.answer = "ok" =>
          cookie' # Nobody /\ accts'[cookie'].recovery = d.click
  BY DEF AccountsInv, KeyFollows, Receives
<1>2. ASSUME recoveryKey' # 0
      PROVE  \/ cookie' # Nobody /\ accts'[cookie'].recovery = recoveryKey'
             \/ \E d \in calls' : Rekeys(d)
 <2>1. CASE cookie # Nobody /\ accts[cookie].recovery = recoveryKey' BY <2>1 DEF Receives
 <2>2. CASE \E e \in N : e.kind = "logout" BY <2>2 DEF Receives, Rekeys
 <2>3. CASE recoveryKey' = recoveryKey /\ ~Rekeys(c)
  <3>1. \/ cookie # Nobody /\ accts[cookie].recovery = recoveryKey
        \/ \E d \in calls : Rekeys(d)
    BY <1>2, <2>3 DEF AccountsInv, KeyFollows
  <3> QED BY <2>3, <3>1 DEF Receives
 <2> QED BY <2>1, <2>2, <2>3
<1> QED BY <1>1, <1>2 DEF Rekeys

LEMMA ReceivesVault ==
    ASSUME AccountsInv, NEW c, NEW N, Receives(c, N), UNCHANGED <<vault, vaultOff>>
    PROVE  VaultFollows'
<1>1. \A d \in calls' : d.kind = "register" => d \in calls BY DEF Receives
<1> QED BY <1>1 DEF AccountsInv, VaultFollows, Receives, NoVault

LEMMA ReceivesBefore ==
    ASSUME AccountsInv, NEW c, NEW N, Receives(c, N), hydrated' = hydrated, c.kind # "session",
           ~hydrated /\ user = NoUser /\ route \notin Asking
             /\ c.kind \in {"register", "forgot", "reset", "verify"} =>
               \/ \E e \in N : e.kind = "session"
               \/ /\ user' = NoUser /\ route' \notin Asking
                  /\ \A e \in N : e.kind = "verify"
    PROVE  BeforeTheSession'
<1> SUFFICES ASSUME ~hydrated PROVE BeforeTheSession' BY DEF BeforeTheSession
<1>1. CASE \E d \in calls : d.kind = "session" BY <1>1 DEF Receives, BeforeTheSession
<1>2. CASE ~\E d \in calls : d.kind = "session"
 <2>1. /\ user = NoUser /\ route \notin Asking
       /\ \A d \in calls : d.kind \in {"register", "forgot", "reset", "verify"}
   BY <1>2 DEF AccountsInv, BeforeTheSession, Asking
 <2>2. CASE \E e \in N : e.kind = "session" BY <2>2 DEF Receives, BeforeTheSession
 <2>3. CASE user' = NoUser /\ route' \notin Asking /\ \A e \in N : e.kind = "verify"
  <3>1. \A d \in calls' : d.kind \in {"register", "forgot", "reset", "verify"}
    BY <2>1, <2>3 DEF Receives
  <3> QED BY <2>3, <3>1 DEF BeforeTheSession, Asking, NoUser
 <2> QED BY <2>1, <2>2, <2>3 DEF Receives
<1> QED BY <1>1, <1>2

\* An answer after which page p is shown; A are the requests made besides.
LEMMA PageReceives ==
    ASSUME AccountsInv, NEW c \in calls, NEW p \in Pages, NEW A, IsFiniteSet(A),
           \A e \in A : CallOK(e) /\ e.answer = "none" /\ e.kind = "session",
           UNCHANGED <<authVars, clicks, userOff>>, NEW rest, rest = (calls \ {c}) \cup A,
           ShowPage(p, rest)
    PROVE  /\ route' \in Pages /\ mfaFor' \in Accounts \cup {Nobody}
           /\ ~hydrated' => route' = p
           /\ \E N : /\ Receives(c, N) /\ A \subseteq N /\ \A e \in N : e.kind = "session"
                     /\ p = "sign-in" /\ route # "sign-in" => N # {}
                     /\ ~hydrated' /\ p \in Asking /\ route \notin Asking => N # {}
<1>1. IsFiniteSet(rest) /\ user \in UserRecords /\ clicks' \in Nat
      /\ mfaFor \in Accounts \cup {Nobody}
 <2>1. IsFiniteSet(calls \ {c}) BY FS_RemoveElement DEF AccountsInv, CallsOK
 <2> QED BY <2>1, FS_Union DEF AccountsInv, AccountVarTypes
<1>2. PICK N : /\ calls' = rest \cup N /\ IsFiniteSet(N)
               /\ \A e \in N : /\ e \in CallRecords /\ e.kind = "session"
                               /\ e.answer = "none" /\ e.click = clicks' /\ ~e.got.mfa
               /\ route' = "sign-in" /\ route # "sign-in" => N # {}
               /\ p = "sign-in" /\ route # "sign-in" => N # {}
               /\ ~hydrated' /\ p \in Asking /\ route \notin Asking => N # {}
  BY <1>1, ShowsPage
<1>3. PICK M : M = A \cup N OBVIOUS
<1>4. \A e \in N : CallOK(e)
 <2>1. clicks' = clicks /\ clicks \in Nat BY DEF AccountsInv, AccountVarTypes
 <2> QED BY <1>2, <2>1 DEF CallOK
<1>5. Receives(c, M)
 <2>1. IsFiniteSet(M) /\ calls' = (calls \ {c}) \cup M BY <1>2, <1>3, FS_Union
 <2>2. \A e \in M : CallOK(e) /\ e.answer = "none" /\ e.kind = "session" BY <1>2, <1>3, <1>4
 <2>3. UNCHANGED <<accts, challenge, cookie, link, resets, clicks, userOff>> BY DEF authVars
 <2>4. route' = "sign-in" /\ route # "sign-in" => \E e \in M : e.kind = "session" BY <1>2, <1>3
 <2> QED BY <2>1, <2>2, <2>3, <2>4 DEF Receives
<1>6. /\ A \subseteq M /\ \A e \in M : e.kind = "session"
      /\ N \subseteq M
  BY <1>2, <1>3
<1>7. route' \in Pages /\ mfaFor' \in Accounts \cup {Nobody} /\ (~hydrated' => route' = p)
  BY <1>1, ShowsPage
<1> QED BY <1>2, <1>5, <1>6, <1>7

\* The session.
LEMMA SessionArrives ==
    ASSUME AccountsInv, NEW c \in calls, SessionAnswered(c)
    PROVE  AccountsInv'
<1>0. PICK p, rest : p = route /\ rest = calls \ {c} OBVIOUS
<1>1. /\ c.kind = "session" /\ c.answer # "none" /\ hydrated' = TRUE
      /\ user' = IF c.answer = "ok" THEN c.got ELSE NoUser
      /\ UNCHANGED <<vault, loading, recoveryKey, verifyState, historyVars, authVars, clicks>>
      /\ ShowPage(p, rest)
  BY <1>0 DEF SessionAnswered, Done
<1>2. userOff' = userOff /\ keyOff' = keyOff /\ vaultOff' = vaultOff BY <1>1 DEF historyVars
<1>3. p \in Pages /\ rest = (calls \ {c}) \cup {} /\ IsFiniteSet({})
  BY <1>0, FS_EmptySet DEF AccountsInv, AccountVarTypes
<1>4. PICK N : Receives(c, N) BY <1>1, <1>2, <1>3, PageReceives
<1>5. route' \in Pages /\ mfaFor' \in Accounts \cup {Nobody} BY <1>1, <1>2, <1>3, PageReceives
<1>6. CallOK(c) /\ c.got \in UserRecords BY DEF AccountsInv, CallsOK, CallOK, CallRecords
<1>7. user' \in UserRecords BY <1>1, <1>6 DEF UserRecords, NoUser
<1>8. AccountVarTypes'
  BY <1>1, <1>2, <1>5, <1>7 DEF AccountsInv, AccountVarTypes, authVars, Pages, Protected,
                               UserRecords, AccountRecords
<1>9. ~userOff => user' = AccountOf(cookie)
 <2> SUFFICES ASSUME ~userOff PROVE user' = AccountOf(cookie) OBVIOUS
 <2>1. AnswerHolds(c) BY DEF AccountsInv, UserFollows
 <2>2. CASE c.answer = "ok" BY <1>1, <2>1, <2>2 DEF AnswerHolds
 <2>3. CASE c.answer # "ok"
  <3>1. c.answer = "error" BY <1>1, <1>6, <2>3 DEF CallOK, CallRecords
  <3>2. cookie = Nobody BY <1>1, <2>1, <3>1 DEF AnswerHolds
  <3> QED BY <1>1, <2>3, <3>2 DEF AccountOf, NoUser
 <2> QED BY <2>2, <2>3
<1>10. CallsOK' /\ AccountsThere' BY <1>4, ReceivesCalls
<1>11. BeforeTheSession' BY <1>1 DEF BeforeTheSession
<1>12. UserFollows' BY <1>4, <1>9, ReceivesUser
<1>13. KeyFollows' BY <1>1, <1>2, <1>4, ReceivesKey DEF Rekeys
<1>14. VaultFollows' BY <1>1, <1>2, <1>4, ReceivesVault
<1> QED BY <1>8, <1>10, <1>11, <1>12, <1>13, <1>14 DEF AccountsInv

\* A sign-in, or a question for the second factor.
LEMMA SignInArrives ==
    ASSUME AccountsInv, NEW c \in calls, SignInAnswered(c) \/ PasskeyAnswered(c)
    PROVE  AccountsInv'
<1>0. PICK rest : rest = calls \ {c} OBVIOUS
<1>1. /\ c.kind \in {"login", "code", "passkey"} /\ c.answer # "none" /\ loading' = FALSE
      /\ UNCHANGED <<vault, hydrated, recoveryKey, verifyState, historyVars, authVars, clicks>>
  BY DEF SignInAnswered, PasskeyAnswered, SignedIn, Done
<1>2. userOff' = userOff /\ keyOff' = keyOff /\ vaultOff' = vaultOff BY <1>1 DEF historyVars
<1>6. CallOK(c) /\ c.who \in Accounts BY <1>1 DEF AccountsInv, CallsOK, CallOK
<1>e. IsFiniteSet({}) /\ rest = (calls \ {c}) \cup {} BY <1>0, FS_EmptySet
<1>a. ASSUME c.answer = "ok", ~c.got.mfa
      PROVE  /\ route' \in Pages /\ mfaFor' \in Accounts \cup {Nobody} /\ user' \in UserRecords
             /\ UserFollows' /\ \E N : Receives(c, N)
 <2>1. user' = [who |-> c.who, mfa |-> c.kind = "code"] /\ ShowPage("settings", rest)
   BY <1>0, <1>1, <1>a DEF SignInAnswered, PasskeyAnswered, SignedIn, Done
 <2>2. "settings" \in Pages BY DEF Pages, Protected
 <2>3. PICK N : Receives(c, N) BY <1>1, <1>2, <1>e, <2>1, <2>2, PageReceives
 <2>4. route' \in Pages /\ mfaFor' \in Accounts \cup {Nobody}
   BY <1>1, <1>2, <1>e, <2>1, <2>2, PageReceives
 <2>5. user' \in UserRecords BY <1>6, <2>1 DEF UserRecords
 <2>6. ~userOff => user' = AccountOf(cookie)
  <3> SUFFICES ASSUME ~userOff PROVE user' = AccountOf(cookie) OBVIOUS
  <3>1. AnswerHolds(c) BY DEF AccountsInv, UserFollows
  <3>2. CASE c.kind = "code" BY <1>a, <2>1, <3>1, <3>2 DEF AnswerHolds
  <3>3. CASE c.kind # "code"
   <4>1. (c.kind = "code") = FALSE /\ c.kind \in {"login", "passkey"} BY <1>1, <3>3
   <4> QED BY <1>a, <2>1, <3>1, <4>1 DEF AnswerHolds
  <3> QED BY <3>2, <3>3
 <2>7. UserFollows' BY <2>3, <2>6, ReceivesUser
 <2> QED BY <2>3, <2>4, <2>5, <2>7
<1>b. ASSUME ~(c.answer = "ok" /\ ~c.got.mfa)
      PROVE  /\ route' \in Pages /\ mfaFor' \in Accounts \cup {Nobody} /\ user' \in UserRecords
             /\ UserFollows' /\ \E N : Receives(c, N)
 <2>1. user' = user /\ route' = route /\ calls' = calls \ {c} /\ mfaFor' \in {c.who, mfaFor}
   BY <1>1, <1>b DEF SignInAnswered, PasskeyAnswered, SignedIn
 <2>3. Receives(c, {}) BY <1>1, <1>2, <1>e, <2>1 DEF Receives, authVars
 <2>4. route' \in Pages /\ mfaFor' \in Accounts \cup {Nobody} /\ user' \in UserRecords
   BY <1>6, <2>1 DEF AccountsInv, AccountVarTypes
 <2>5. ~Corrects(c) BY <1>b, <1>1, <1>6 DEF Corrects, CallOK
 <2>7. UserFollows' BY <1>1, <2>1, <2>3, <2>5, ReceivesUser
 <2> QED BY <2>3, <2>4, <2>7
<1>c. /\ route' \in Pages /\ mfaFor' \in Accounts \cup {Nobody} /\ user' \in UserRecords
      /\ UserFollows' /\ \E N : Receives(c, N)
  BY <1>a, <1>b
<1>d. PICK N : Receives(c, N) BY <1>c
<1>8. AccountVarTypes'
  BY <1>1, <1>2, <1>c DEF AccountsInv, AccountVarTypes, authVars, Pages, Protected,
                          UserRecords, AccountRecords
<1>10. CallsOK' /\ AccountsThere' BY <1>d, ReceivesCalls
<1>11. BeforeTheSession'
 <2>1. c.kind # "session" /\ c.kind \notin {"register", "forgot", "reset", "verify"} BY <1>1
 <2> QED BY <1>d, <1>1, <2>1, ReceivesBefore
<1>13. KeyFollows' BY <1>1, <1>2, <1>d, ReceivesKey DEF Rekeys
<1>14. VaultFollows' BY <1>1, <1>2, <1>d, ReceivesVault
<1> QED BY <1>8, <1>10, <1>11, <1>c, <1>13, <1>14 DEF AccountsInv

\* A new account.
LEMMA SignUpArrives ==
    ASSUME AccountsInv, NEW c \in calls, SignUpAnswered(c)
    PROVE  AccountsInv'
<1>0. PICK rest : rest = calls \ {c} OBVIOUS
<1>1. /\ c.kind = "register" /\ c.answer # "none" /\ loading' = FALSE
      /\ UNCHANGED <<vault, hydrated, verifyState, historyVars, authVars, clicks>>
  BY DEF SignUpAnswered, Done
<1>2. userOff' = userOff /\ keyOff' = keyOff /\ vaultOff' = vaultOff BY <1>1 DEF historyVars
<1>6. CallOK(c) /\ c.who \in Accounts /\ c.click \in Nat
  BY <1>1 DEF AccountsInv, CallsOK, CallOK, CallRecords
<1>e. IsFiniteSet({}) /\ rest = (calls \ {c}) \cup {} BY <1>0, FS_EmptySet
<1>a. ASSUME c.answer = "ok"
      PROVE  /\ route' \in Pages /\ mfaFor' \in Accounts \cup {Nobody} /\ user' \in UserRecords
             /\ recoveryKey' \in Nat
             /\ UserFollows' /\ KeyFollows' /\ BeforeTheSession' /\ \E N : Receives(c, N)
 <2>1. /\ user' = [who |-> c.who, mfa |-> FALSE] /\ recoveryKey' = c.click
       /\ ShowPage("recovery-key", rest)
   BY <1>0, <1>1, <1>a DEF SignUpAnswered, Done
 <2>2. "recovery-key" \in Pages /\ "recovery-key" \in Asking BY DEF Pages, Protected, Asking
 <2>3. PICK N : /\ Receives(c, N) /\ \A e \in N : e.kind = "session"
                /\ ~hydrated' /\ route \notin Asking => N # {}
   BY <1>1, <1>2, <1>e, <2>1, <2>2, PageReceives
 <2>4. route' \in Pages /\ mfaFor' \in Accounts \cup {Nobody}
   BY <1>1, <1>2, <1>e, <2>1, <2>2, PageReceives
 <2>5. user' \in UserRecords BY <1>6, <2>1 DEF UserRecords
 <2>6. ~userOff => /\ AccountOf(cookie) = [who |-> c.who, mfa |-> FALSE]
                   /\ accts[c.who].recovery = c.click
   BY <1>1, <1>a DEF AccountsInv, UserFollows, AnswerHolds
 <2>7. UserFollows' BY <2>1, <2>3, <2>6, ReceivesUser
 <2>8. ~userOff => cookie # Nobody /\ accts[cookie].recovery = c.click
  <3>1. ~userOff => cookie = c.who BY <2>6 DEF AccountOf
  <3> QED BY <3>1, <2>6, <1>6, AccountsAssumption
 <2>9. KeyFollows' BY <1>2, <2>1, <2>3, <2>8, ReceivesKey
 <2>10. BeforeTheSession'
  <3>1. c.kind # "session" BY <1>1
  <3> QED BY <1>1, <2>3, <3>1, ReceivesBefore
 <2> QED BY <1>6, <2>1, <2>3, <2>4, <2>5, <2>7, <2>9, <2>10
<1>b. ASSUME c.answer # "ok"
      PROVE  /\ route' \in Pages /\ mfaFor' \in Accounts \cup {Nobody} /\ user' \in UserRecords
             /\ recoveryKey' \in Nat
             /\ UserFollows' /\ KeyFollows' /\ BeforeTheSession' /\ \E N : Receives(c, N)
 <2>1. /\ UNCHANGED <<user, recoveryKey, route, mfaFor>>
       /\ calls' = calls \ {c}
   BY <1>1, <1>b DEF SignUpAnswered
 <2>2. Receives(c, {}) BY <1>1, <1>2, <1>e, <2>1 DEF Receives, authVars
 <2>3. ~Corrects(c) /\ ~Rekeys(c) BY <1>1, <1>b DEF Corrects, Rekeys
 <2>4. UserFollows' BY <1>1, <2>1, <2>2, <2>3, ReceivesUser
 <2>5. KeyFollows' BY <1>2, <2>1, <2>2, <2>3, ReceivesKey
 <2>6. BeforeTheSession'
  <3>1. c.kind # "session" BY <1>1
  <3> QED BY <1>1, <2>1, <2>2, <3>1, ReceivesBefore
 <2> QED BY <2>1, <2>2, <2>4, <2>5, <2>6 DEF AccountsInv, AccountVarTypes
<1>c. PICK N : Receives(c, N) BY <1>a, <1>b
<1>d. /\ route' \in Pages /\ mfaFor' \in Accounts \cup {Nobody} /\ user' \in UserRecords
      /\ recoveryKey' \in Nat /\ UserFollows' /\ KeyFollows' /\ BeforeTheSession'
  BY <1>a, <1>b
<1>8. AccountVarTypes'
  BY <1>1, <1>2, <1>d DEF AccountsInv, AccountVarTypes, authVars, Pages, Protected,
                          UserRecords, AccountRecords
<1>10. CallsOK' /\ AccountsThere' BY <1>c, ReceivesCalls
<1>14. VaultFollows' BY <1>1, <1>2, <1>c, ReceivesVault
<1> QED BY <1>8, <1>10, <1>d, <1>14 DEF AccountsInv

\* Signing out.
LEMMA SignOutArrives ==
    ASSUME AccountsInv, NEW c \in calls, SignOutAnswered(c)
    PROVE  AccountsInv'
<1>0. PICK p, rest : p = (IF c.answer = "ok" THEN "sign-in" ELSE route) /\ rest = calls \ {c}
  OBVIOUS
<1>1. /\ c.kind = "logout" /\ c.answer # "none"
      /\ vault' = NoVault /\ user' = NoUser /\ recoveryKey' = 0
      /\ UNCHANGED <<hydrated, loading, verifyState, userOff, authVars, clicks>>
      /\ keyOff' = NewKeyOnItsWay /\ vaultOff' = FALSE
      /\ ShowPage(p, rest)
  BY <1>0 DEF SignOutAnswered, Done
<1>3. p \in Pages /\ rest = (calls \ {c}) \cup {} /\ IsFiniteSet({})
  BY <1>0, FS_EmptySet DEF AccountsInv, AccountVarTypes, Pages
<1>4. PICK N : Receives(c, N) BY <1>1, <1>3, PageReceives
<1>5. route' \in Pages /\ mfaFor' \in Accounts \cup {Nobody} BY <1>1, <1>3, PageReceives
<1>8. AccountVarTypes'
 <2>1. vault' \in [who: Accounts \cup {Nobody}, key: Nat, pwd: Nat] /\ user' \in UserRecords
   BY <1>1 DEF NoVault, NoUser, UserRecords
 <2>2. NewKeyOnItsWay \in BOOLEAN BY DEF NewKeyOnItsWay
 <2> QED
   BY <1>1, <1>5, <2>1, <2>2 DEF AccountsInv, AccountVarTypes, authVars, Pages, Protected,
                                 UserRecords, AccountRecords
<1>9. ~userOff => user' = AccountOf(cookie)
 <2> SUFFICES ASSUME ~userOff PROVE user' = AccountOf(cookie) OBVIOUS
 <2>1. AnswerHolds(c) BY DEF AccountsInv, UserFollows
 <2>2. cookie = Nobody BY <1>1, <2>1 DEF AnswerHolds
 <2> QED BY <1>1, <2>2 DEF AccountOf, NoUser
<1>10. CallsOK' /\ AccountsThere' BY <1>4, ReceivesCalls
<1>11. BeforeTheSession'
 <2>1. c.kind # "session" /\ c.kind \notin {"register", "forgot", "reset", "verify"} BY <1>1
 <2> QED BY <1>1, <1>4, <2>1, ReceivesBefore
<1>12. UserFollows' BY <1>4, <1>9, ReceivesUser
<1>13. KeyFollows'
 <2> SUFFICES ASSUME ~userOff', ~keyOff'
              PROVE  \A d \in calls' : ~(d.kind = "regenerate" /\ d.answer = "ok")
   BY <1>1 DEF KeyFollows
 <2>1. \A d \in calls : ~(d.kind = "regenerate" /\ d.answer = "ok") BY <1>1 DEF NewKeyOnItsWay
 <2> QED BY <2>1, <1>4 DEF Receives
<1>14. VaultFollows'
 <2>1. vault'.key = 0 /\ vault' = NoVault' /\ clicks' \in Nat
   BY <1>1 DEF NoVault, AccountsInv, AccountVarTypes
 <2>2. \A d \in calls' : d.kind = "register" => d.click # 0 BY <1>10 DEF CallsOK, CallOK
 <2> QED BY <2>1, <2>2 DEF VaultFollows
<1> QED BY <1>8, <1>10, <1>11, <1>12, <1>13, <1>14 DEF AccountsInv

\* Deleting the account, which signs out next.
LEMMA DeleteArrives ==
    ASSUME AccountsInv, NEW c \in calls, AccountDeleteAnswered(c)
    PROVE  AccountsInv'
<1>1. /\ c.kind = "delete" /\ c.answer # "none"
      /\ UNCHANGED <<authVars, vault, user, hydrated, loading, recoveryKey, route, mfaFor,
                     verifyState, clicks, historyVars>>
  BY DEF AccountDeleteAnswered
<1>2. userOff' = userOff /\ keyOff' = keyOff /\ vaultOff' = vaultOff BY <1>1 DEF historyVars
<1>3. PICK e : e = [c EXCEPT !.kind = "logout", !.answer = "none"] OBVIOUS
<1>4. PICK N : N = IF c.answer = "ok" THEN {e} ELSE {} OBVIOUS
<1>5. CallOK(c) /\ c \in CallRecords BY DEF AccountsInv, CallsOK, CallOK
<1>6. e \in CallRecords /\ e.kind = "logout" /\ e.answer = "none" /\ e.who = c.who /\ e.click = c.click
  BY <1>3, <1>5 DEF CallRecords, CallKinds
<1>7. CallOK(e) BY <1>1, <1>5, <1>6 DEF CallOK
<1>8. Receives(c, N)
 <2>1. IsFiniteSet(N) BY <1>4, FS_EmptySet, FS_Singleton
 <2>2. calls' = (calls \ {c}) \cup N BY <1>3, <1>4 DEF AccountDeleteAnswered
 <2> QED BY <1>1, <1>2, <1>4, <1>6, <1>7, <2>1, <2>2 DEF Receives, authVars
<1>9. AccountVarTypes'
  BY <1>1, <1>2 DEF AccountsInv, AccountVarTypes, authVars, Pages, Protected,
                    UserRecords, AccountRecords
<1>10. CallsOK' /\ AccountsThere' BY <1>8, ReceivesCalls
<1>11. BeforeTheSession'
 <2>1. c.kind # "session" /\ c.kind \notin {"register", "forgot", "reset", "verify"} BY <1>1
 <2> QED BY <1>1, <1>8, <2>1, ReceivesBefore
<1>12. c.answer # "ok" => ~Corrects(c) /\ ~Rekeys(c) BY <1>1 DEF Corrects, Rekeys
<1>13. c.answer = "ok" => \E d \in N : d.kind = "logout" BY <1>4, <1>6
<1>14. UserFollows' BY <1>1, <1>8, <1>12, <1>13, ReceivesUser
<1>15. KeyFollows' BY <1>1, <1>2, <1>8, <1>12, <1>13, ReceivesKey
<1>16. VaultFollows' BY <1>1, <1>2, <1>8, ReceivesVault
<1> QED BY <1>9, <1>10, <1>11, <1>14, <1>15, <1>16 DEF AccountsInv

\* The answer to a request of the settings, or for a reset link.
LEMMA SettingArrives ==
    ASSUME AccountsInv, NEW c \in calls,
           c.kind \in {"profile", "mfaOn", "mfaOff", "regenerate", "password", "revoke", "forgot"},
           NEW newUser \in UserRecords, NEW newKey \in Nat, NEW A, IsFiniteSet(A),
           \A e \in A : CallOK(e) /\ e.answer = "none" /\ e.kind = "session",
           SettingAnswered(c, newUser, newKey, A),
           c.kind = "forgot" => newUser = user,
           c.answer = "ok" /\ ~userOff /\ hydrated =>
               newUser = AccountOf(cookie) \/ A # {} \/ (newUser = user /\ ~Corrects(c)),
           c.answer = "ok" /\ ~userOff /\ ~keyOff =>
               \/ newKey = recoveryKey /\ ~Rekeys(c)
               \/ cookie # Nobody /\ accts[cookie].recovery = newKey
    PROVE  AccountsInv'
<1>0. PICK B : B = IF c.answer = "ok" THEN A ELSE {} OBVIOUS
<1>p. PICK p, rest : p = route /\ rest = (calls \ {c}) \cup B OBVIOUS
<1>1. /\ c.answer # "none"
      /\ user' = IF c.answer = "ok" THEN newUser ELSE user
      /\ recoveryKey' = IF c.answer = "ok" THEN newKey ELSE recoveryKey
      /\ UNCHANGED <<vault, hydrated, loading, verifyState, historyVars, authVars, clicks>>
  BY DEF SettingAnswered
<1>s. ShowPage(p, rest) BY <1>0, <1>p DEF SettingAnswered
<1>2. userOff' = userOff /\ keyOff' = keyOff /\ vaultOff' = vaultOff BY <1>1 DEF historyVars
<1>3. /\ p \in Pages /\ IsFiniteSet(B)
      /\ \A e \in B : CallOK(e) /\ e.answer = "none" /\ e.kind = "session"
  BY <1>0, <1>p, FS_EmptySet DEF AccountsInv, AccountVarTypes
<1>4. PICK N : Receives(c, N) /\ B \subseteq N /\ \A e \in N : e.kind = "session"
  BY <1>1, <1>2, <1>3, <1>p, <1>s, PageReceives
<1>5. /\ route' \in Pages /\ mfaFor' \in Accounts \cup {Nobody}
      /\ ~hydrated' => route' = p
  BY <1>1, <1>2, <1>3, <1>p, <1>s, PageReceives
<1>6. user' \in UserRecords /\ recoveryKey' \in Nat BY <1>1 DEF AccountsInv, AccountVarTypes
<1>8. AccountVarTypes'
  BY <1>1, <1>2, <1>5, <1>6 DEF AccountsInv, AccountVarTypes, authVars, Pages, Protected,
                               UserRecords, AccountRecords
<1>10. CallsOK' /\ AccountsThere' BY <1>4, ReceivesCalls
<1>11. BeforeTheSession'
 <2>1. c.kind # "session" /\ (c.kind \in {"register", "forgot", "reset", "verify"} => c.kind = "forgot")
   OBVIOUS
 <2>2. c.kind = "forgot" => user' = user BY <1>1
 <2>3. ~hydrated => route' = route BY <1>1, <1>5, <1>p
 <2>4. (\E e \in N : e.kind = "session") \/ N = {} BY <1>4
 <2> QED BY <1>1, <1>4, <2>1, <2>2, <2>3, <2>4, ReceivesBefore
<1>12. c.answer # "ok" => ~Corrects(c) /\ ~Rekeys(c) BY DEF Corrects, Rekeys
<1>13. UserFollows'
 <2>1. c.answer = "ok" /\ A # {} => \E e \in N : e.kind = "session" BY <1>0, <1>4
 <2>2. hydrated' = hydrated BY <1>1
 <2>3. CASE c.answer = "ok" BY <1>1, <1>4, <2>1, <2>2, <2>3, ReceivesUser
 <2>4. CASE c.answer # "ok" BY <1>1, <1>4, <1>12, <2>2, <2>4, ReceivesUser
 <2> QED BY <2>3, <2>4
<1>14. KeyFollows'
 <2>1. CASE c.answer = "ok" BY <1>1, <1>2, <1>4, <2>1, ReceivesKey
 <2>2. CASE c.answer # "ok" BY <1>1, <1>2, <1>4, <1>12, <2>2, ReceivesKey
 <2> QED BY <2>1, <2>2
<1>15. VaultFollows' BY <1>1, <1>2, <1>4, ReceivesVault
<1> QED BY <1>8, <1>10, <1>11, <1>13, <1>14, <1>15 DEF AccountsInv

\* The settings, one by one.
LEMMA SettingsArrive ==
    ASSUME AccountsInv, NEW c \in calls,
           \/ ProfileAnswered(c) \/ MfaAnswered(c) \/ KeyAnswered(c)
           \/ PasswordAnswered(c) \/ RevokeAnswered(c) \/ ForgotAnswered(c)
    PROVE  AccountsInv'
<1>t. /\ user \in UserRecords /\ recoveryKey \in Nat /\ IsFiniteSet({})
      /\ CallOK(c) /\ c \in CallRecords /\ c.closed \in UserRecords /\ c.click \in Nat
  BY FS_EmptySet DEF AccountsInv, AccountVarTypes, CallsOK, CallOK, CallRecords
<1>u. PICK oldUser, oldKey : oldUser = user /\ oldKey = recoveryKey OBVIOUS
<1>1. CASE ProfileAnswered(c)
 <2>1. PICK S : S = calls \ {c} OBVIOUS
 <2>2. IsFiniteSet(S) BY <2>1, FS_RemoveElement DEF AccountsInv, CallsOK
 <2>3. PICK e : e = CallOf("session", Nobody, S) OBVIOUS
 <2>c. clicks' = clicks /\ clicks \in Nat
   BY <1>1 DEF ProfileAnswered, SettingAnswered, AccountsInv, AccountVarTypes
 <2>4. e \in CallRecords /\ e.kind = "session" /\ e.answer = "none" /\ e.click = clicks
   BY <1>t, <2>2, <2>3, <2>c, NewCall DEF CallKinds
 <2>5. CallOK(e) BY <2>4, <2>c DEF CallOK
 <2>6. PICK A : A = {e} OBVIOUS
 <2>7. c.kind = "profile" /\ SettingAnswered(c, c.closed, oldKey, A)
   BY <1>1, <1>u, <2>1, <2>3, <2>6 DEF ProfileAnswered
 <2>8. IsFiniteSet(A) /\ A # {} /\ \A d \in A : CallOK(d) /\ d.answer = "none" /\ d.kind = "session"
   BY <2>4, <2>5, <2>6, FS_Singleton
 <2>9. ~Rekeys(c) BY <2>7 DEF Rekeys
 <2> QED BY <1>t, <1>u, <2>7, <2>8, <2>9, SettingArrives
<1>2. CASE MfaAnswered(c)
 <2>1. PICK b \in BOOLEAN : b = (c.kind = "mfaOn") OBVIOUS
 <2>2. PICK newUser : newUser = [c.closed EXCEPT !.mfa = b] OBVIOUS
 <2>3. c.kind \in {"mfaOn", "mfaOff"} /\ SettingAnswered(c, newUser, oldKey, {})
   BY <1>2, <1>u, <2>1, <2>2 DEF MfaAnswered
 <2>4. newUser \in UserRecords /\ newUser = [who |-> c.closed.who, mfa |-> b]
  <3>1. c.closed.who \in Accounts BY <1>t, <2>3 DEF CallOK
  <3>2. c.closed \in [who: Accounts, mfa: BOOLEAN]
    BY <1>t, <3>1, AccountsAssumption DEF UserRecords, NoUser
  <3> QED BY <2>2, <3>2 DEF UserRecords
 <2>5. ~userOff /\ c.answer = "ok" => AccountOf(cookie) = [who |-> c.who, mfa |-> c.kind = "mfaOn"]
   BY <2>3 DEF AccountsInv, UserFollows, AnswerHolds
 <2>6. c.closed.who = c.who BY <1>t, <2>3 DEF CallOK
 <2>7. ~userOff /\ c.answer = "ok" => newUser = AccountOf(cookie) BY <2>1, <2>4, <2>5, <2>6
 <2>8. ~Rekeys(c) BY <2>3 DEF Rekeys
 <2> QED BY <1>t, <1>u, <2>3, <2>4, <2>7, <2>8, SettingArrives
<1>3. CASE KeyAnswered(c)
 <2>1. c.kind = "regenerate" /\ SettingAnswered(c, oldUser, c.click, {})
   BY <1>3, <1>u DEF KeyAnswered
 <2>2. ~Corrects(c) BY <2>1 DEF Corrects
 <2>3. c.answer = "ok" /\ ~userOff /\ ~keyOff =>
           cookie # Nobody /\ accts[cookie].recovery = c.click
   BY <2>1 DEF AccountsInv, KeyFollows
 <2> QED BY <1>t, <1>u, <2>1, <2>2, <2>3, SettingArrives
<1>4. CASE PasswordAnswered(c) \/ RevokeAnswered(c) \/ ForgotAnswered(c)
 <2>1. /\ c.kind \in {"password", "revoke", "forgot"}
       /\ SettingAnswered(c, oldUser, oldKey, {})
   BY <1>4, <1>u DEF PasswordAnswered, RevokeAnswered, ForgotAnswered
 <2>2. ~Corrects(c) /\ ~Rekeys(c) BY <2>1 DEF Corrects, Rekeys
 <2> QED BY <1>t, <1>u, <2>1, <2>2, SettingArrives
<1> QED BY <1>1, <1>2, <1>3, <1>4

\* A password that was reset leads to the sign-in page, which asks for the session.
LEMMA ResetArrives ==
    ASSUME AccountsInv, NEW c \in calls, ResetAnswered(c)
    PROVE  AccountsInv'
<1>0. PICK p, rest : p = (IF c.answer = "ok" THEN "sign-in" ELSE route) /\ rest = calls \ {c}
  OBVIOUS
<1>1. /\ c.kind = "reset" /\ c.answer # "none"
      /\ UNCHANGED <<vault, user, hydrated, loading, recoveryKey, verifyState, historyVars,
                     authVars, clicks>>
      /\ ShowPage(p, rest)
  BY <1>0 DEF ResetAnswered, Done
<1>2. userOff' = userOff /\ keyOff' = keyOff /\ vaultOff' = vaultOff BY <1>1 DEF historyVars
<1>3. p \in Pages /\ rest = (calls \ {c}) \cup {} /\ IsFiniteSet({})
  BY <1>0, FS_EmptySet DEF AccountsInv, AccountVarTypes, Pages
<1>4. PICK N : /\ Receives(c, N) /\ \A e \in N : e.kind = "session"
               /\ p = "sign-in" /\ route # "sign-in" => N # {}
  BY <1>1, <1>2, <1>3, PageReceives
<1>5. /\ route' \in Pages /\ mfaFor' \in Accounts \cup {Nobody}
      /\ ~hydrated' => route' = p
  BY <1>1, <1>2, <1>3, PageReceives
<1>8. AccountVarTypes'
  BY <1>1, <1>2, <1>5 DEF AccountsInv, AccountVarTypes, authVars, Pages, Protected,
                          UserRecords, AccountRecords
<1>10. CallsOK' /\ AccountsThere' BY <1>4, ReceivesCalls
<1>11. BeforeTheSession'
 <2>1. c.kind # "session" BY <1>1
 <2>2. ~hydrated /\ route \notin Asking =>
           (\E e \in N : e.kind = "session") \/ (N = {} /\ route' \notin Asking)
   BY <1>0, <1>1, <1>4, <1>5 DEF Asking
 <2> QED BY <1>1, <1>4, <2>1, <2>2, ReceivesBefore
<1>12. UserFollows'
 <2>1. Corrects(c) => \E e \in N : e.kind = "session" BY <1>0, <1>1, <1>4 DEF Corrects
 <2>2. hydrated' = hydrated /\ user' = user BY <1>1
 <2> QED BY <1>4, <2>1, <2>2, ReceivesUser
<1>13. KeyFollows' BY <1>1, <1>2, <1>4, ReceivesKey DEF Rekeys
<1>14. VaultFollows' BY <1>1, <1>2, <1>4, ReceivesVault
<1> QED BY <1>8, <1>10, <1>11, <1>12, <1>13, <1>14 DEF AccountsInv

\* A link that was used, which the page asks for again.
LEMMA VerifyArrives ==
    ASSUME AccountsInv, NEW c \in calls, VerifyAnswered(c)
    PROVE  AccountsInv'
<1>1. /\ c.kind = "verify" /\ c.answer # "none" /\ verifyState' \in {"ok", "error"}
      /\ UNCHANGED <<authVars, vault, user, hydrated, loading, recoveryKey, route, mfaFor,
                     clicks, historyVars>>
  BY DEF VerifyAnswered
<1>2. userOff' = userOff /\ keyOff' = keyOff /\ vaultOff' = vaultOff BY <1>1 DEF historyVars
<1>3. PICK e : e = [c EXCEPT !.answer = "none"] OBVIOUS
<1>4. PICK N : N = IF c.answer = "ok" /\ route = "verify" THEN {e} ELSE {} OBVIOUS
<1>5. CallOK(c) /\ c \in CallRecords BY DEF AccountsInv, CallsOK, CallOK
<1>6. e \in CallRecords /\ e.kind = c.kind /\ e.answer = "none" /\ e.who = c.who /\ e.click = c.click
  BY <1>3, <1>5 DEF CallRecords, CallKinds
<1>7. CallOK(e) BY <1>1, <1>5, <1>6 DEF CallOK
<1>8. Receives(c, N) /\ \A d \in N : d.kind = "verify"
 <2>1. IsFiniteSet(N) BY <1>4, FS_EmptySet, FS_Singleton
 <2>2. calls' = (calls \ {c}) \cup N BY <1>3, <1>4 DEF VerifyAnswered
 <2> QED BY <1>1, <1>2, <1>4, <1>6, <1>7, <2>1, <2>2 DEF Receives, authVars
<1>9. AccountVarTypes'
  BY <1>1, <1>2 DEF AccountsInv, AccountVarTypes, authVars, Pages, Protected,
                    UserRecords, AccountRecords
<1>10. CallsOK' /\ AccountsThere' BY <1>8, ReceivesCalls
<1>11. BeforeTheSession'
 <2>1. c.kind # "session" BY <1>1
 <2> QED BY <1>1, <1>8, <2>1, ReceivesBefore
<1>12. ~Corrects(c) /\ ~Rekeys(c) BY <1>1 DEF Corrects, Rekeys
<1>14. UserFollows' BY <1>1, <1>8, <1>12, ReceivesUser
<1>15. KeyFollows' BY <1>1, <1>2, <1>8, <1>12, ReceivesKey
<1>16. VaultFollows' BY <1>1, <1>2, <1>8, ReceivesVault
<1> QED BY <1>9, <1>10, <1>11, <1>14, <1>15, <1>16 DEF AccountsInv

-------------------------------------------------------------------------------
(* The user asks. *)

\* A click makes requests N.
Makes(N) ==
    /\ IsFiniteSet(N) /\ calls' = calls \cup N /\ clicks' = clicks + 1
    /\ \A e \in N : CallOK(e)' /\ e.answer = "none"
    /\ \A d \in N, e \in calls \cup N : d.kind = "regenerate" /\ e.kind = "regenerate" => d = e
    /\ UNCHANGED <<accts, challenge, cookie, link, resets, user, hydrated, recoveryKey,
                   userOff, keyOff>>
    /\ route' = "sign-in" /\ route # "sign-in" => \E e \in N : e.kind = "session"

LEMMA MakesKeep ==
    ASSUME AccountsInv, NEW N, Makes(N),
           ~hydrated /\ user = NoUser /\ route \notin Asking =>
               \/ \E e \in N : e.kind = "session"
               \/ /\ route' \notin Asking
                  /\ \A e \in N : e.kind \in {"register", "forgot", "reset", "verify"}
    PROVE  CallsOK' /\ AccountsThere' /\ BeforeTheSession' /\ UserFollows' /\ KeyFollows'
<1>0. clicks \in Nat /\ clicks' = clicks + 1 BY DEF AccountsInv, AccountVarTypes, Makes
<1>1. CallsOK'
 <2>1. IsFiniteSet(calls') BY FS_Union DEF AccountsInv, CallsOK, Makes
 <2>2. \A c \in calls' : CallOK(c)'
  <3> SUFFICES ASSUME NEW c \in calls PROVE CallOK(c)' BY DEF Makes
  <3>1. CallOK(c) /\ c.click \in Nat BY DEF AccountsInv, CallsOK, CallOK, CallRecords
  <3>2. c.click <= clicks' BY <1>0, <3>1 DEF CallOK
  <3> QED BY <3>1, <3>2 DEF CallOK
 <2>3. \A c, d \in calls' : c.kind = "regenerate" /\ d.kind = "regenerate" => c = d
   BY DEF AccountsInv, CallsOK, Makes
 <2> QED BY <2>1, <2>2, <2>3 DEF CallsOK
<1>2. AccountsThere' BY DEF AccountsInv, AccountsThere, Makes
<1>3. BeforeTheSession'
 <2> SUFFICES ASSUME ~hydrated PROVE BeforeTheSession' BY DEF BeforeTheSession, Makes
 <2>1. CASE \E c \in calls \cup N : c.kind = "session" BY <2>1 DEF BeforeTheSession, Makes
 <2>2. CASE ~\E c \in calls \cup N : c.kind = "session"
  <3>1. /\ user = NoUser /\ route \notin Asking
        /\ \A c \in calls : c.kind \in {"register", "forgot", "reset", "verify"}
    BY <2>2 DEF AccountsInv, BeforeTheSession, Asking
  <3>2. /\ route' \notin Asking
        /\ \A e \in N : e.kind \in {"register", "forgot", "reset", "verify"}
    BY <2>2, <3>1
  <3> QED BY <3>1, <3>2 DEF BeforeTheSession, Makes, Asking, NoUser
 <2> QED BY <2>1, <2>2
<1>4. UserFollows'
 <2> SUFFICES ASSUME ~userOff
              PROVE  /\ (\A d \in calls : AnswerHolds(d))'
                     /\ (hydrated => user = AccountOf(cookie) \/ \E d \in calls : Corrects(d))'
   BY DEF UserFollows, Makes
 <2>1. \A d \in calls' : AnswerHolds(d)'
  <3>1. \A d \in N : AnswerHolds(d)' BY DEF AnswerHolds, Makes
  <3>2. \A d \in calls : AnswerHolds(d) BY DEF AccountsInv, UserFollows
  <3>3. \A d \in calls : AnswerHolds(d)' BY <3>2, Zenon DEF AnswerHolds, AccountOf, Makes
  <3> QED BY <3>1, <3>3 DEF Makes
 <2>2. ASSUME hydrated'
       PROVE  user' = AccountOf(cookie)' \/ \E d \in calls' : Corrects(d)'
  <3>0. AccountOf(cookie)' = AccountOf(cookie) /\ user' = user BY DEF AccountOf, Makes
  <3>1. user = AccountOf(cookie) \/ \E d \in calls : Corrects(d)
    BY <2>2 DEF AccountsInv, UserFollows, Makes
  <3>2. ASSUME NEW d \in calls, Corrects(d) PROVE \E e \in calls' : Corrects(e)'
   <4>1. CASE route' = "sign-in" /\ route # "sign-in" BY <4>1 DEF Makes, Corrects
   <4>2. CASE ~(route' = "sign-in" /\ route # "sign-in") BY <4>2, <3>2 DEF Corrects, Makes
   <4> QED BY <4>1, <4>2
  <3> QED BY <3>0, <3>1, <3>2
 <2> QED BY <2>1, <2>2
<1>5. KeyFollows'
 <2> SUFFICES ASSUME ~userOff, ~keyOff
              PROVE  /\ \A d \in calls' : d.kind = "regenerate" /\ d.answer = "ok" =>
                            cookie' # Nobody /\ accts'[cookie'].recovery = d.click
                     /\ recoveryKey' # 0 =>
                            \/ cookie' # Nobody /\ accts'[cookie'].recovery = recoveryKey'
                            \/ \E d \in calls' : Rekeys(d)
   BY DEF KeyFollows, Makes, Rekeys
 <2>1. \A d \in N : d.answer # "ok" BY DEF Makes
 <2> QED BY <2>1 DEF AccountsInv, KeyFollows, Makes
<1> QED BY <1>1, <1>2, <1>3, <1>4, <1>5

\* The vault stays, and no registration is made.
LEMMA MakesVault ==
    ASSUME AccountsInv, NEW N, Makes(N), UNCHANGED <<vault, vaultOff>>,
           \A e \in N : e.kind # "register"
    PROVE  VaultFollows'
<1>1. vault.key <= clicks' BY DEF AccountsInv, VaultFollows, AccountVarTypes, Makes
<1> QED BY <1>1 DEF AccountsInv, VaultFollows, Makes, NoVault

\* A link to another page.
LEMMA VisitKeeps ==
    ASSUME AccountsInv, NEW p \in Pages, Visit(p)
    PROVE  AccountsInv'
<1>0. PICK rest : rest = calls OBVIOUS
<1>1. /\ clicks' = clicks + 1 /\ p # route
      /\ UNCHANGED <<authVars, vault, user, hydrated, loading, recoveryKey, verifyState,
                     historyVars>>
      /\ ShowPage(p, rest)
  BY <1>0 DEF Visit, Click
<1>2. userOff' = userOff /\ keyOff' = keyOff /\ vaultOff' = vaultOff BY <1>1 DEF historyVars
<1>3. /\ IsFiniteSet(rest) /\ user \in UserRecords /\ clicks' \in Nat
      /\ mfaFor \in Accounts \cup {Nobody}
  BY <1>0, <1>1 DEF AccountsInv, AccountVarTypes, CallsOK
<1>4. PICK N : /\ calls' = calls \cup N /\ IsFiniteSet(N)
               /\ \A e \in N : /\ e \in CallRecords /\ e.kind = "session"
                               /\ e.answer = "none" /\ e.click = clicks' /\ ~e.got.mfa
               /\ route' = "sign-in" /\ route # "sign-in" => N # {}
               /\ ~hydrated' /\ p \in Asking /\ route \notin Asking => N # {}
  BY <1>0, <1>1, <1>3, ShowsPage
<1>5. /\ route' \in Pages /\ mfaFor' \in Accounts \cup {Nobody}
      /\ ~hydrated' => route' = p
  BY <1>1, <1>3, ShowsPage
<1>6. Makes(N)
 <2>1. \A e \in N : CallOK(e)'
  <3> SUFFICES ASSUME NEW e \in N PROVE CallOK(e)' OBVIOUS
  <3>1. e.click <= clicks' BY <1>3, <1>4
  <3> QED BY <1>4, <3>1 DEF CallOK
 <2> QED BY <1>1, <1>2, <1>4, <2>1 DEF Makes, authVars
<1>7. AccountVarTypes'
  BY <1>1, <1>2, <1>3, <1>5 DEF AccountsInv, AccountVarTypes, authVars, Pages, Protected,
                                UserRecords, AccountRecords
<1>8. CallsOK' /\ AccountsThere' /\ BeforeTheSession' /\ UserFollows' /\ KeyFollows'
 <2>1. ~hydrated /\ route \notin Asking =>
           \/ \E e \in N : e.kind = "session"
           \/ route' \notin Asking /\ N = {}
   BY <1>1, <1>4, <1>5
 <2> QED BY <1>6, <2>1, MakesKeep
<1>9. VaultFollows' BY <1>1, <1>2, <1>4, <1>6, MakesVault
<1> QED BY <1>7, <1>8, <1>9 DEF AccountsInv

\* A form or a button that makes one request, which does not store keys.
LEMMA AskKeeps ==
    ASSUME AccountsInv, NEW kind \in CallKinds \ {"register", "session", "verify"},
           NEW who \in Accounts, Click, Ask(kind, who), vault' = vault, loading' \in BOOLEAN,
           kind \in {"mfaOn", "mfaOff"} => who = user.who,
           kind = "regenerate" => \A c \in calls : c.kind # "regenerate",
           kind \in {"forgot", "reset"} \/ hydrated \/ user # NoUser \/ route \in Asking
    PROVE  AccountsInv'
<1>1. /\ clicks' = clicks + 1
      /\ UNCHANGED <<authVars, user, hydrated, recoveryKey, route, mfaFor, verifyState,
                     historyVars>>
  BY DEF Click, Ask
<1>2. userOff' = userOff /\ keyOff' = keyOff /\ vaultOff' = vaultOff BY <1>1 DEF historyVars
<1>3. IsFiniteSet(calls) /\ user \in UserRecords /\ clicks' \in Nat
  BY <1>1 DEF AccountsInv, AccountVarTypes, CallsOK
<1>0. PICK S : S = calls OBVIOUS
<1>4. PICK e : e = CallOf(kind, who, S) OBVIOUS
<1>5. /\ e \in CallRecords /\ e.kind = kind /\ e.who = who /\ e.click = clicks'
      /\ e.closed = user /\ e.answer = "none" /\ ~e.got.mfa
  BY <1>0, <1>3, <1>4, NewCall
<1>6. calls' = calls \cup {e} BY <1>0, <1>4 DEF Ask
<1>7. PICK N : N = {e} OBVIOUS
<1>8. CallOK(e)'
 <2>1. e.click <= clicks' BY <1>3, <1>5
 <2> QED BY <1>5, <2>1 DEF CallOK
<1>9. Makes(N) BY <1>1, <1>2, <1>5, <1>6, <1>7, <1>8, FS_Singleton DEF Makes, authVars
<1>10. AccountVarTypes'
  BY <1>1, <1>2, <1>3 DEF AccountsInv, AccountVarTypes, authVars, Pages, Protected,
                          UserRecords, AccountRecords
<1>11. CallsOK' /\ AccountsThere' /\ BeforeTheSession' /\ UserFollows' /\ KeyFollows'
 <2>1. \A d \in N : d.kind = kind BY <1>5, <1>7
 <2> QED BY <1>1, <1>9, <2>1, MakesKeep
<1>12. VaultFollows' BY <1>2, <1>5, <1>7, <1>9, MakesVault
<1> QED BY <1>10, <1>11, <1>12 DEF AccountsInv

LEMMA FormsKeep ==
    ASSUME AccountsInv,
           \/ \E a \in Accounts, k \in {"login", "passkey", "code"} : SignIn(a, k)
           \/ \E a \in Accounts : ForgotPassword(a) \/ ResetPassword(a)
           \/ SignOut \/ SaveProfile \/ DeleteAccount \/ RegenerateKey \/ VerifyMfa \/ DisableMfa
           \/ ChangePassword \/ RevokeSession
    PROVE  AccountsInv'
<1>0. loading \in BOOLEAN /\ user \in UserRecords BY DEF AccountsInv, AccountVarTypes
<1>1. ASSUME NEW a \in Accounts, NEW k \in {"login", "passkey", "code"}, SignIn(a, k)
      PROVE  AccountsInv'
 <2>1. Click /\ Ask(k, a) /\ vault' = vault /\ loading' = TRUE /\ hydrated
   BY <1>1 DEF SignIn, SignInForm
 <2>2. k \in CallKinds \ {"register", "session", "verify"} /\ k \notin {"mfaOn", "mfaOff", "regenerate"}
   BY DEF CallKinds
 <2> QED BY <2>1, <2>2, AskKeeps
<1>2. ASSUME NEW a \in Accounts, ForgotPassword(a) \/ ResetPassword(a)
      PROVE  AccountsInv'
 <2>1. PICK k \in {"forgot", "reset"} : Click /\ Ask(k, a) /\ vault' = vault /\ loading' = loading
   BY <1>2 DEF ForgotPassword, ResetPassword
 <2>2. k \in CallKinds \ {"register", "session", "verify"} /\ k \notin {"mfaOn", "mfaOff", "regenerate"}
   BY DEF CallKinds
 <2> QED BY <1>0, <2>1, <2>2, AskKeeps
<1>3. ASSUME NEW k \in {"logout", "profile", "delete", "regenerate", "mfaOn", "mfaOff",
                        "password", "revoke"}, ChangeSetting(k)
      PROVE  AccountsInv'
 <2>1. PICK who : who = user.who OBVIOUS
 <2>2. /\ Click /\ Ask(k, who) /\ vault' = vault /\ loading' = loading /\ user # NoUser
       /\ route = "settings" /\ \A c \in calls : c.kind # k
   BY <1>3, <2>1 DEF ChangeSetting
 <2>3. k \in CallKinds \ {"register", "session", "verify"} BY DEF CallKinds
 <2>4. CASE who \in Accounts BY <1>0, <2>1, <2>2, <2>3, <2>4, AskKeeps
 <2>5. CASE who \notin Accounts BY <1>0, <2>1, <2>2, <2>5 DEF UserRecords
 <2> QED BY <2>4, <2>5
<1> QED
  BY <1>1, <1>2, <1>3 DEF SignOut, SaveProfile, DeleteAccount, RegenerateKey, VerifyMfa, DisableMfa,
                          ChangePassword, RevokeSession

\* The page is loaded again.
LEMMA OpenKeeps ==
    ASSUME AccountsInv, NEW p \in Pages, Open(p)
    PROVE  AccountsInv'
<1>1. /\ clicks' = clicks + 1
      /\ p \in {"sign-in", "sign-up", "settings", "verify", "reset"}
      /\ user' = NoUser /\ hydrated' = FALSE /\ loading' = FALSE /\ recoveryKey' = 0
      /\ route' = p /\ mfaFor' = Nobody /\ verifyState' = "verifying"
      /\ userOff' = FALSE /\ keyOff' = FALSE
      /\ UNCHANGED <<authVars, vault, vaultOff>>
  BY DEF Open, Click
<1>2. PICK a \in Accounts :
          calls' = IF p = "verify"
                   THEN {[CallOf("verify", a, {}) EXCEPT !.closed = NoUser]}
                   ELSE InitialCalls(p)
  BY DEF Open
<1>3. clicks \in Nat /\ clicks' \in Nat /\ 0 <= clicks' /\ clicks <= clicks' /\ user \in UserRecords
  BY <1>1 DEF AccountsInv, AccountVarTypes
<1>4. NoUser \in UserRecords /\ ~NoUser.mfa /\ NoUser.who = Nobody BY DEF NoUser, UserRecords
<1>5. /\ IsFiniteSet(calls')
      /\ \A c \in calls' : /\ CallOK(c)' /\ c.answer = "none"
                           /\ c.kind = IF p = "verify" THEN "verify" ELSE "session"
      /\ p \in Asking => calls' # {}
 <2>1. CASE p = "verify"
  <3>1. PICK d : d = CallOf("verify", a, {}) OBVIOUS
  <3>2. d \in CallRecords /\ d.kind = "verify" /\ d.who = a /\ d.click = clicks' /\ d.answer = "none"
    BY <1>3, <3>1, FS_EmptySet, NewCall DEF CallKinds
  <3>3. PICK e : e = [d EXCEPT !.closed = NoUser] OBVIOUS
  <3>4. e \in CallRecords /\ e.kind = "verify" /\ e.who = a /\ e.click = clicks' /\ e.answer = "none"
    BY <1>4, <3>2, <3>3 DEF CallRecords
  <3>5. CallOK(e)' BY <1>3, <3>4 DEF CallOK
  <3>6. calls' = {e} BY <1>2, <2>1, <3>1, <3>3
  <3> QED BY <2>1, <3>4, <3>5, <3>6, FS_Singleton DEF Asking, Protected
 <2>2. CASE p # "verify"
  <3>1. PICK e : e = [n |-> 1, kind |-> "session", who |-> Nobody, click |-> 0,
                      closed |-> NoUser, answer |-> "none", got |-> NoUser]
    OBVIOUS
  <3>2. e \in CallRecords /\ e.kind = "session" /\ e.click = 0 /\ e.answer = "none"
    BY <1>4, <3>1 DEF CallRecords, CallKinds
  <3>3. CallOK(e)' BY <1>3, <3>2 DEF CallOK
  <3>4. calls' = IF p \in Protected \cup {"sign-in"} THEN {e} ELSE {}
    BY <1>2, <2>2, <3>1 DEF InitialCalls
  <3> QED BY <2>2, <3>2, <3>3, <3>4, FS_Singleton, FS_EmptySet DEF Asking
 <2> QED BY <2>1, <2>2
<1>6. AccountVarTypes'
 <2>1. p \in Pages /\ user' \in UserRecords' /\ recoveryKey' \in Nat
   BY <1>1, <1>4 DEF UserRecords, NoUser
 <2> QED
   BY <1>1, <1>3, <2>1 DEF AccountsInv, AccountVarTypes, authVars, Pages, Protected,
                           AccountRecords
<1>7. CallsOK'
 <2>1. \A c \in calls' : c.kind # "regenerate" BY <1>5
 <2> QED BY <1>5, <2>1 DEF CallsOK
<1>8. AccountsThere' BY <1>1 DEF AccountsInv, AccountsThere, authVars
<1>9. BeforeTheSession'
 <2>1. CASE p \in Asking
  <3>1. p # "verify" BY <2>1 DEF Asking, Protected
  <3> QED BY <1>5, <2>1, <3>1 DEF BeforeTheSession
 <2>2. CASE p \notin Asking
  <3>1. \A c \in calls' : c.kind = "verify" \/ p \in Asking
   <4>1. CASE p = "verify" BY <1>5, <4>1
   <4>2. CASE p # "verify" BY <1>2, <2>2, <4>2 DEF InitialCalls, Asking
   <4> QED BY <4>1, <4>2
  <3> QED BY <1>1, <2>2, <3>1 DEF BeforeTheSession, Asking, NoUser
 <2> QED BY <2>1, <2>2
<1>10. UserFollows' BY <1>1, <1>5 DEF UserFollows, AnswerHolds
<1>11. KeyFollows' BY <1>1, <1>5 DEF KeyFollows
<1>12. VaultFollows'
 <2>1. \A c \in calls' : c.kind # "register" BY <1>5
 <2>2. vault.key <= clicks' BY <1>3 DEF AccountsInv, VaultFollows, AccountVarTypes
 <2> QED BY <1>1, <2>1, <2>2 DEF AccountsInv, VaultFollows, NoVault, authVars
<1> QED BY <1>6, <1>7, <1>8, <1>9, <1>10, <1>11, <1>12 DEF AccountsInv

\* A registration stores the new keys first.
LEMMA SignUpKeeps ==
    ASSUME AccountsInv, NEW who \in Accounts, SignUp(who)
    PROVE  AccountsInv'
<1>1. /\ clicks' = clicks + 1 /\ loading' = TRUE
      /\ vault' = [who |-> who, key |-> clicks', pwd |-> 0] /\ vaultOff' = TRUE
      /\ UNCHANGED <<authVars, user, hydrated, recoveryKey, route, mfaFor, verifyState,
                     userOff, keyOff>>
  BY DEF SignUp, Click
<1>2. IsFiniteSet(calls) /\ user \in UserRecords /\ clicks \in Nat /\ clicks' \in Nat
  BY <1>1 DEF AccountsInv, AccountVarTypes, CallsOK
<1>0. PICK S : S = calls OBVIOUS
<1>4. PICK e : e = CallOf("register", who, S) OBVIOUS
<1>5. /\ e \in CallRecords /\ e.kind = "register" /\ e.who = who /\ e.click = clicks'
      /\ e.answer = "none"
  BY <1>0, <1>2, <1>4, NewCall DEF CallKinds
<1>6. calls' = calls \cup {e} BY <1>0, <1>4 DEF SignUp
<1>7. PICK N : N = {e} OBVIOUS
<1>8. CallOK(e)'
 <2>1. e.click <= clicks' /\ e.click # 0 BY <1>1, <1>2, <1>5
 <2> QED BY <1>5, <2>1 DEF CallOK
<1>9. Makes(N) BY <1>1, <1>5, <1>6, <1>7, <1>8, FS_Singleton DEF Makes, authVars
<1>10. AccountVarTypes'
  BY <1>1, <1>2 DEF AccountsInv, AccountVarTypes, authVars, Pages, Protected,
                    UserRecords, AccountRecords
<1>11. CallsOK' /\ AccountsThere' /\ BeforeTheSession' /\ UserFollows' /\ KeyFollows'
 <2>1. \A d \in N : d.kind = "register" BY <1>5, <1>7
 <2> QED BY <1>1, <1>9, <2>1, MakesKeep
<1>12. VaultFollows'
 <2>1. vault'.key <= clicks' /\ vault'.who = who /\ vault'.pwd = 0 /\ vault'.key = clicks'
   BY <1>1, <1>2
 <2>2. \A c \in calls : c.click # clicks'
  <3> SUFFICES ASSUME NEW c \in calls PROVE c.click # clicks' OBVIOUS
  <3>1. c.click \in Nat /\ c.click <= clicks BY DEF AccountsInv, CallsOK, CallOK, CallRecords
  <3> QED BY <1>1, <1>2, <3>1
 <2> QED BY <1>1, <1>5, <1>6, <2>1, <2>2 DEF VaultFollows
<1> QED BY <1>10, <1>11, <1>12 DEF AccountsInv

\* A session that ends unseen.
LEMMA EndKeeps ==
    ASSUME AccountsInv, SessionEnds
    PROVE  AccountsInv'
<1>1. /\ clicks' = clicks + 1 /\ cookie' = Nobody /\ userOff' = TRUE
      /\ UNCHANGED <<accts, challenge, link, resets, vault, user, hydrated, loading, recoveryKey,
                     route, mfaFor, verifyState, calls, keyOff, vaultOff>>
  BY DEF SessionEnds, Click
<1>2. clicks \in Nat BY DEF AccountsInv, AccountVarTypes
<1>3. AccountVarTypes'
  BY <1>1, <1>2 DEF AccountsInv, AccountVarTypes, Pages, Protected, UserRecords, AccountRecords
<1>4. CallsOK'
 <2>1. \A c \in calls : CallOK(c)'
  <3> SUFFICES ASSUME NEW c \in calls PROVE CallOK(c)' OBVIOUS
  <3>1. CallOK(c) /\ c.click \in Nat BY DEF AccountsInv, CallsOK, CallOK, CallRecords
  <3>2. c.click <= clicks' BY <1>1, <1>2, <3>1 DEF CallOK
  <3> QED BY <3>1, <3>2 DEF CallOK
 <2> QED BY <1>1, <2>1 DEF AccountsInv, CallsOK
<1>5. AccountsThere' BY <1>1 DEF AccountsInv, AccountsThere
<1>6. BeforeTheSession' BY <1>1 DEF AccountsInv, BeforeTheSession, Protected, NoUser
<1>7. UserFollows' /\ KeyFollows' BY <1>1 DEF UserFollows, KeyFollows
<1>8. VaultFollows'
 <2>1. vault.key <= clicks' BY <1>1, <1>2 DEF AccountsInv, VaultFollows, AccountVarTypes
 <2> QED BY <1>1, <2>1 DEF AccountsInv, VaultFollows, NoVault
<1> QED BY <1>3, <1>4, <1>5, <1>6, <1>7, <1>8 DEF AccountsInv

-------------------------------------------------------------------------------
(* The server. *)

\* Request c becomes e, which differs in its answer.
TurnsInto(c, e) ==
    /\ c \in calls /\ c.answer = "none" /\ calls' = (calls \ {c}) \cup {e}
    /\ CallOK(e) /\ e.answer \in {"ok", "error"}
    /\ e.kind = c.kind /\ e.who = c.who /\ e.click = c.click /\ e.closed = c.closed
    /\ UNCHANGED <<vault, user, hydrated, loading, recoveryKey, route, mfaFor, verifyState, clicks>>

LEMMA BecomesCalls ==
    ASSUME AccountsInv, NEW c, NEW e, TurnsInto(c, e)
    PROVE  CallsOK' /\ BeforeTheSession'
<1>1. IsFiniteSet(calls')
 <2>1. IsFiniteSet(calls \ {c}) BY FS_RemoveElement DEF AccountsInv, CallsOK
 <2> QED BY <2>1, FS_AddElement DEF TurnsInto
<1>2. \A d \in calls' : CallOK(d)' BY DEF AccountsInv, CallsOK, TurnsInto, CallOK
<1>3. \A d, f \in calls' : d.kind = "regenerate" /\ f.kind = "regenerate" => d = f
  BY DEF AccountsInv, CallsOK, TurnsInto
<1>4. BeforeTheSession' BY DEF AccountsInv, BeforeTheSession, TurnsInto, NoUser, Protected
<1> QED BY <1>1, <1>2, <1>3, <1>4 DEF CallsOK

\* A request that is refused, or lost.
LEMMA RefusalKeeps ==
    ASSUME AccountsInv, NEW c \in calls, CallRefused(c)
    PROVE  AccountsInv'
<1>1. /\ c.answer = "none"
      /\ challenge' \in {challenge, challenge \ {c.who}}
      /\ userOff' = (userOff \/ (c.kind = "session" /\ cookie # Nobody)
                       \/ (c.kind = "logout" /\ cookie # Nobody))
      /\ keyOff' = (keyOff \/ (c.kind = "session" /\ recoveryKey # 0))
      /\ UNCHANGED <<accts, cookie, link, resets, vault, user, hydrated, loading,
                     recoveryKey, route, mfaFor, verifyState, clicks, vaultOff>>
  BY DEF CallRefused
<1>2. PICK e : e = [c EXCEPT !.answer = "error"] OBVIOUS
<1>3. CallOK(c) /\ c \in CallRecords BY DEF AccountsInv, CallsOK, CallOK
<1>4. /\ e \in CallRecords /\ e.answer = "error" /\ e.kind = c.kind /\ e.who = c.who
      /\ e.click = c.click /\ e.closed = c.closed /\ e.got = c.got
  BY <1>2, <1>3 DEF CallRecords
<1>5. CallOK(e) BY <1>3, <1>4 DEF CallOK
<1>6. TurnsInto(c, e) BY <1>1, <1>2, <1>4, <1>5 DEF TurnsInto, CallRefused
<1>7. AccountVarTypes'
  BY <1>1 DEF AccountsInv, AccountVarTypes, Pages, Protected, UserRecords, AccountRecords
<1>8. CallsOK' /\ BeforeTheSession' BY <1>6, BecomesCalls
<1>9. AccountsThere' BY <1>1 DEF AccountsInv, AccountsThere
<1>10. UserFollows'
 <2> SUFFICES ASSUME ~userOff'
              PROVE  /\ \A d \in calls' : AnswerHolds(d)'
                     /\ hydrated' => user' = AccountOf(cookie)' \/ \E d \in calls' : Corrects(d)'
   BY DEF UserFollows
 <2>1. ~userOff /\ (c.kind \in {"session", "logout"} => cookie = Nobody) BY <1>1
 <2>2. AccountOf(cookie)' = AccountOf(cookie) BY <1>1 DEF AccountOf
 <2>3. \A d \in calls : AnswerHolds(d)'
  <3>1. \A d \in calls : AnswerHolds(d) BY <2>1 DEF AccountsInv, UserFollows
  <3> QED BY <1>1, <2>2, <3>1 DEF AnswerHolds
 <2>4. AnswerHolds(e)' BY <1>1, <1>4, <2>1 DEF AnswerHolds
 <2>5. ASSUME hydrated PROVE user = AccountOf(cookie) \/ \E d \in calls' : Corrects(d)'
  <3>1. user = AccountOf(cookie) \/ \E d \in calls : Corrects(d)
    BY <2>1, <2>5 DEF AccountsInv, UserFollows
  <3>2. ASSUME NEW d \in calls, Corrects(d) PROVE \E f \in calls' : Corrects(f)'
   <4>1. CASE d = c BY <1>1, <1>4, <1>6, <3>2, <4>1 DEF Corrects, TurnsInto
   <4>2. CASE d # c BY <1>1, <1>6, <3>2, <4>2 DEF Corrects, TurnsInto
   <4> QED BY <4>1, <4>2
  <3> QED BY <3>1, <3>2
 <2> QED BY <1>1, <1>6, <2>2, <2>3, <2>4, <2>5 DEF TurnsInto
<1>11. KeyFollows'
 <2> SUFFICES ASSUME ~userOff', ~keyOff'
              PROVE  /\ \A d \in calls' : d.kind = "regenerate" /\ d.answer = "ok" =>
                            cookie' # Nobody /\ accts'[cookie'].recovery = d.click
                     /\ recoveryKey' # 0 =>
                            \/ cookie' # Nobody /\ accts'[cookie'].recovery = recoveryKey'
                            \/ \E d \in calls' : Rekeys(d)
   BY DEF KeyFollows, Rekeys
 <2>1. ~userOff /\ ~keyOff BY <1>1
 <2>2. Rekeys(c) => Rekeys(e) BY <1>1, <1>4 DEF Rekeys
 <2> QED BY <1>1, <1>4, <1>6, <2>1, <2>2 DEF AccountsInv, KeyFollows, TurnsInto
<1>12. VaultFollows' BY <1>1, <1>4, <1>6 DEF AccountsInv, VaultFollows, TurnsInto, NoVault
<1> QED BY <1>7, <1>8, <1>9, <1>10, <1>11, <1>12 DEF AccountsInv

\* What the server makes of a request, by kind.
LEMMA EffectOf ==
    ASSUME AccountsInv, NEW c \in calls, Effect(c)
    PROVE  /\ c.kind = "session" => cookie # Nobody /\ UNCHANGED authVars
           /\ c.kind \in {"login", "passkey"} =>
                 /\ accts[c.who].there
                 /\ IF accts[c.who].mfa
                    THEN challenge' = challenge \cup {c.who} /\ cookie' = cookie
                    ELSE cookie' = c.who /\ challenge' = challenge
                 /\ UNCHANGED <<accts, link, resets>>
           /\ c.kind = "code" =>
                 /\ accts[c.who].mfa /\ cookie' = c.who /\ challenge' = challenge \ {c.who}
                 /\ UNCHANGED <<accts, link, resets>>
           /\ c.kind = "register" =>
                 /\ ~accts[c.who].there
                 /\ accts' = [accts EXCEPT ![c.who] =
                       [NoAccount EXCEPT !.there = TRUE, !.key = c.click, !.recovery = c.click]]
                 /\ link' = [link EXCEPT ![c.who] = "sent"]
                 /\ cookie' = c.who /\ UNCHANGED <<challenge, resets>>
           /\ c.kind = "logout" => cookie' = Nobody /\ UNCHANGED <<accts, challenge, link, resets>>
           /\ c.kind = "verify" => /\ link' = [link EXCEPT ![c.who] = "used"]
                                   /\ UNCHANGED <<accts, challenge, cookie, resets>>
           /\ c.kind = "forgot" =>
                 /\ resets' = IF accts[c.who].there THEN resets \cup {c.who} ELSE resets
                 /\ UNCHANGED <<accts, challenge, cookie, link>>
           /\ c.kind = "reset" =>
                 /\ c.who \in resets /\ accts' = [accts EXCEPT ![c.who].pwd = @ + 1]
                 /\ resets' = resets \ {c.who} /\ cookie' = c.who /\ UNCHANGED <<challenge, link>>
  BY DEF Effect

LEMMA EffectOfSetting ==
    ASSUME AccountsInv, NEW c \in calls, Effect(c),
           c.kind \in {"profile", "delete", "regenerate", "mfaOn", "mfaOff", "password", "revoke"}
    PROVE  /\ cookie # Nobody /\ cookie \in Accounts
           /\ c.kind = "delete" =>
                 /\ accts' = [accts EXCEPT ![cookie] = NoAccount] /\ cookie' = Nobody
                 /\ challenge' = challenge \ {cookie} /\ link' = [link EXCEPT ![cookie] = "none"]
                 /\ resets' = resets \ {cookie}
           /\ c.kind # "delete" => UNCHANGED <<challenge, link, resets>>
           /\ c.kind \in {"profile", "revoke"} => accts' = accts
           /\ c.kind = "revoke" => cookie' = Nobody
           /\ c.kind \notin {"delete", "revoke"} => cookie' = cookie
           /\ c.kind = "regenerate" => accts' = [accts EXCEPT ![cookie].recovery = c.click]
           /\ c.kind = "mfaOn"      => accts' = [accts EXCEPT ![cookie].mfa = TRUE]
           /\ c.kind = "mfaOff"     => accts' = [accts EXCEPT ![cookie].mfa = FALSE]
           /\ c.kind = "password"   => accts' = [accts EXCEPT ![cookie].pwd = @ + 1]
<1>1. /\ cookie # Nobody
      /\ CASE c.kind = "delete"     -> accts' = [accts EXCEPT ![cookie] = NoAccount]
           [] c.kind = "regenerate" -> accts' = [accts EXCEPT ![cookie].recovery = c.click]
           [] c.kind = "mfaOn"      -> accts' = [accts EXCEPT ![cookie].mfa = TRUE]
           [] c.kind = "mfaOff"     -> accts' = [accts EXCEPT ![cookie].mfa = FALSE]
           [] c.kind = "password"   -> accts' = [accts EXCEPT ![cookie].pwd = @ + 1]
           [] OTHER                 -> UNCHANGED accts
      /\ cookie' = IF c.kind \in {"delete", "revoke"} THEN Nobody ELSE cookie
      /\ challenge' = IF c.kind = "delete" THEN challenge \ {cookie} ELSE challenge
      /\ link' = IF c.kind = "delete" THEN [link EXCEPT ![cookie] = "none"] ELSE link
      /\ resets' = IF c.kind = "delete" THEN resets \ {cookie} ELSE resets
  BY DEF Effect
<1>2. cookie \in Accounts BY <1>1 DEF AccountsInv, AccountVarTypes
<1> QED BY <1>1, <1>2

SettingKinds == {"profile", "delete", "regenerate", "mfaOn", "mfaOff", "password", "revoke"}

LEMMA KindsOfCalls ==
    ASSUME AccountsInv, NEW c \in calls
    PROVE  /\ CallOK(c) /\ c \in CallRecords
           /\ c.kind = "session" \/ c.who \in Accounts
           /\ \/ c.kind \in {"session", "login", "passkey", "code", "register", "logout", "verify",
                             "forgot", "reset"}
              \/ c.kind \in SettingKinds
  BY DEF AccountsInv, CallsOK, CallOK, CallRecords, CallKinds, SettingKinds

\* One account changes, and stays one.
LEMMA OneAccount ==
    ASSUME AccountVarTypes, NEW a \in Accounts, NEW r \in AccountRecords,
           accts' = [accts EXCEPT ![a] = r]
    PROVE  /\ accts' \in [Accounts -> AccountRecords]
           /\ accts'[a] = r /\ \A b \in Accounts : b # a => accts'[b] = accts[b]
  BY DEF AccountVarTypes

\* The account a setting changes, and what is kept of it.
LEMMA SettingAccount ==
    ASSUME AccountsInv, NEW c \in calls, Effect(c),
           c.kind \in {"regenerate", "mfaOn", "mfaOff", "password"}
    PROVE  /\ accts' \in [Accounts -> AccountRecords] /\ cookie' = cookie /\ cookie \in Accounts
           /\ \A b \in Accounts : b # cookie => accts'[b] = accts[b]
           /\ accts'[cookie].there = accts[cookie].there /\ accts'[cookie].key = accts[cookie].key
           /\ c.kind # "password" => accts'[cookie].pwd = accts[cookie].pwd
           /\ c.kind = "regenerate" => accts'[cookie].recovery = c.click
           /\ c.kind # "regenerate" => accts'[cookie].recovery = accts[cookie].recovery
           /\ c.kind = "mfaOn" => accts'[cookie].mfa = TRUE
           /\ c.kind = "mfaOff" => accts'[cookie].mfa = FALSE
           /\ c.kind \notin {"mfaOn", "mfaOff"} => accts'[cookie].mfa = accts[cookie].mfa
<1>1. cookie' = cookie /\ cookie \in Accounts /\ c.click \in Nat
  BY EffectOfSetting, KindsOfCalls DEF CallRecords
<1>2. PICK a \in Accounts : a = cookie BY <1>1
<1>3. PICK old \in AccountRecords : old = accts[a] BY DEF AccountsInv, AccountVarTypes
<1>4. AccountVarTypes BY DEF AccountsInv
<1>5. CASE c.kind = "regenerate"
 <2>1. PICK r : r = [old EXCEPT !.recovery = c.click] OBVIOUS
 <2>2. /\ r \in AccountRecords /\ r.there = old.there /\ r.key = old.key /\ r.pwd = old.pwd
       /\ r.recovery = c.click /\ r.mfa = old.mfa
   BY <1>1, <2>1 DEF AccountRecords
 <2>3. accts' = [accts EXCEPT ![a] = r] BY <1>2, <1>3, <1>5, <2>1, EffectOfSetting
 <2> QED BY <1>1, <1>2, <1>3, <1>4, <1>5, <2>2, <2>3, OneAccount
<1>6. CASE c.kind \in {"mfaOn", "mfaOff"}
 <2>1. PICK b \in BOOLEAN : b = (c.kind = "mfaOn") OBVIOUS
 <2>2. PICK r : r = [old EXCEPT !.mfa = b] OBVIOUS
 <2>3. /\ r \in AccountRecords /\ r.there = old.there /\ r.key = old.key /\ r.pwd = old.pwd
       /\ r.recovery = old.recovery /\ r.mfa = b
   BY <2>2 DEF AccountRecords
 <2>4. accts' = [accts EXCEPT ![a] = r]
  <3>1. CASE c.kind = "mfaOn" BY <1>2, <1>3, <2>1, <2>2, <3>1, EffectOfSetting
  <3>2. CASE c.kind = "mfaOff" BY <1>2, <1>3, <2>1, <2>2, <3>2, EffectOfSetting
  <3> QED BY <1>6, <3>1, <3>2
 <2>5. (c.kind = "mfaOn" => b = TRUE) /\ (c.kind = "mfaOff" => b = FALSE) BY <2>1
 <2>6. accts' \in [Accounts -> AccountRecords] /\ accts'[a] = r
       /\ \A d \in Accounts : d # a => accts'[d] = accts[d]
   BY <1>4, <2>3, <2>4, OneAccount
 <2> QED BY <1>1, <1>2, <1>3, <1>6, <2>3, <2>5, <2>6
<1>7. CASE c.kind = "password"
 <2>1. PICK r : r = [old EXCEPT !.pwd = @ + 1] OBVIOUS
 <2>2. /\ r \in AccountRecords /\ r.there = old.there /\ r.key = old.key
       /\ r.recovery = old.recovery /\ r.mfa = old.mfa
   BY <2>1 DEF AccountRecords
 <2>3. accts' = [accts EXCEPT ![a] = r] BY <1>2, <1>3, <1>7, <2>1, EffectOfSetting
 <2> QED BY <1>1, <1>2, <1>3, <1>4, <1>7, <2>2, <2>3, OneAccount
<1> QED BY <1>5, <1>6, <1>7

\* The account a reset changes.
LEMMA ResetAccount ==
    ASSUME AccountsInv, NEW c \in calls, Effect(c), c.kind = "reset"
    PROVE  /\ accts' \in [Accounts -> AccountRecords] /\ c.who \in Accounts
           /\ accts'[c.who].there = accts[c.who].there /\ accts[c.who].there
           /\ accts'[c.who].mfa = accts[c.who].mfa
           /\ accts'[c.who].recovery = accts[c.who].recovery
           /\ \A b \in Accounts : b # c.who => accts'[b] = accts[b]
<1>1. PICK a \in Accounts : a = c.who BY KindsOfCalls
<1>2. PICK old \in AccountRecords : old = accts[a] BY DEF AccountsInv, AccountVarTypes
<1>3. PICK r : r = [old EXCEPT !.pwd = @ + 1] OBVIOUS
<1>4. /\ r \in AccountRecords /\ r.there = old.there /\ r.recovery = old.recovery /\ r.mfa = old.mfa
  BY <1>3 DEF AccountRecords
<1>5. accts' = [accts EXCEPT ![a] = r] /\ a \in resets BY <1>1, <1>2, <1>3, EffectOf, Zenon
<1>6. old.there BY <1>2, <1>5 DEF AccountsInv, AccountsThere
<1> QED BY <1>1, <1>2, <1>4, <1>5, <1>6, OneAccount DEF AccountsInv

\* The new account, and the one that is gone.
LEMMA RegisteredAccount ==
    ASSUME AccountsInv, NEW c \in calls, Effect(c), c.kind = "register"
    PROVE  /\ accts' \in [Accounts -> AccountRecords] /\ c.who \in Accounts
           /\ accts'[c.who].there /\ accts'[c.who].mfa = FALSE /\ accts'[c.who].key = c.click
           /\ accts'[c.who].recovery = c.click /\ accts'[c.who].pwd = 0
           /\ \A b \in Accounts : b # c.who => accts'[b] = accts[b]
<1>1. PICK a \in Accounts : a = c.who BY KindsOfCalls
<1>2. c.click \in Nat BY KindsOfCalls DEF CallRecords
<1>3. PICK r : r = [NoAccount EXCEPT !.there = TRUE, !.key = c.click, !.recovery = c.click]
  OBVIOUS
<1>4. /\ r \in AccountRecords /\ r.there = TRUE /\ r.mfa = FALSE /\ r.key = c.click
      /\ r.recovery = c.click /\ r.pwd = 0
  BY <1>2, <1>3 DEF NoAccount, AccountRecords
<1>5. accts' = [accts EXCEPT ![a] = r] BY <1>1, <1>3, EffectOf, Zenon
<1> QED BY <1>1, <1>4, <1>5, OneAccount DEF AccountsInv

LEMMA DeletedAccount ==
    ASSUME AccountsInv, NEW c \in calls, Effect(c), c.kind = "delete"
    PROVE  /\ accts' \in [Accounts -> AccountRecords] /\ cookie \in Accounts
           /\ accts'[cookie].there = FALSE /\ accts'[cookie].mfa = FALSE
           /\ \A b \in Accounts : b # cookie => accts'[b] = accts[b]
<1>1. cookie \in Accounts /\ accts' = [accts EXCEPT ![cookie] = NoAccount] BY EffectOfSetting
<1>2. PICK a \in Accounts : a = cookie BY <1>1
<1>3. PICK r : r = NoAccount OBVIOUS
<1>4. r \in AccountRecords /\ r.there = FALSE /\ r.mfa = FALSE BY <1>3 DEF NoAccount, AccountRecords
<1>5. accts' = [accts EXCEPT ![a] = r] BY <1>1, <1>2, <1>3
<1> QED BY <1>2, <1>4, <1>5, OneAccount DEF AccountsInv

\* What the server keeps is well-typed, and of accounts that are there.
LEMMA EffectTypes ==
    ASSUME AccountsInv, NEW c \in calls, Effect(c)
    PROVE  /\ accts' \in [Accounts -> AccountRecords] /\ cookie' \in Accounts \cup {Nobody}
           /\ challenge' \subseteq Accounts /\ link' \in [Accounts -> {"none", "sent", "used"}]
           /\ resets' \subseteq Accounts
           /\ AccountsThere'
<1>t. /\ accts \in [Accounts -> AccountRecords] /\ cookie \in Accounts \cup {Nobody}
      /\ challenge \subseteq Accounts /\ link \in [Accounts -> {"none", "sent", "used"}]
      /\ resets \subseteq Accounts
      /\ cookie # Nobody => accts[cookie].there
      /\ \A a \in resets : accts[a].there
      /\ \A a \in Accounts : accts[a].mfa => accts[a].there
  BY DEF AccountsInv, AccountVarTypes, AccountsThere
<1>1. CASE c.kind \in {"session", "verify", "forgot"}
 <2>1. accts' = accts /\ cookie' = cookie /\ challenge' = challenge
   BY <1>1, EffectOf, Zenon DEF authVars
 <2>2. link' \in [Accounts -> {"none", "sent", "used"}] BY <1>1, <1>t, EffectOf, Zenon DEF authVars
 <2>3. resets' \subseteq Accounts /\ \A a \in resets' : accts[a].there
  <3>1. c.kind # "forgot" => resets' = resets BY <1>1, EffectOf, Zenon DEF authVars
  <3>2. c.kind = "forgot" => c.who \in Accounts BY KindsOfCalls
  <3> QED BY <1>t, <3>1, <3>2, EffectOf, Zenon
 <2> QED BY <1>t, <2>1, <2>2, <2>3 DEF AccountsThere
<1>2. CASE c.kind \in {"login", "passkey", "code"}
 <2>1. c.who \in Accounts BY <1>2, KindsOfCalls
 <2>2. accts' = accts /\ link' = link /\ resets' = resets BY <1>2, EffectOf, Zenon
 <2>3. accts[c.who].there /\ cookie' \in {cookie, c.who} /\ challenge' \subseteq challenge \cup {c.who}
  <3>1. CASE c.kind = "code" BY <1>t, <2>1, <3>1, EffectOf, Zenon
  <3>2. CASE c.kind # "code" BY <1>2, <3>2, EffectOf, Zenon
  <3> QED BY <3>1, <3>2
 <2> QED BY <1>t, <2>1, <2>2, <2>3 DEF AccountsThere
<1>3. CASE c.kind = "register"
 <2>1. /\ link' = [link EXCEPT ![c.who] = "sent"]
       /\ cookie' = c.who /\ UNCHANGED <<challenge, resets>>
   BY <1>3, EffectOf, Zenon
 <2>2. link' \in [Accounts -> {"none", "sent", "used"}] BY <1>t, <2>1
 <2>3. \A a \in Accounts : accts[a].there => accts'[a].there BY <1>3, RegisteredAccount
 <2>4. \A a \in Accounts : accts'[a].mfa => accts'[a].there BY <1>t, <1>3, RegisteredAccount
 <2> QED BY <1>t, <1>3, <2>1, <2>2, <2>3, <2>4, RegisteredAccount DEF AccountsThere
<1>4. CASE c.kind = "logout" BY <1>t, <1>4, EffectOf, Zenon DEF AccountsThere
<1>5. CASE c.kind = "reset"
 <2>1. resets' = resets \ {c.who} /\ cookie' = c.who /\ UNCHANGED <<challenge, link>>
   BY <1>5, EffectOf, Zenon
 <2>2. \A a \in Accounts : accts'[a].there = accts[a].there /\ accts'[a].mfa = accts[a].mfa
   BY <1>5, ResetAccount
 <2> QED BY <1>t, <1>5, <2>1, <2>2, ResetAccount DEF AccountsThere
<1>6. CASE c.kind \in {"profile", "revoke"}
 <2>1. accts' = accts /\ cookie' \in {cookie, Nobody} /\ UNCHANGED <<challenge, link, resets>>
   BY <1>6, EffectOfSetting
 <2> QED BY <1>t, <2>1 DEF AccountsThere
<1>7. CASE c.kind = "delete"
 <2>1. /\ cookie' = Nobody /\ cookie \in Accounts /\ challenge' = challenge \ {cookie}
       /\ link' = [link EXCEPT ![cookie] = "none"] /\ resets' = resets \ {cookie}
   BY <1>7, EffectOfSetting
 <2>2. link' \in [Accounts -> {"none", "sent", "used"}] BY <1>t, <2>1
 <2>3. \A a \in Accounts : accts'[a].mfa => accts'[a].there BY <1>t, <1>7, DeletedAccount
 <2>4. \A a \in resets' : accts'[a].there BY <1>t, <1>7, <2>1, DeletedAccount
 <2> QED BY <1>t, <1>7, <2>1, <2>2, <2>3, <2>4, DeletedAccount DEF AccountsThere
<1>8. CASE c.kind \in {"regenerate", "mfaOn", "mfaOff", "password"}
 <2>1. UNCHANGED <<challenge, link, resets>> /\ cookie # Nobody BY <1>8, EffectOfSetting
 <2>2. \A a \in Accounts : accts'[a].there = accts[a].there BY <1>8, SettingAccount
 <2>3. accts'[cookie].there /\ cookie' = cookie BY <1>t, <1>8, <2>1, <2>2, SettingAccount
 <2>4. \A a \in Accounts : accts'[a].mfa => accts'[a].there BY <1>t, <1>8, <2>3, SettingAccount
 <2> QED BY <1>t, <1>8, <2>1, <2>2, <2>3, <2>4, SettingAccount DEF AccountsThere
<1> QED BY <1>1, <1>2, <1>3, <1>4, <1>5, <1>6, <1>7, <1>8, KindsOfCalls DEF SettingKinds

\* The user of the session, before and after.
LEMMA AccountOfAccount ==
    ASSUME AccountsInv, NEW a \in Accounts
    PROVE  AccountOf(a) = [who |-> a, mfa |-> accts[a].mfa] /\ AccountOf(a) \in UserRecords
<1>1. accts[a].mfa \in BOOLEAN /\ a # Nobody
  BY AccountsAssumption DEF AccountsInv, AccountVarTypes, AccountRecords
<1> QED BY <1>1 DEF AccountOf, UserRecords

\* When a request reaches the server, either the user of its session is the same, or
\* its answer, if it comes, will correct the page, and says what is so.
LEMMA EffectOnUser ==
    ASSUME AccountsInv, NEW c \in calls, Effect(c), NEW e, TurnsInto(c, e), e.got = Seen(c),
           e.answer = "ok", c.kind # "revoke", ~(c.kind = "reset" /\ route = "sign-in"),
           c.kind \in {"mfaOn", "mfaOff"} => cookie = c.who
    PROVE  /\ AccountOf(cookie)' = AccountOf(cookie) \/ Corrects(e)'
           /\ AnswerHolds(e)'
<1>k. e.kind = c.kind /\ e.who = c.who /\ e.click = c.click /\ route' = route BY DEF TurnsInto
<1>s. (c.kind = "session" \/ c.who \in Accounts) /\ Nobody \notin Accounts
  BY KindsOfCalls, AccountsAssumption
<1>1. CASE c.kind \in {"session", "verify", "forgot", "profile"}
 <2>1. accts' = accts /\ cookie' = cookie
  <3>1. CASE c.kind = "profile" BY <3>1, EffectOfSetting
  <3>2. CASE c.kind # "profile" BY <1>1, <3>2, EffectOf, Zenon DEF authVars
  <3> QED BY <3>1, <3>2
 <2>2. c.kind = "session" => e.got = AccountOf(cookie) BY DEF Seen
 <2> QED BY <1>1, <1>k, <2>1, <2>2 DEF AccountOf, AnswerHolds
<1>2. CASE c.kind \in {"login", "passkey"}
 <2>1. e.got = [who |-> c.who, mfa |-> accts[c.who].mfa] /\ accts' = accts
   BY <1>2, EffectOf, Zenon DEF Seen
 <2>2. CASE accts[c.who].mfa
  <3>1. cookie' = cookie BY <1>2, <2>2, EffectOf, Zenon
  <3> QED BY <1>2, <1>k, <2>1, <2>2, <3>1 DEF AccountOf, AnswerHolds
 <2>3. CASE ~accts[c.who].mfa
  <3>1. cookie' = c.who BY <1>2, <2>3, EffectOf, Zenon
  <3>2. accts[c.who].mfa = FALSE
    BY <1>s, <1>2, <2>3 DEF AccountsInv, AccountVarTypes, AccountRecords
  <3>3. AccountOf(cookie)' = [who |-> c.who, mfa |-> FALSE]
    BY <1>s, <1>2, <2>1, <3>1, <3>2 DEF AccountOf
  <3> QED BY <1>2, <1>k, <2>1, <3>2, <3>3 DEF AnswerHolds, Corrects
 <2> QED BY <2>2, <2>3
<1>3. CASE c.kind = "code"
 <2>1. cookie' = c.who /\ accts' = accts /\ accts[c.who].mfa BY <1>3, EffectOf, Zenon
 <2>2. accts[c.who].mfa = TRUE BY <1>s, <1>3, <2>1 DEF AccountsInv, AccountVarTypes, AccountRecords
 <2>3. AccountOf(cookie)' = [who |-> c.who, mfa |-> TRUE] BY <1>s, <1>3, <2>1, <2>2 DEF AccountOf
 <2> QED BY <1>3, <1>k, <2>3 DEF AnswerHolds, Corrects
<1>4. CASE c.kind = "register"
 <2>1. cookie' = c.who /\ accts'[c.who].mfa = FALSE /\ accts'[c.who].recovery = c.click
   BY <1>4, EffectOf, RegisteredAccount, Zenon
 <2>2. AccountOf(cookie)' = [who |-> c.who, mfa |-> FALSE] BY <1>s, <1>4, <2>1 DEF AccountOf
 <2> QED BY <1>4, <1>k, <2>1, <2>2 DEF AnswerHolds, Corrects
<1>5. CASE c.kind = "logout" BY <1>5, <1>k, EffectOf, Zenon DEF AnswerHolds, Corrects
<1>6. CASE c.kind \in {"reset", "delete"} BY <1>6, <1>k DEF AnswerHolds, Corrects
<1>7. CASE c.kind \in {"mfaOn", "mfaOff"}
 <2>1. cookie' = cookie /\ cookie = c.who /\ accts'[cookie].mfa = (c.kind = "mfaOn")
   BY <1>7, SettingAccount
 <2>2. AccountOf(cookie)' = [who |-> c.who, mfa |-> c.kind = "mfaOn"]
   BY <1>s, <1>7, <2>1 DEF AccountOf
 <2> QED BY <1>7, <1>k, <2>2 DEF AnswerHolds, Corrects
<1>8. CASE c.kind \in {"regenerate", "password"}
 <2>1. cookie' = cookie /\ accts'[cookie].mfa = accts[cookie].mfa BY <1>8, SettingAccount
 <2> QED BY <1>8, <1>k, <2>1 DEF AccountOf, AnswerHolds
<1> QED BY <1>1, <1>2, <1>3, <1>4, <1>5, <1>6, <1>7, <1>8, KindsOfCalls DEF SettingKinds

\* The recovery key of the session's account stays, or the answer brings a new one.
LEMMA EffectOnKey ==
    ASSUME AccountsInv, NEW c \in calls, Effect(c), cookie' = cookie, cookie # Nobody
    PROVE  \/ c.kind = "regenerate" /\ accts'[cookie].recovery = c.click
           \/ c.kind # "regenerate" /\ accts'[cookie].recovery = accts[cookie].recovery
<1>0. cookie \in Accounts BY DEF AccountsInv, AccountVarTypes
<1>1. CASE c.kind \in {"session", "login", "passkey", "code", "logout", "verify", "forgot"}
 <2>1. accts' = accts BY <1>1, EffectOf, Zenon DEF authVars
 <2> QED BY <1>1, <2>1
<1>2. CASE c.kind = "register"
 <2>1. cookie = c.who /\ ~accts[c.who].there BY <1>2, EffectOf, Zenon
 <2> QED BY <2>1 DEF AccountsInv, AccountsThere
<1>3. CASE c.kind = "reset" BY <1>0, <1>3, ResetAccount
<1>4. CASE c.kind \in {"regenerate", "mfaOn", "mfaOff", "password"} BY <1>4, SettingAccount
<1>5. CASE c.kind \in {"profile", "revoke", "delete"}
 <2>1. c.kind # "delete" BY EffectOfSetting
 <2> QED BY <1>5, <2>1, EffectOfSetting
<1> QED BY <1>1, <1>2, <1>3, <1>4, <1>5, KindsOfCalls DEF SettingKinds

\* The keys of an account that is there before and after stay, and so does its password,
\* unless it is changed; an account is new by its registration only.
LEMMA EffectOnVault ==
    ASSUME AccountsInv, NEW c \in calls, Effect(c), c.kind \notin {"password", "reset"},
           NEW a \in Accounts, accts'[a].there, c.kind # "register"
    PROVE  accts[a].there /\ accts'[a].key = accts[a].key /\ accts'[a].pwd = accts[a].pwd
<1>1. CASE c.kind \in {"session", "login", "passkey", "code", "logout", "verify", "forgot"}
 <2>1. accts' = accts BY <1>1, EffectOf, Zenon DEF authVars
 <2> QED BY <1>1, <2>1
<1>3. CASE c.kind = "delete" BY <1>3, DeletedAccount
<1>4. CASE c.kind \in {"regenerate", "mfaOn", "mfaOff"} BY <1>4, SettingAccount
<1>5. CASE c.kind \in {"profile", "revoke"} BY <1>5, EffectOfSetting
<1> QED BY <1>1, <1>3, <1>4, <1>5, KindsOfCalls DEF SettingKinds

\* The keys of a registration are those that were stored before it.
LEMMA ServedVault ==
    ASSUME AccountsInv, NEW c \in calls, Effect(c), NEW e, TurnsInto(c, e),
           vaultOff' = IF c.kind = "register" THEN vault.key # c.click
                       ELSE \/ vaultOff \/ c.kind \in {"password", "reset"}
                            \/ vault # NoVault /\ cookie' \notin {Nobody, vault.who}
    PROVE  VaultFollows'
<1>1. vault' = vault /\ clicks' = clicks BY DEF TurnsInto
<1>2. \A d \in calls' : d.kind = "register" /\ d.click = vault.key => vault.who = d.who /\ vault.pwd = 0
  BY DEF AccountsInv, VaultFollows, TurnsInto
<1>3. ASSUME ~vaultOff', vault # NoVault
      PROVE  /\ vault.who \in Accounts /\ cookie' \in {Nobody, vault.who}
             /\ accts'[vault.who].there => /\ accts'[vault.who].key = vault.key
                                           /\ accts'[vault.who].pwd = vault.pwd
 <2>1. CASE c.kind = "register"
  <3>1. vault.key = c.click BY <1>3, <2>1
  <3>2. vault.who = c.who /\ vault.pwd = 0 BY <2>1, <3>1 DEF AccountsInv, VaultFollows
  <3>3. cookie' = c.who BY <2>1, EffectOf, Zenon
  <3> QED BY <2>1, <3>1, <3>2, <3>3, RegisteredAccount
 <2>2. CASE c.kind # "register"
  <3>1. ~vaultOff /\ c.kind \notin {"password", "reset"} /\ cookie' \in {Nobody, vault.who}
    BY <1>3, <2>2
  <3>2. /\ vault.who \in Accounts
        /\ accts[vault.who].there => /\ accts[vault.who].key = vault.key
                                     /\ accts[vault.who].pwd = vault.pwd
    BY <1>3, <3>1 DEF AccountsInv, VaultFollows
  <3> QED BY <2>2, <3>1, <3>2, EffectOnVault
 <2> QED BY <2>1, <2>2
<1>4. vault.key <= clicks BY DEF AccountsInv, VaultFollows
<1> QED BY <1>1, <1>2, <1>3, <1>4 DEF VaultFollows, NoVault

\* The whole step.
LEMMA ServedKeeps ==
    ASSUME AccountsInv, NEW c \in calls, NEW away \in BOOLEAN, Served(c, away)
    PROVE  AccountsInv'
<1>1. /\ c.answer = "none" /\ Effect(c)
      /\ UNCHANGED <<vault, user, hydrated, loading, recoveryKey, route, mfaFor,
                     verifyState, clicks>>
  BY DEF Served
<1>a. PICK verdict \in {"ok", "error"} : verdict = IF away THEN "error" ELSE "ok" OBVIOUS
<1>g. PICK got : got = Seen(c) OBVIOUS
<1>2. PICK e : e = [c EXCEPT !.answer = verdict, !.got = got] OBVIOUS
<1>3. CallOK(c) /\ c \in CallRecords /\ (c.kind = "session" \/ c.who \in Accounts) BY KindsOfCalls
<1>4. got \in UserRecords /\ (c.kind = "code" => ~got.mfa)
 <2>1. CASE c.kind = "session"
  <3>1. cookie \in Accounts BY <1>1, <2>1, EffectOf, Zenon DEF AccountsInv, AccountVarTypes
  <3>2. got = AccountOf(cookie) BY <1>g, <2>1 DEF Seen
  <3> QED BY <2>1, <3>1, <3>2, AccountOfAccount
 <2>2. CASE c.kind \in {"login", "passkey"}
  <3>1. got = [who |-> c.who, mfa |-> accts[c.who].mfa] BY <1>g, <2>2 DEF Seen
  <3>2. accts[c.who].mfa \in BOOLEAN /\ c.who \in Accounts
    BY <1>3, <2>2 DEF AccountsInv, AccountVarTypes, AccountRecords
  <3> QED BY <2>2, <3>1, <3>2 DEF UserRecords
 <2>3. CASE c.kind \notin {"session", "login", "passkey"}
   BY <1>g, <2>3 DEF Seen, NoUser, UserRecords
 <2> QED BY <2>1, <2>2, <2>3
<1>5. /\ e \in CallRecords /\ e.answer = verdict /\ e.kind = c.kind /\ e.who = c.who
      /\ e.click = c.click /\ e.closed = c.closed /\ e.got = got
  BY <1>2, <1>3, <1>4 DEF CallRecords
<1>6. CallOK(e) BY <1>3, <1>4, <1>5 DEF CallOK
<1>7. TurnsInto(c, e)
 <2>1. calls' = (calls \ {c}) \cup {e} BY <1>a, <1>g, <1>2 DEF Served
 <2> QED BY <1>1, <1>5, <1>6, <2>1 DEF TurnsInto
<1>u. userOff' = (userOff \/ away \/ c.kind = "revoke"
                     \/ (c.kind = "reset" /\ route = "sign-in")
                     \/ (c.kind \in {"mfaOn", "mfaOff"} /\ cookie # c.who)
                     \/ ((cookie' # cookie \/ accts' # accts) /\ Stale(c)))
  BY DEF Served
<1>v. /\ keyOff' = (keyOff \/ (recoveryKey # 0 /\ c.kind = "reset")
                       \/ (c.kind = "regenerate" /\ cookie # c.who)
                       \/ (cookie' # cookie /\ NewKeyOnItsWay)
                       \/ (cookie' # cookie /\ recoveryKey # 0
                             /\ c.kind \in {"login", "passkey", "code"}))
      /\ vaultOff' = IF c.kind = "register" THEN vault.key # c.click
                     ELSE \/ vaultOff \/ c.kind \in {"password", "reset"}
                          \/ vault # NoVault /\ cookie' \notin {Nobody, vault.who}
  BY DEF Served
<1>8. AccountVarTypes'
 <2>1. userOff' \in BOOLEAN BY <1>u
 <2>2. keyOff' \in BOOLEAN BY <1>v
 <2>3. vaultOff' \in BOOLEAN
  <3>1. CASE c.kind = "register" BY <1>v, <3>1
  <3>2. CASE c.kind # "register" BY <1>v, <3>2
  <3> QED BY <3>1, <3>2
 <2> QED
   BY <1>1, <2>1, <2>2, <2>3, EffectTypes DEF AccountsInv, AccountVarTypes, Pages, Protected,
                                               UserRecords, AccountRecords
<1>9. CallsOK' /\ BeforeTheSession' /\ AccountsThere' BY <1>1, <1>7, BecomesCalls, EffectTypes
<1>10. ASSUME ~userOff'
       PROVE  ~userOff /\ e.answer = "ok" /\ AnswerHolds(e)'
              /\ (AccountOf(cookie)' = AccountOf(cookie) \/ Corrects(e)')
 <2>1. /\ ~userOff /\ ~away /\ c.kind # "revoke" /\ ~(c.kind = "reset" /\ route = "sign-in")
       /\ c.kind \in {"mfaOn", "mfaOff"} => cookie = c.who
   BY <1>10, <1>u
 <2>2. e.answer = "ok" BY <1>a, <1>5, <2>1
 <2>3. e.got = Seen(c) BY <1>g, <1>5
 <2> QED BY <1>1, <1>7, <2>1, <2>2, <2>3, EffectOnUser
<1>11. UserFollows'
 <2> SUFFICES ASSUME ~userOff'
              PROVE  /\ \A d \in calls' : AnswerHolds(d)'
                     /\ hydrated' => user' = AccountOf(cookie)' \/ \E d \in calls' : Corrects(d)'
   BY DEF UserFollows
 <2>1. \A d \in calls' : AnswerHolds(d)'
  <3> SUFFICES ASSUME NEW d \in calls, d # c PROVE AnswerHolds(d)' BY <1>7, <1>10 DEF TurnsInto
  <3>1. AnswerHolds(d) BY <1>10 DEF AccountsInv, UserFollows
  <3>2. CASE cookie' = cookie /\ accts' = accts BY <3>1, <3>2 DEF AnswerHolds, AccountOf
  <3>3. CASE ~(cookie' = cookie /\ accts' = accts)
   <4>1. ~Stale(c) BY <1>u, <3>3
   <4>2. d \in calls \ {c} OBVIOUS
   <4>3. /\ ~(d.kind \in {"session", "logout"} /\ d.answer # "none")
         /\ ~(d.kind \in {"login", "passkey", "code", "register"} /\ d.answer = "ok")
         /\ d.kind \notin {"profile", "mfaOn", "mfaOff"}
     BY <4>1, <4>2 DEF Stale
   <4> QED BY <4>3 DEF AnswerHolds
  <3> QED BY <3>2, <3>3
 <2>2. ASSUME hydrated PROVE user = AccountOf(cookie)' \/ \E d \in calls' : Corrects(d)'
  <3>1. user = AccountOf(cookie) \/ \E d \in calls : Corrects(d)
    BY <1>10, <2>2 DEF AccountsInv, UserFollows
  <3>2. ASSUME NEW d \in calls, Corrects(d) PROVE \E f \in calls' : Corrects(f)'
   <4>1. CASE d = c
    <5>1. c.kind \in {"session", "logout"} BY <1>1, <3>2, <4>1 DEF Corrects
    <5> QED BY <1>5, <1>7, <5>1 DEF Corrects, TurnsInto
   <4>2. CASE d # c BY <1>1, <1>7, <3>2, <4>2 DEF Corrects, TurnsInto
   <4> QED BY <4>1, <4>2
  <3>3. e \in calls' BY <1>7 DEF TurnsInto
  <3> QED BY <1>10, <3>1, <3>2, <3>3
 <2> QED BY <1>1, <2>1, <2>2
<1>12. KeyFollows'
 <2> SUFFICES ASSUME ~userOff', ~keyOff'
              PROVE  /\ \A d \in calls' : d.kind = "regenerate" /\ d.answer = "ok" =>
                            cookie' # Nobody /\ accts'[cookie'].recovery = d.click
                     /\ recoveryKey' # 0 =>
                            \/ cookie' # Nobody /\ accts'[cookie'].recovery = recoveryKey'
                            \/ \E d \in calls' : Rekeys(d)
   BY DEF KeyFollows, Rekeys
 <2>1. ~userOff /\ ~keyOff /\ e.answer = "ok" BY <1>10, <1>v
 <2>2. ASSUME NEW d \in calls', d.kind = "regenerate", d.answer = "ok"
       PROVE  cookie' # Nobody /\ accts'[cookie'].recovery = d.click
  <3>1. CASE d = e
   <4>1. c.kind = "regenerate" /\ d.click = c.click BY <1>5, <2>2, <3>1
   <4> QED BY <1>1, <4>1, SettingAccount, EffectOfSetting
  <3>2. CASE d # e
   <4>1. d \in calls /\ d # c BY <1>7, <3>2 DEF TurnsInto
   <4>2. cookie # Nobody /\ accts[cookie].recovery = d.click
     BY <2>1, <2>2, <4>1 DEF AccountsInv, KeyFollows
   <4>3. cookie' = cookie BY <1>v, <2>2, <4>1 DEF NewKeyOnItsWay
   <4>4. c.kind # "regenerate" BY <2>2, <4>1 DEF AccountsInv, CallsOK
   <4> QED BY <1>1, <4>2, <4>3, <4>4, EffectOnKey
  <3> QED BY <3>1, <3>2
 <2>3. ASSUME recoveryKey # 0
       PROVE  \/ cookie' # Nobody /\ accts'[cookie'].recovery = recoveryKey
              \/ \E d \in calls' : Rekeys(d)
  <3>e. e \in calls' BY <1>7 DEF TurnsInto
  <3>1. CASE \E d \in calls : Rekeys(d)
   <4>1. PICK d \in calls : Rekeys(d) BY <3>1
   <4>2. CASE d = c BY <1>1, <1>5, <3>e, <4>1, <4>2 DEF Rekeys
   <4>3. CASE d # c BY <1>7, <4>1, <4>3 DEF TurnsInto
   <4> QED BY <4>2, <4>3
  <3>2. CASE cookie # Nobody /\ accts[cookie].recovery = recoveryKey
   <4>1. CASE c.kind \in {"logout", "regenerate", "register", "delete"}
     BY <1>5, <2>1, <3>e, <4>1 DEF Rekeys
   <4>2. CASE c.kind \notin {"logout", "regenerate", "register", "delete"}
    <5>1. cookie' = cookie
     <6>1. CASE c.kind \in {"login", "passkey", "code"} BY <1>v, <2>3, <6>1
     <6>2. CASE c.kind \in {"session", "verify", "forgot"}
       BY <1>1, <6>2, EffectOf, Zenon DEF authVars
     <6>3. c.kind \notin {"reset", "revoke"} BY <1>u, <1>v, <2>3
     <6>4. CASE c.kind \in SettingKinds
       BY <1>1, <4>2, <6>3, <6>4, EffectOfSetting DEF SettingKinds
     <6> QED BY <4>2, <6>1, <6>2, <6>3, <6>4, KindsOfCalls
    <5> QED BY <1>1, <3>2, <4>2, <5>1, EffectOnKey
   <4> QED BY <4>1, <4>2
  <3> QED BY <2>1, <2>3, <3>1, <3>2 DEF AccountsInv, KeyFollows
 <2> QED BY <1>1, <2>2, <2>3
<1>13. VaultFollows' BY <1>1, <1>7, <1>v, ServedVault
<1> QED BY <1>8, <1>9, <1>11, <1>12, <1>13 DEF AccountsInv

-------------------------------------------------------------------------------
(* The theorem. *)

LEMMA AccountsInitOK == AccountsInit => AccountsInv
<1> SUFFICES ASSUME AccountsInit PROVE AccountsInv OBVIOUS
<1>1. /\ challenge = {} /\ cookie = Nobody
      /\ link = [a \in Accounts |-> "none"] /\ resets = {} /\ vault = NoVault
      /\ user = NoUser /\ hydrated = FALSE /\ loading = FALSE /\ recoveryKey = 0
      /\ route \in {"sign-in", "sign-up", "settings"} /\ calls = InitialCalls(route)
      /\ mfaFor = Nobody /\ verifyState = "verifying" /\ clicks = 0
      /\ userOff = FALSE /\ keyOff = FALSE /\ vaultOff = FALSE
  BY DEF AccountsInit
<1>2. /\ accts \in [Accounts -> AccountRecords]
      /\ \A a \in Accounts : accts[a].mfa => accts[a].there
 <2>1. PICK old \in Accounts \cup {Nobody}, mfa \in BOOLEAN :
           accts = [a \in Accounts |->
                      IF a = old THEN [NoAccount EXCEPT !.there = TRUE, !.mfa = mfa]
                      ELSE NoAccount]
   BY Zenon DEF AccountsInit
 <2>2. PICK r : r = [NoAccount EXCEPT !.there = TRUE, !.mfa = mfa] OBVIOUS
 <2>3. r \in AccountRecords /\ r.there = TRUE BY <2>2 DEF NoAccount, AccountRecords
 <2>4. NoAccount \in AccountRecords /\ NoAccount.mfa = FALSE BY DEF NoAccount, AccountRecords
 <2>5. accts = [a \in Accounts |-> IF a = old THEN r ELSE NoAccount] BY <2>1, <2>2
 <2> HIDE DEF NoAccount
 <2> QED BY <2>3, <2>4, <2>5
<1>3. NoUser \in UserRecords /\ ~NoUser.mfa BY DEF NoUser, UserRecords
<1>4. /\ IsFiniteSet(calls)
      /\ \A c \in calls : CallOK(c) /\ c.answer = "none" /\ c.kind = "session"
      /\ route \in Asking => calls # {}
 <2>1. PICK e : e = [n |-> 1, kind |-> "session", who |-> Nobody, click |-> 0,
                     closed |-> NoUser, answer |-> "none", got |-> NoUser]
   OBVIOUS
 <2>2. e \in CallRecords /\ e.kind = "session" /\ e.click = 0 /\ e.answer = "none"
   BY <1>3, <2>1 DEF CallRecords, CallKinds
 <2>3. CallOK(e) BY <1>1, <2>2 DEF CallOK
 <2>4. calls = IF route \in Protected \cup {"sign-in"} THEN {e} ELSE {}
   BY <1>1, <2>1 DEF InitialCalls
 <2> QED BY <2>2, <2>3, <2>4, FS_Singleton, FS_EmptySet DEF Asking
<1>5. AccountVarTypes
 <2>1. vault \in [who: Accounts \cup {Nobody}, key: Nat, pwd: Nat] /\ route \in Pages
   BY <1>1 DEF NoVault, Pages, Protected
 <2> QED BY <1>1, <1>2, <1>3, <2>1 DEF AccountVarTypes
<1>6. CallsOK BY <1>4 DEF CallsOK
<1>7. AccountsThere BY <1>1, <1>2 DEF AccountsThere
<1>8. BeforeTheSession
 <2>1. CASE route \in Asking BY <1>4, <2>1 DEF BeforeTheSession
 <2>2. CASE route \notin Asking
  <3>1. calls = {} BY <1>1, <2>2 DEF InitialCalls, Asking
  <3> QED BY <1>1, <2>2, <3>1 DEF BeforeTheSession, Asking
 <2> QED BY <2>1, <2>2
<1>9. UserFollows /\ KeyFollows BY <1>1, <1>4 DEF UserFollows, KeyFollows, AnswerHolds
<1>10. VaultFollows
 <2>1. vault.key = 0 BY <1>1 DEF NoVault
 <2> QED BY <1>1, <1>4, <2>1 DEF VaultFollows
<1> QED BY <1>5, <1>6, <1>7, <1>8, <1>9, <1>10 DEF AccountsInv

LEMMA AccountsNextOK == AccountsInv /\ [AccountsNext]_accountVars => AccountsInv'
<1> SUFFICES ASSUME AccountsInv, [AccountsNext]_accountVars PROVE AccountsInv' OBVIOUS
<1>1. CASE \E p \in Pages : Visit(p) \/ Open(p) BY <1>1, VisitKeeps, OpenKeeps
<1>2. CASE \E a \in Accounts : SignUp(a) BY <1>2, SignUpKeeps
<1>3. CASE \/ \E a \in Accounts, k \in {"login", "passkey", "code"} : SignIn(a, k)
           \/ \E a \in Accounts : ForgotPassword(a) \/ ResetPassword(a)
           \/ SignOut \/ SaveProfile \/ DeleteAccount \/ RegenerateKey \/ VerifyMfa \/ DisableMfa
           \/ ChangePassword \/ RevokeSession
  BY <1>3, FormsKeep
<1>4. CASE \E c \in calls, away \in BOOLEAN : Served(c, away) BY <1>4, ServedKeeps
<1>5. CASE \E c \in calls : CallRefused(c) BY <1>5, RefusalKeeps
<1>6. CASE \E c \in calls : SessionAnswered(c) \/ SignInAnswered(c) \/ PasskeyAnswered(c)
  BY <1>6, SessionArrives, SignInArrives
<1>7. CASE \E c \in calls : SignUpAnswered(c) \/ SignOutAnswered(c) \/ AccountDeleteAnswered(c)
  BY <1>7, SignUpArrives, SignOutArrives, DeleteArrives
<1>8. CASE \E c \in calls : \/ ProfileAnswered(c) \/ MfaAnswered(c) \/ KeyAnswered(c)
                            \/ PasswordAnswered(c) \/ RevokeAnswered(c) \/ ForgotAnswered(c)
  BY <1>8, SettingsArrive
<1>9. CASE \E c \in calls : ResetAnswered(c) \/ VerifyAnswered(c)
  BY <1>9, ResetArrives, VerifyArrives
<1>10. CASE SessionEnds BY <1>10, EndKeeps
<1>11. CASE UNCHANGED accountVars
 <2>1. AccountVarTypes' /\ CallsOK' /\ AccountsThere' /\ BeforeTheSession'
   BY <1>11 DEF AccountsInv, accountVars, AccountVarTypes, Pages, Protected, UserRecords,
                AccountRecords, CallsOK, CallOK, AccountsThere, BeforeTheSession, NoUser
 <2>2. UserFollows' /\ KeyFollows' /\ VaultFollows'
   BY <1>11 DEF AccountsInv, accountVars, UserFollows, AnswerHolds, AccountOf, Corrects,
                KeyFollows, Rekeys, VaultFollows, NoVault
 <2> QED BY <2>1, <2>2 DEF AccountsInv
<1> QED BY <1>1, <1>2, <1>3, <1>4, <1>5, <1>6, <1>7, <1>8, <1>9, <1>10, <1>11 DEF AccountsNext

\* With no request under way, nothing is left to be corrected.
LEMMA InvSettles == AccountsInv => AccountSettles
<1> SUFFICES ASSUME AccountsInv, calls = {}
             PROVE  /\ ~userOff => UserIsOfSession
                    /\ ~userOff /\ ~keyOff => RecoveryKeyIsCurrent
                    /\ ~userOff /\ ~vaultOff => VaultOpens
  BY DEF AccountSettles
<1>1. ~userOff /\ hydrated => user = AccountOf(cookie) BY DEF AccountsInv, UserFollows
<1>2. ~userOff /\ user # NoUser => /\ user = AccountOf(cookie) /\ cookie # Nobody
                                   /\ user.who = cookie /\ cookie \in Accounts
 <2> SUFFICES ASSUME ~userOff, user # NoUser
              PROVE  /\ user = AccountOf(cookie) /\ cookie # Nobody
                     /\ user.who = cookie /\ cookie \in Accounts
   OBVIOUS
 <2>1. hydrated BY DEF AccountsInv, BeforeTheSession
 <2>2. user = AccountOf(cookie) BY <1>1, <2>1
 <2>3. cookie # Nobody BY <2>2 DEF AccountOf, NoUser
 <2> QED BY <2>2, <2>3 DEF AccountOf, AccountsInv, AccountVarTypes
<1>3. ~userOff => UserIsOfSession BY <1>1 DEF UserIsOfSession
<1>4. ~userOff /\ ~keyOff => RecoveryKeyIsCurrent
  BY <1>2 DEF RecoveryKeyIsCurrent, AccountsInv, KeyFollows
<1>5. ~userOff /\ ~vaultOff => VaultOpens
 <2> SUFFICES ASSUME ~userOff, ~vaultOff, user # NoUser, vault # NoVault
              PROVE  /\ vault.who = user.who
                     /\ vault.key = accts[user.who].key
                     /\ vault.pwd = accts[user.who].pwd
   BY DEF VaultOpens
 <2>1. user.who = cookie /\ cookie # Nobody /\ accts[cookie].there
   BY <1>2 DEF AccountsInv, AccountsThere
 <2> QED BY <2>1 DEF AccountsInv, VaultFollows
<1> QED BY <1>3, <1>4, <1>5
-------------------------------------------------------------------------------
(* The numbers of the accounts application. *)

\* A password is changed by a request that was clicked for: the changes that were made,
\* and the two requests that may yet make one, are no more than the clicks.
Unserved(k) == IF \E c \in calls : c.kind = k /\ c.answer = "none" THEN 1 ELSE 0

Repassing == {"password", "reset"}

PasswordsCounted ==
    /\ \A a \in Accounts : accts[a].pwd + Unserved("password") + Unserved("reset") <= clicks
    /\ \A c, d \in calls : c.kind \in Repassing /\ d.kind = c.kind => c = d

AccountNumbers ==
    /\ clicks <= MaxClicks /\ recoveryKey <= clicks /\ vault.pwd = 0
    /\ \A a \in Accounts : accts[a].key <= clicks /\ accts[a].recovery <= clicks
    /\ PasswordsCounted

NumbersInv == AccountsInv /\ AccountNumbers

LEMMA ClicksAre ==
    ASSUME AccountsInv
    PROVE  /\ clicks \in Nat /\ recoveryKey \in Nat /\ MaxClicks \in Nat
           /\ \A a \in Accounts : /\ accts[a].key \in Nat /\ accts[a].recovery \in Nat
                                  /\ accts[a].pwd \in Nat
           /\ \A c \in calls : c.click \in Nat /\ c.click <= clicks
           /\ \A k : Unserved(k) \in {0, 1}
  BY AccountsAssumption DEF AccountsInv, AccountVarTypes, CallsOK, CallOK, CallRecords,
     AccountRecords, Unserved

LEMMA KindAsked ==
    ASSUME NEW kind, NEW who, NEW S
    PROVE  CallOf(kind, who, S).kind = kind /\ CallOf(kind, who, S).answer = "none"
  BY DEF CallOf

LEMMA PageAsks ==
    ASSUME NEW p, NEW rest, ShowPage(p, rest)
    PROVE  \A d \in calls' : d \in rest \/ d.kind = "session"
<1>1. \/ calls' = rest
      \/ calls' = rest \cup {CallOf("session", Nobody, rest)}
  BY DEF ShowPage
<1> QED BY <1>1, KindAsked

\* A step that asks for no change of a password, and makes none.
LEMMA NoneRepassed ==
    ASSUME NumbersInv, AccountsInv', accts' = accts,
           clicks' \in {clicks, clicks + 1}, clicks' <= MaxClicks,
           recoveryKey' \in {0, recoveryKey} \cup {c.click : c \in calls}, vault'.pwd = 0,
           \A d \in calls' : d.kind \in Repassing => d \in calls
    PROVE  NumbersInv'
<1> USE DEF NumbersInv, AccountNumbers
<1>1. clicks \in Nat /\ clicks' \in Nat /\ clicks <= clicks' BY ClicksAre
<1>2. \A k \in Repassing : Unserved(k)' <= Unserved(k) /\ Unserved(k)' \in {0, 1} /\ Unserved(k) \in {0, 1}
  BY DEF Unserved
<1>3. \A a \in Accounts : accts[a].pwd + Unserved("password")' + Unserved("reset")' <= clicks'
 <2> SUFFICES ASSUME NEW a \in Accounts
              PROVE  accts[a].pwd + Unserved("password")' + Unserved("reset")' <= clicks'
   OBVIOUS
 <2>1. accts[a].pwd \in Nat /\ accts[a].pwd + Unserved("password") + Unserved("reset") <= clicks
   BY ClicksAre DEF PasswordsCounted
 <2>2. PICK n \in Nat, p, q, r, s \in {0, 1} :
           /\ n = accts[a].pwd /\ p = Unserved("password") /\ q = Unserved("reset")
           /\ r = Unserved("password")' /\ s = Unserved("reset")' /\ r <= p /\ s <= q
   BY <1>2, <2>1 DEF Repassing
 <2> QED BY <1>1, <2>1, <2>2
<1>4. PasswordsCounted' BY <1>3 DEF PasswordsCounted
<1>5. recoveryKey' <= clicks' BY <1>1, ClicksAre
<1>6. \A a \in Accounts : accts'[a].key <= clicks' /\ accts'[a].recovery <= clicks'
  BY <1>1, ClicksAre
<1> QED BY <1>4, <1>5, <1>6

\* A click that asks for one, when none of the kind is under way.
LEMMA OneAsked ==
    ASSUME NumbersInv, AccountsInv', UNCHANGED <<accts, recoveryKey, vault>>,
           clicks' = clicks + 1, clicks' <= MaxClicks, NEW e, calls' = calls \cup {e},
           e.kind \in Repassing => \A c \in calls : c.kind # e.kind
    PROVE  NumbersInv'
<1> USE DEF NumbersInv, AccountNumbers
<1>1. clicks \in Nat /\ clicks' \in Nat /\ clicks <= clicks' BY ClicksAre
<1>2. \A k \in Repassing : Unserved(k)' <= Unserved(k) + (IF k = e.kind THEN 1 ELSE 0)
  BY DEF Unserved
<1>3. \A k \in Repassing : Unserved(k)' \in {0, 1} /\ Unserved(k) \in {0, 1} BY DEF Unserved
<1>4. \A a \in Accounts : accts[a].pwd + Unserved("password")' + Unserved("reset")' <= clicks'
 <2> SUFFICES ASSUME NEW a \in Accounts
              PROVE  accts[a].pwd + Unserved("password")' + Unserved("reset")' <= clicks'
   OBVIOUS
 <2>1. accts[a].pwd \in Nat /\ accts[a].pwd + Unserved("password") + Unserved("reset") <= clicks
   BY ClicksAre DEF PasswordsCounted
 <2>2. /\ Unserved("password")' <= Unserved("password") + (IF "password" = e.kind THEN 1 ELSE 0)
       /\ Unserved("reset")' <= Unserved("reset") + (IF "reset" = e.kind THEN 1 ELSE 0)
   BY <1>2 DEF Repassing
 <2>3. PICK n \in Nat, p, q, r, s \in {0, 1} :
           /\ n = accts[a].pwd /\ p = Unserved("password") /\ q = Unserved("reset")
           /\ r = Unserved("password")' /\ s = Unserved("reset")'
   BY <1>3, <2>1 DEF Repassing
 <2> QED BY <1>1, <2>1, <2>2, <2>3
<1>5. PasswordsCounted'
 <2>1. (\A c, d \in calls : c.kind \in Repassing /\ d.kind = c.kind => c = d)'
   BY DEF PasswordsCounted
 <2> QED BY <1>4, <2>1 DEF PasswordsCounted
<1>6. recoveryKey' <= clicks' BY <1>1, ClicksAre
<1>7. \A a \in Accounts : accts'[a].key <= clicks' /\ accts'[a].recovery <= clicks'
  BY <1>1, ClicksAre
<1> QED BY <1>5, <1>6, <1>7

\* What a request makes of the numbers of an account.
LEMMA EffectOnNumbers ==
    ASSUME AccountsInv, NEW c \in calls, Effect(c), NEW a \in Accounts
    PROVE  /\ accts'[a].key \in {accts[a].key, 0, c.click}
           /\ accts'[a].recovery \in {accts[a].recovery, 0, c.click}
           /\ \/ accts'[a].pwd \in {accts[a].pwd, 0}
              \/ c.kind \in Repassing /\ accts'[a].pwd = accts[a].pwd + 1
<1>1. PICK old \in AccountRecords : old = accts[a] BY DEF AccountsInv, AccountVarTypes
<1>2. CASE accts' = accts BY <1>2
<1>3. ASSUME NEW b \in Accounts, NEW r, accts' = [accts EXCEPT ![b] = r],
             r.key \in {accts[b].key, 0, c.click}, r.recovery \in {accts[b].recovery, 0, c.click},
             \/ r.pwd \in {accts[b].pwd, 0}
             \/ c.kind \in Repassing /\ r.pwd = accts[b].pwd + 1
      PROVE  /\ accts'[a].key \in {accts[a].key, 0, c.click}
             /\ accts'[a].recovery \in {accts[a].recovery, 0, c.click}
             /\ \/ accts'[a].pwd \in {accts[a].pwd, 0}
                \/ c.kind \in Repassing /\ accts'[a].pwd = accts[a].pwd + 1
 <2>1. accts'[a] = IF a = b THEN r ELSE accts[a] BY <1>3 DEF AccountsInv, AccountVarTypes
 <2>2. CASE a = b
  <3>1. accts'[a] = r BY <2>1, <2>2
  <3> QED BY <1>3, <2>2, <3>1
 <2>3. CASE a # b BY <2>1, <2>3
 <2> QED BY <2>2, <2>3
<1>4. CASE c.kind = "register"
 <2>1. c.who \in Accounts /\ accts' = [accts EXCEPT ![c.who] =
           [NoAccount EXCEPT !.there = TRUE, !.key = c.click, !.recovery = c.click]]
   BY <1>4, EffectOf, KindsOfCalls, Zenon
 <2>2. PICK r : r = [NoAccount EXCEPT !.there = TRUE, !.key = c.click, !.recovery = c.click]
   OBVIOUS
 <2>3. r.key = c.click /\ r.recovery = c.click /\ r.pwd = 0 BY <2>2 DEF NoAccount
 <2> QED BY <1>3, <2>1, <2>2, <2>3
<1>5. CASE c.kind = "delete"
 <2>1. cookie \in Accounts /\ accts' = [accts EXCEPT ![cookie] = NoAccount]
   BY <1>5, EffectOfSetting
 <2>2. NoAccount.key = 0 /\ NoAccount.recovery = 0 /\ NoAccount.pwd = 0 BY DEF NoAccount
 <2> QED BY <1>3, <2>1, <2>2
<1>6. CASE c.kind = "regenerate"
 <2>1. cookie \in Accounts /\ accts' = [accts EXCEPT ![cookie].recovery = c.click]
   BY <1>6, EffectOfSetting
 <2>2. PICK was \in AccountRecords : was = accts[cookie] BY <2>1 DEF AccountsInv, AccountVarTypes
 <2>3. PICK r : r = [was EXCEPT !.recovery = c.click] OBVIOUS
 <2>4. r.key = was.key /\ r.recovery = c.click /\ r.pwd = was.pwd BY <2>3 DEF AccountRecords
 <2>5. accts' = [accts EXCEPT ![cookie] = r] BY <2>1, <2>2, <2>3
 <2> QED BY <1>3, <2>1, <2>2, <2>4, <2>5
<1>7. CASE c.kind \in {"mfaOn", "mfaOff"}
 <2>1. /\ \A b \in Accounts : b # cookie => accts'[b] = accts[b]
       /\ accts'[cookie].key = accts[cookie].key /\ accts'[cookie].pwd = accts[cookie].pwd
       /\ accts'[cookie].recovery = accts[cookie].recovery
   BY <1>7, SettingAccount
 <2> QED BY <2>1
<1>8. CASE c.kind \in Repassing
 <2>1. PICK b : b = IF c.kind = "password" THEN cookie ELSE c.who OBVIOUS
 <2>2. b \in Accounts /\ accts' = [accts EXCEPT ![b].pwd = @ + 1]
  <3>1. CASE c.kind = "password" BY <2>1, <3>1, EffectOfSetting
  <3>2. CASE c.kind = "reset" BY <2>1, <3>2, EffectOf, KindsOfCalls, Zenon
  <3> QED BY <1>8, <3>1, <3>2 DEF Repassing
 <2>3. PICK was \in AccountRecords : was = accts[b] BY <2>2 DEF AccountsInv, AccountVarTypes
 <2>4. PICK r : r = [was EXCEPT !.pwd = @ + 1] OBVIOUS
 <2>5. r.key = was.key /\ r.recovery = was.recovery /\ r.pwd = was.pwd + 1
   BY <2>4 DEF AccountRecords
 <2>6. accts' = [accts EXCEPT ![b] = r] BY <2>2, <2>3, <2>4
 <2> QED BY <1>3, <1>8, <2>2, <2>3, <2>5, <2>6
<1>9. CASE c.kind \in {"session", "login", "passkey", "code", "logout", "verify", "forgot"}
  BY <1>2, <1>9, EffectOf, Zenon DEF authVars
<1>10. CASE c.kind \in {"profile", "revoke"} BY <1>2, <1>10, EffectOfSetting
<1> QED BY <1>4, <1>5, <1>6, <1>7, <1>8, <1>9, <1>10, KindsOfCalls DEF SettingKinds, Repassing

\* A request that was under way is done, and its answer says so.
LEMMA Turned ==
    ASSUME NumbersInv, NEW c \in calls, NEW e, c.answer = "none",
           calls' = (calls \ {c}) \cup {e}, e.kind = c.kind, e.answer # "none"
    PROVE  /\ \A k \in Repassing : /\ Unserved(k)' <= Unserved(k)
                                   /\ k = c.kind => Unserved(k)' = 0 /\ Unserved(k) = 1
           /\ (\A p, q \in calls : p.kind \in Repassing /\ q.kind = p.kind => p = q)'
<1> USE DEF NumbersInv, AccountNumbers, PasswordsCounted
<1>1. \A k \in Repassing : Unserved(k)' <= Unserved(k) BY DEF Unserved
<1>2. \A k \in Repassing : k = c.kind => Unserved(k)' = 0 /\ Unserved(k) = 1
 <2> SUFFICES ASSUME c.kind \in Repassing PROVE Unserved(c.kind)' = 0 /\ Unserved(c.kind) = 1
   OBVIOUS
 <2>1. \A d \in calls' : d.kind = c.kind => d = e OBVIOUS
 <2> QED BY <2>1 DEF Unserved
<1> QED BY <1>1, <1>2

LEMMA ServedNumbers ==
    ASSUME NumbersInv, AccountsInv', NEW c \in calls, NEW away \in BOOLEAN, Served(c, away)
    PROVE  NumbersInv'
<1> USE DEF NumbersInv, AccountNumbers
<1>0. c.answer = "none" /\ Effect(c) /\ UNCHANGED <<vault, recoveryKey, clicks>> BY DEF Served
<1>1. PICK e : e = [c EXCEPT !.answer = IF away THEN "error" ELSE "ok", !.got = Seen(c)]
  OBVIOUS
<1>2. e.kind = c.kind /\ e.answer # "none" BY <1>1, KindsOfCalls DEF CallRecords
<1>3. calls' = (calls \ {c}) \cup {e} BY <1>1 DEF Served
<1>4. /\ \A k \in Repassing : /\ Unserved(k)' <= Unserved(k)
                              /\ k = c.kind => Unserved(k)' = 0 /\ Unserved(k) = 1
      /\ (\A p, q \in calls : p.kind \in Repassing /\ q.kind = p.kind => p = q)'
  BY <1>0, <1>2, <1>3, Turned
<1>5. \A k : Unserved(k) \in {0, 1} /\ Unserved(k)' \in {0, 1} BY DEF Unserved
<1>6. \A a \in Accounts : accts'[a].pwd + Unserved("password")' + Unserved("reset")' <= clicks'
 <2> SUFFICES ASSUME NEW a \in Accounts
              PROVE  accts'[a].pwd + Unserved("password")' + Unserved("reset")' <= clicks'
   OBVIOUS
 <2>1. /\ accts[a].pwd \in Nat /\ accts[a].pwd + Unserved("password") + Unserved("reset") <= clicks
       /\ clicks \in Nat /\ clicks' = clicks
   BY <1>0, ClicksAre DEF PasswordsCounted
 <2>2. \/ accts'[a].pwd \in {accts[a].pwd, 0}
       \/ c.kind \in Repassing /\ accts'[a].pwd = accts[a].pwd + 1
   BY <1>0, EffectOnNumbers
 <2>3. PICK n \in Nat, p, q, r, s \in {0, 1} :
           /\ n = accts[a].pwd /\ p = Unserved("password") /\ q = Unserved("reset")
           /\ r = Unserved("password")' /\ s = Unserved("reset")'
   BY <1>5, <2>1
 <2>4. /\ r <= p /\ s <= q
       /\ c.kind \in Repassing => (r = 0 /\ p = 1) \/ (s = 0 /\ q = 1)
   BY <1>4, <2>3 DEF Repassing
 <2>5. CASE accts'[a].pwd \in {accts[a].pwd, 0} BY <2>1, <2>3, <2>4, <2>5
 <2>6. CASE c.kind \in Repassing /\ accts'[a].pwd = accts[a].pwd + 1 BY <2>1, <2>3, <2>4, <2>6
 <2> QED BY <2>2, <2>5, <2>6
<1>7. PasswordsCounted' BY <1>4, <1>6 DEF PasswordsCounted
<1>8. \A a \in Accounts : accts'[a].key <= clicks' /\ accts'[a].recovery <= clicks'
  BY <1>0, ClicksAre, EffectOnNumbers
<1> QED BY <1>0, <1>7, <1>8

LEMMA RefusedNumbers ==
    ASSUME NumbersInv, AccountsInv', NEW c \in calls, CallRefused(c)
    PROVE  NumbersInv'
<1>0. /\ c.answer = "none" /\ UNCHANGED <<accts, vault, recoveryKey, clicks>>
      /\ calls' = (calls \ {c}) \cup {[c EXCEPT !.answer = "error"]}
  BY DEF CallRefused
<1>1. PICK e : e = [c EXCEPT !.answer = "error"] OBVIOUS
<1>2. e.kind = c.kind /\ e.answer # "none" BY <1>1, KindsOfCalls DEF CallRecords, NumbersInv
<1>3. /\ \A k \in Repassing : Unserved(k)' <= Unserved(k)
      /\ (\A p, q \in calls : p.kind \in Repassing /\ q.kind = p.kind => p = q)'
  BY <1>0, <1>1, <1>2, Turned
<1>4. \A k : Unserved(k) \in {0, 1} /\ Unserved(k)' \in {0, 1} BY DEF Unserved
<1>5. \A a \in Accounts : accts'[a].pwd + Unserved("password")' + Unserved("reset")' <= clicks'
 <2> SUFFICES ASSUME NEW a \in Accounts
              PROVE  accts'[a].pwd + Unserved("password")' + Unserved("reset")' <= clicks'
   OBVIOUS
 <2>1. /\ accts[a].pwd \in Nat /\ accts[a].pwd + Unserved("password") + Unserved("reset") <= clicks
       /\ clicks \in Nat /\ clicks' = clicks /\ accts' = accts
   BY <1>0, ClicksAre DEF NumbersInv, AccountNumbers, PasswordsCounted
 <2>2. PICK n \in Nat, p, q, r, s \in {0, 1} :
           /\ n = accts[a].pwd /\ p = Unserved("password") /\ q = Unserved("reset")
           /\ r = Unserved("password")' /\ s = Unserved("reset")' /\ r <= p /\ s <= q
   BY <1>3, <1>4, <2>1 DEF Repassing
 <2> QED BY <2>1, <2>2
<1> QED BY <1>0, <1>3, <1>5 DEF NumbersInv, AccountNumbers, PasswordsCounted

\* What the user asks for: a click, which asks for at most one.
LEMMA ClickNumbers ==
    ASSUME NumbersInv, AccountsInv',
           \/ \E p \in Pages : Visit(p) \/ Open(p)
           \/ \E a \in Accounts : SignUp(a)
           \/ SessionEnds
    PROVE  NumbersInv'
<1>0. /\ clicks \in Nat /\ MaxClicks \in Nat /\ vault.pwd = 0
      /\ NoVault.pwd = 0
  BY ClicksAre DEF NumbersInv, AccountNumbers, NoVault
<1>1. Click BY DEF Visit, Open, SignUp, SessionEnds
<1>2. clicks' = clicks + 1 /\ clicks' <= MaxClicks BY <1>0, <1>1 DEF Click
<1>3. CASE \E p \in Pages : Visit(p)
 <2>1. PICK p \in Pages : Visit(p) BY <1>3
 <2>2. /\ UNCHANGED <<accts, vault, recoveryKey>> /\ ShowPage(p, calls) BY <2>1 DEF Visit, authVars
 <2>3. \A d \in calls' : d \in calls \/ d.kind = "session" BY <2>2, PageAsks
 <2> QED BY <1>0, <1>2, <2>2, <2>3, NoneRepassed DEF Repassing
<1>4. CASE \E p \in Pages : Open(p)
 <2>1. PICK p \in Pages : Open(p) BY <1>4
 <2>2. UNCHANGED <<accts, vault>> /\ recoveryKey' = 0 BY <2>1 DEF Open, authVars
 <2>3. PICK a \in Accounts : calls' = IF p = "verify"
                  THEN {[CallOf("verify", a, {}) EXCEPT !.closed = NoUser]}
                  ELSE InitialCalls(p)
   BY <2>1 DEF Open
 <2>4. [CallOf("verify", a, {}) EXCEPT !.closed = NoUser].kind = "verify" BY DEF CallOf
 <2>5. \A d \in InitialCalls(p) : d.kind = "session" BY DEF InitialCalls
 <2>6. \A d \in calls' : d.kind \in {"verify", "session"} BY <2>3, <2>4, <2>5
 <2> QED BY <1>0, <1>2, <2>2, <2>6, NoneRepassed DEF Repassing
<1>5. CASE \E a \in Accounts : SignUp(a)
 <2>1. PICK a \in Accounts : SignUp(a) BY <1>5
 <2>2. /\ UNCHANGED <<accts, recoveryKey>> /\ vault'.pwd = 0
       /\ calls' = calls \cup {CallOf("register", a, calls)}
   BY <2>1 DEF SignUp, authVars
 <2>3. \A d \in calls' : d \in calls \/ d.kind = "register" BY <2>2, KindAsked
 <2> QED BY <1>0, <1>2, <2>2, <2>3, NoneRepassed DEF Repassing
<1>6. CASE SessionEnds
 <2>1. UNCHANGED <<accts, recoveryKey, vault, calls>> BY <1>6 DEF SessionEnds
 <2> QED BY <1>0, <1>2, <2>1, NoneRepassed
<1> QED BY <1>3, <1>4, <1>5, <1>6

LEMMA AskNumbers ==
    ASSUME NumbersInv, AccountsInv', NEW kind, NEW who, Click, Ask(kind, who), vault' = vault,
           kind \in Repassing => \A c \in calls : c.kind # kind
    PROVE  NumbersInv'
<1>1. clicks' = clicks + 1 /\ clicks' <= MaxClicks BY ClicksAre DEF Click, NumbersInv
<1>2. /\ UNCHANGED <<accts, recoveryKey>> /\ calls' = calls \cup {CallOf(kind, who, calls)}
  BY DEF Ask, authVars
<1>3. PICK e : e = CallOf(kind, who, calls) OBVIOUS
<1>4. e.kind = kind BY <1>3, KindAsked
<1> QED BY <1>1, <1>2, <1>3, <1>4, OneAsked

LEMMA FormsNumbers ==
    ASSUME NumbersInv, AccountsInv',
           \/ \E a \in Accounts, k \in {"login", "passkey", "code"} : SignIn(a, k)
           \/ \E a \in Accounts : ForgotPassword(a) \/ ResetPassword(a)
           \/ \E k \in SettingKinds \cup {"logout"} : ChangeSetting(k)
    PROVE  NumbersInv'
<1>1. CASE \E a \in Accounts, k \in {"login", "passkey", "code"} : SignIn(a, k)
  BY <1>1, AskNumbers DEF SignIn, Repassing
<1>2. CASE \E a \in Accounts : ForgotPassword(a) BY <1>2, AskNumbers DEF ForgotPassword
<1>3. CASE \E a \in Accounts : ResetPassword(a) BY <1>3, AskNumbers DEF ResetPassword
<1>4. CASE \E k \in SettingKinds \cup {"logout"} : ChangeSetting(k)
  BY <1>4, AskNumbers DEF ChangeSetting
<1> QED BY <1>1, <1>2, <1>3, <1>4

\* The answers: a session or a page may be asked for, and the recovery key shown is that
\* of the click that asked for it.
LEMMA AnswerNumbers ==
    ASSUME NumbersInv, AccountsInv', NEW c \in calls,
           \/ SessionAnswered(c) \/ SignInAnswered(c) \/ PasskeyAnswered(c)
           \/ SignUpAnswered(c) \/ SignOutAnswered(c) \/ AccountDeleteAnswered(c)
           \/ ResetAnswered(c) \/ VerifyAnswered(c)
    PROVE  NumbersInv'
<1>0. /\ clicks \in Nat /\ clicks <= MaxClicks /\ vault.pwd = 0 /\ NoVault.pwd = 0
  BY ClicksAre DEF NumbersInv, AccountNumbers, NoVault
<1>1. \A p : Done(c, p) => /\ UNCHANGED <<accts, clicks>>
                           /\ \A d \in calls' : d \in calls \/ d.kind = "session"
  BY PageAsks DEF Done, authVars
<1>2. CASE SessionAnswered(c)
 <2>1. UNCHANGED <<vault, recoveryKey>> /\ Done(c, route) BY <1>2 DEF SessionAnswered
 <2> QED BY <1>0, <1>1, <2>1, NoneRepassed DEF Repassing
<1>3. CASE SignInAnswered(c) \/ PasskeyAnswered(c)
 <2>1. /\ UNCHANGED <<vault, recoveryKey>>
       /\ \/ Done(c, "settings")
          \/ UNCHANGED <<authVars, clicks>> /\ calls' = calls \ {c}
   BY <1>3 DEF SignInAnswered, PasskeyAnswered, SignedIn
 <2>2. UNCHANGED <<accts, clicks>> /\ \A d \in calls' : d \in calls \/ d.kind = "session"
   BY <1>1, <2>1 DEF authVars
 <2> QED BY <1>0, <2>1, <2>2, NoneRepassed DEF Repassing
<1>4. CASE SignUpAnswered(c)
 <2>1. /\ vault' = vault
       /\ \/ Done(c, "recovery-key") /\ recoveryKey' = c.click
          \/ UNCHANGED <<authVars, clicks, recoveryKey>> /\ calls' = calls \ {c}
   BY <1>4 DEF SignUpAnswered
 <2>2. UNCHANGED <<accts, clicks>> /\ \A d \in calls' : d \in calls \/ d.kind = "session"
   BY <1>1, <2>1 DEF authVars
 <2> QED BY <1>0, <2>1, <2>2, NoneRepassed DEF Repassing
<1>5. CASE SignOutAnswered(c)
 <2>1. vault' = NoVault /\ recoveryKey' = 0 /\ \E p : Done(c, p) BY <1>5 DEF SignOutAnswered
 <2>2. UNCHANGED <<accts, clicks>> /\ \A d \in calls' : d \in calls \/ d.kind = "session"
   BY <1>1, <2>1
 <2> QED BY <1>0, <2>1, <2>2, NoneRepassed DEF Repassing
<1>6. CASE AccountDeleteAnswered(c)
 <2>1. PICK e : e = [c EXCEPT !.kind = "logout", !.answer = "none"] OBVIOUS
 <2>2. e.kind = "logout" BY <2>1, KindsOfCalls DEF CallRecords, NumbersInv
 <2>3. /\ UNCHANGED <<accts, clicks, vault, recoveryKey>>
       /\ \A d \in calls' : d \in calls \/ d = e
   BY <1>6, <2>1 DEF AccountDeleteAnswered, authVars
 <2> QED BY <1>0, <2>2, <2>3, NoneRepassed DEF Repassing
<1>7. CASE ResetAnswered(c)
 <2>1. UNCHANGED <<vault, recoveryKey>> /\ \E p : Done(c, p) BY <1>7 DEF ResetAnswered
 <2>2. UNCHANGED <<accts, clicks>> /\ \A d \in calls' : d \in calls \/ d.kind = "session"
   BY <1>1, <2>1
 <2> QED BY <1>0, <2>1, <2>2, NoneRepassed DEF Repassing
<1>8. CASE VerifyAnswered(c)
 <2>1. PICK e : e = [c EXCEPT !.answer = "none"] OBVIOUS
 <2>2. c.kind = "verify" /\ e.kind = "verify"
   BY <1>8, <2>1, KindsOfCalls DEF CallRecords, NumbersInv, VerifyAnswered
 <2>3. /\ UNCHANGED <<accts, clicks, vault, recoveryKey>>
       /\ \A d \in calls' : d \in calls \/ d = e
   BY <1>8, <2>1 DEF VerifyAnswered, authVars
 <2> QED BY <1>0, <2>2, <2>3, NoneRepassed DEF Repassing
<1> QED BY <1>2, <1>3, <1>4, <1>5, <1>6, <1>7, <1>8

LEMMA SettingNumbers ==
    ASSUME NumbersInv, AccountsInv', NEW c \in calls, NEW newUser, NEW newKey, NEW asks,
           SettingAnswered(c, newUser, newKey, asks), newKey \in {recoveryKey, c.click},
           \A d \in asks : d.kind = "session"
    PROVE  NumbersInv'
<1>0. /\ clicks \in Nat /\ clicks <= MaxClicks /\ vault.pwd = 0
  BY ClicksAre DEF NumbersInv, AccountNumbers
<1>1. PICK rest : /\ rest = (calls \ {c}) \cup (IF c.answer = "ok" THEN asks ELSE {})
                  /\ ShowPage(route, rest)
  BY DEF SettingAnswered
<1>2. \A d \in calls' : d \in calls \/ d.kind = "session" BY <1>1, PageAsks
<1>3. UNCHANGED <<accts, clicks, vault>> /\ recoveryKey' \in {recoveryKey, newKey}
  BY DEF SettingAnswered, authVars
<1> QED BY <1>0, <1>2, <1>3, NoneRepassed DEF Repassing

LEMMA SettingsNumbers ==
    ASSUME NumbersInv, AccountsInv', NEW c \in calls,
           \/ ProfileAnswered(c) \/ MfaAnswered(c) \/ KeyAnswered(c)
           \/ PasswordAnswered(c) \/ RevokeAnswered(c) \/ ForgotAnswered(c)
    PROVE  NumbersInv'
<1>1. CASE ProfileAnswered(c)
 <2>1. PICK e : e = CallOf("session", Nobody, calls \ {c}) OBVIOUS
 <2>2. e.kind = "session" BY <2>1, KindAsked
 <2>3. SettingAnswered(c, c.closed, recoveryKey, {e}) BY <1>1, <2>1 DEF ProfileAnswered
 <2> QED BY <2>2, <2>3, SettingNumbers
<1>2. CASE MfaAnswered(c) BY <1>2, SettingNumbers DEF MfaAnswered
<1>3. CASE KeyAnswered(c) BY <1>3, SettingNumbers DEF KeyAnswered
<1>4. CASE PasswordAnswered(c) \/ RevokeAnswered(c) \/ ForgotAnswered(c)
  BY <1>4, SettingNumbers DEF PasswordAnswered, RevokeAnswered, ForgotAnswered
<1> QED BY <1>1, <1>2, <1>3, <1>4

LEMMA NumbersInitOK == AccountsInit => NumbersInv
<1> SUFFICES ASSUME AccountsInit PROVE AccountNumbers BY AccountsInitOK DEF NumbersInv
<1>1. clicks = 0 /\ recoveryKey = 0 /\ vault = NoVault /\ calls = InitialCalls(route)
  BY DEF AccountsInit
<1>2. \A c \in calls : c.kind = "session" BY <1>1 DEF InitialCalls
<1>3. Unserved("password") = 0 /\ Unserved("reset") = 0 BY <1>2 DEF Unserved
<1>4. \A a \in Accounts : accts[a].key = 0 /\ accts[a].recovery = 0 /\ accts[a].pwd = 0
  BY DEF AccountsInit, NoAccount
<1>5. PasswordsCounted BY <1>1, <1>2, <1>3, <1>4 DEF PasswordsCounted, Repassing
<1> QED BY <1>1, <1>4, <1>5, AccountsAssumption DEF AccountNumbers, NoVault

LEMMA NumbersNextOK == NumbersInv /\ [AccountsNext]_accountVars => NumbersInv'
<1> SUFFICES ASSUME NumbersInv, [AccountsNext]_accountVars PROVE NumbersInv' OBVIOUS
<1>0. AccountsInv' BY AccountsNextOK DEF NumbersInv
<1>1. CASE \/ \E p \in Pages : Visit(p) \/ Open(p)
           \/ \E a \in Accounts : SignUp(a)
           \/ SessionEnds
  BY <1>0, <1>1, ClickNumbers
<1>2. CASE \/ \E a \in Accounts, k \in {"login", "passkey", "code"} : SignIn(a, k)
           \/ \E a \in Accounts : ForgotPassword(a) \/ ResetPassword(a)
  BY <1>0, <1>2, FormsNumbers
<1>3. CASE \/ SignOut \/ SaveProfile \/ DeleteAccount \/ RegenerateKey \/ VerifyMfa
           \/ DisableMfa \/ ChangePassword \/ RevokeSession
 <2>1. \E k \in SettingKinds \cup {"logout"} : ChangeSetting(k)
   BY <1>3 DEF SignOut, SaveProfile, DeleteAccount, RegenerateKey, VerifyMfa, DisableMfa,
               ChangePassword, RevokeSession, SettingKinds
 <2> QED BY <1>0, <2>1, FormsNumbers
<1>4. CASE \E c \in calls, away \in BOOLEAN : Served(c, away) BY <1>0, <1>4, ServedNumbers
<1>5. CASE \E c \in calls : CallRefused(c) BY <1>0, <1>5, RefusedNumbers
<1>6. CASE \E c \in calls : \/ SessionAnswered(c) \/ SignInAnswered(c) \/ PasskeyAnswered(c)
                            \/ SignUpAnswered(c) \/ SignOutAnswered(c)
                            \/ AccountDeleteAnswered(c) \/ ResetAnswered(c) \/ VerifyAnswered(c)
  BY <1>0, <1>6, AnswerNumbers
<1>7. CASE \E c \in calls : \/ ProfileAnswered(c) \/ MfaAnswered(c) \/ KeyAnswered(c)
                            \/ PasswordAnswered(c) \/ RevokeAnswered(c) \/ ForgotAnswered(c)
  BY <1>0, <1>7, SettingsNumbers
<1>8. CASE UNCHANGED accountVars
 <2>1. UNCHANGED <<accts, vault, recoveryKey, calls, clicks>> BY <1>8 DEF accountVars
 <2> QED BY <1>0, <2>1 DEF NumbersInv, AccountNumbers, PasswordsCounted, Unserved
<1> QED BY <1>1, <1>2, <1>3, <1>4, <1>5, <1>6, <1>7, <1>8 DEF AccountsNext

LEMMA InvTypesAccounts == NumbersInv => AccountsTypeOK
<1> SUFFICES ASSUME NumbersInv PROVE AccountsTypeOK OBVIOUS
<1> DEFINE Bounded == [there: BOOLEAN, key: 0 .. MaxClicks, recovery: 0 .. MaxClicks,
                       mfa: BOOLEAN, pwd: 0 .. MaxClicks]
<1>1. clicks \in 0 .. MaxClicks /\ recoveryKey \in 0 .. MaxClicks
  BY ClicksAre DEF NumbersInv, AccountNumbers
<1>2. ASSUME NEW a \in Accounts PROVE accts[a] \in Bounded
 <2>1. PICK r \in AccountRecords : r = accts[a] BY DEF NumbersInv, AccountsInv, AccountVarTypes
 <2>2. /\ accts[a].key <= clicks /\ accts[a].recovery <= clicks
       /\ accts[a].pwd + Unserved("password") + Unserved("reset") <= clicks
   BY DEF NumbersInv, AccountNumbers, PasswordsCounted
 <2>3. PICK p, q \in {0, 1} : p = Unserved("password") /\ q = Unserved("reset") BY DEF Unserved
 <2>4. r.key \in Nat /\ r.recovery \in Nat /\ r.pwd \in Nat BY DEF AccountRecords
 <2>5. r.key \in 0 .. MaxClicks /\ r.recovery \in 0 .. MaxClicks /\ r.pwd \in 0 .. MaxClicks
   BY <1>1, <2>1, <2>2, <2>3, <2>4, AccountsAssumption
 <2> QED BY <2>1, <2>5 DEF AccountRecords
<1>3. accts \in [Accounts -> Bounded] BY <1>2 DEF NumbersInv, AccountsInv, AccountVarTypes
<1>4. vault \in [who: Accounts \cup {Nobody}, key: 0 .. MaxClicks, pwd: 0 .. MaxClicks]
 <2>1. vault \in [who: Accounts \cup {Nobody}, key: Nat, pwd: Nat]
   BY DEF NumbersInv, AccountsInv, AccountVarTypes
 <2>2. vault.key <= clicks /\ vault.pwd = 0
   BY DEF NumbersInv, AccountsInv, VaultFollows, AccountNumbers
 <2>3. vault.key \in 0 .. MaxClicks /\ vault.pwd \in 0 .. MaxClicks
   BY <1>1, <2>1, <2>2, AccountsAssumption
 <2> QED BY <2>1, <2>3
<1>5. user \in [who: Accounts \cup {Nobody}, mfa: BOOLEAN]
 <2>1. user \in UserRecords BY DEF NumbersInv, AccountsInv, AccountVarTypes
 <2>2. CASE user = NoUser BY <2>2 DEF NoUser
 <2>3. CASE user \in [who: Accounts, mfa: BOOLEAN] BY <2>3
 <2> QED BY <2>1, <2>2, <2>3 DEF UserRecords
<1> QED BY <1>1, <1>3, <1>4, <1>5 DEF AccountsTypeOK, NumbersInv, AccountsInv, AccountVarTypes

-------------------------------------------------------------------------------
(* III. The contacts application. *)

ContactRecords == [id: ContactIds, key: Keys, payload: Payload]
SaveJobs       == [id: Id, payload: Payload, stored: Id]
DeleteJobs     == [id: ContactIds, taken: BOOLEAN]

\* The types of the variables, the requests included.
ContactVarTypes ==
    /\ stored \subseteq ContactRecords /\ records \subseteq ContactRecords
    /\ key \in Keys \cup {None} /\ keys \in 0 .. MaxKeys /\ made \in 0 .. MaxContacts
    /\ contacts = [i \in DOMAIN contacts |-> contacts[i]]
    /\ DOMAIN contacts \subseteq ContactIds
    /\ \A i \in DOMAIN contacts : contacts[i] \in Payload
    /\ listing \in {"none", "asked", "served", "done"}
    /\ selected \in Id /\ search \in Names
    /\ editor \in [open: BOOLEAN, id: Id, draft: Payload]
    /\ saving \in BOOLEAN /\ saveJobs \subseteq SaveJobs /\ deleteJobs \subseteq DeleteJobs
    /\ acts \in 0 .. MaxActs /\ raced \in BOOLEAN

\* The server numbers the records, each once.
RecordsNumbered ==
    /\ \A r \in stored : r.id <= made /\ \A s \in stored : s.id = r.id => s = r
    /\ \A r \in records : r.id <= made /\ \A s \in records : s.id = r.id => s = r
    /\ \A i \in DOMAIN contacts : i <= made
    /\ \A d \in deleteJobs : d.id <= made
    /\ \A j \in saveJobs : j.stored # None => j.stored <= made

\* Without the key there is neither a list nor an editor nor a request.
NothingBeforeKey ==
    /\ key = None => /\ DOMAIN contacts = {} /\ records = {} /\ listing = "none"
                     /\ ~editor.open /\ editor.id = None
                     /\ saveJobs = {} /\ deleteJobs = {}
    /\ key # None => listing # "none"

\* The record i, if there is one, is of the key of this browser.
Mine(i) == \A r \in stored : r.id = i => r.key = key

\* So is all that the page knows of.
KnownIsMine ==
    /\ \A r \in records : r.key = key => Mine(r.id)
    /\ \A i \in DOMAIN contacts : Mine(i)
    /\ \A j \in saveJobs : (j.id # None => Mine(j.id)) /\ (j.stored # None => Mine(j.stored))
    /\ \A d \in deleteJobs : Mine(d.id)
    /\ editor.id # None => Mine(editor.id)

\* A save at a time.
SavesAreOne == \A j \in saveJobs : saving /\ \A k \in saveJobs : k = j

\* Only the first row is primary; what is saved has no empty row, and its first is primary.
FirstOnly(emails) == \A k \in DOMAIN emails : emails[k].primary => k = 1

Whole(p) ==
    /\ FirstOnly(p.emails)
    /\ \A k \in DOMAIN p.emails : p.emails[k].value # 0
    /\ p.emails # <<>> => p.emails[1].primary

PayloadsWhole ==
    /\ \A r \in stored \cup records : Whole(r.payload)
    /\ \A i \in DOMAIN contacts : Whole(contacts[i])
    /\ \A j \in saveJobs : Whole(j.payload)
    /\ FirstOnly(editor.draft.emails)

\* Contacts with a change that the server has taken and the list has not.
Ahead == {j.stored : j \in saveJobs} \cup {d.id : d \in {x \in deleteJobs : x.taken}}

\* The list has contact i as the server does.
Agrees(i) ==
    /\ \A r \in stored : r.id = i /\ r.key = key => i \in DOMAIN contacts /\ contacts[i] = r.payload
    /\ i \in DOMAIN contacts => \E r \in stored : r.id = i /\ r.key = key

\* What is under way while nothing raced.
ChangesApart ==
    /\ listing # "done" => saveJobs = {} /\ deleteJobs = {}
    /\ listing = "served" => records = stored
    /\ listing = "done" => \A i \in ContactIds \ Ahead : Agrees(i)
    /\ \A j \in saveJobs :
          /\ j.stored # None =>
                /\ [id |-> j.stored, key |-> key, payload |-> j.payload] \in stored
                /\ j.id = None => j.stored \notin DOMAIN contacts
                /\ j.id # None => j.stored = j.id
          /\ \A d \in deleteJobs : d.id # j.id /\ d.id # j.stored
    /\ \A d \in deleteJobs : d.taken => \A r \in stored : r.id # d.id

ContactsInv ==
    /\ ContactVarTypes /\ RecordsNumbered /\ NothingBeforeKey /\ KnownIsMine
    /\ SavesAreOne /\ PayloadsWhole
    /\ ~raced => ChangesApart

Orphans == [kind: {"save", "delete"}, id: Id, key: Keys, payload: Payload]

\* What a page that was loaded again left under way is of the key it was sent with, as are
\* the records it names; no record is known by a number that is still to be given.
OrphansOK ==
    /\ orphans \subseteq Orphans
    /\ \A w \in orphans :
          /\ w.kind = "save" => Whole(w.payload)
          /\ w.id # None => w.id <= made /\ \A r \in stored : r.id = w.id => r.key = w.key
    /\ editor.id # None => editor.id <= made
    /\ \A j \in saveJobs : j.id # None => j.id <= made

\* A finite set of numbers has a k-th one, up to its size.
LEMMA NthExists ==
    ASSUME NEW S, NEW b \in Nat, S \subseteq 0 .. b, NEW h \in 1 .. Cardinality(S)
    PROVE  NthRow(S, h) \in S /\ Below(S, NthRow(S, h)) = h - 1
<1>1. NthRow(S, h) = NthIn(S, h) BY DEF NthRow, NthIn
<1> QED BY <1>1, NthInExists

-------------------------------------------------------------------------------
(* Payloads. *)

LEMMA PayloadFields ==
    ASSUME NEW p \in Payload
    PROVE  /\ p.name \in Names /\ p.emails \in Seq(Email) /\ p.extra \in BOOLEAN
           /\ Len(p.emails) \in Nat /\ DOMAIN p.emails = 1 .. Len(p.emails)
           /\ \A k \in DOMAIN p.emails : p.emails[k] \in Email
           /\ \A e \in Seq(Email) : /\ [p EXCEPT !.emails = e] \in Payload
                                    /\ [p EXCEPT !.emails = e].emails = e
  BY DEF Payload

\* What normalizePrimaryFields keeps has a value, and its first row is the one that is
\* primary.
LEMMA NormalizedRows ==
    ASSUME NEW emails \in Seq(Email), FirstOnly(emails)
    PROVE  LET out == NormalizedEmails(emails)
           IN  /\ out \in Seq(Email)
               /\ FirstOnly(out)
               /\ \A k \in DOMAIN out : out[k].value # 0
               /\ out # <<>> => out[1].primary
<1> DEFINE full == {k \in DOMAIN emails : emails[k].value # 0}
           n    == Cardinality(full)
           at(i) == NthRow(full, i)
           kept == [i \in 1 .. n |-> emails[at(i)]]
           out  == NormalizedEmails(emails)
<1>1. Len(emails) \in Nat /\ DOMAIN emails = 1 .. Len(emails) OBVIOUS
<1>2. full \subseteq 0 .. Len(emails) /\ full \subseteq DOMAIN emails BY <1>1
<1>3. n \in Nat
 <2>1. IsFiniteSet(0 .. Len(emails)) BY <1>1, FS_Interval
 <2> QED BY <1>2, <2>1, FS_Subset, FS_CardinalityType
<1>4. \A i \in 1 .. n : at(i) \in full /\ Below(full, at(i)) = i - 1 BY <1>1, <1>2, NthExists
<1>5. Below(full, 1) = 0
 <2>1. \A m \in full : ~(m < 1) BY <1>1
 <2>2. {m \in full : m < 1} = {} BY <2>1
 <2> QED BY <2>2, FS_EmptySet DEF Below
<1>6. \A i \in 1 .. n : at(i) = 1 => i = 1 BY <1>3, <1>4, <1>5
<1>7. \A k \in full : emails[k] \in Email /\ emails[k].value # 0 BY <1>1
<1>8. DOMAIN kept = 1 .. n /\ \A i \in 1 .. n : kept[i] = emails[at(i)] OBVIOUS
<1>9. out = [i \in DOMAIN kept |->
               [kept[i] EXCEPT !.primary =
                   i = 1 \/ (@ /\ \A j \in 1 .. i - 1 : ~kept[j].primary)]]
  BY DEF NormalizedEmails
<1> HIDE DEF full, n, at
<1>10. \A i \in 1 .. n : kept[i] \in Email /\ kept[i].value # 0 /\ (kept[i].primary => i = 1)
 <2> TAKE i \in 1 .. n
 <2>1. at(i) \in full /\ at(i) \in DOMAIN emails BY <1>2, <1>4
 <2>2. emails[at(i)].primary => at(i) = 1 BY <2>1 DEF FirstOnly
 <2> QED BY <1>6, <1>7, <1>8, <2>1, <2>2
<1> HIDE DEF kept, out
<1>11. DOMAIN out = 1 .. n BY <1>8, <1>9
<1>12. \A i \in 1 .. n : /\ out[i] \in Email /\ out[i].value # 0
                         /\ out[i].primary <=> i = 1
 <2> TAKE i \in 1 .. n
 <2>1. PICK b \in BOOLEAN : b <=> (i = 1 \/ (kept[i].primary /\ \A j \in 1 .. i - 1 : ~kept[j].primary))
   OBVIOUS
 <2>2. b <=> i = 1 BY <1>10, <2>1
 <2>3. out[i] = [kept[i] EXCEPT !.primary =
                  i = 1 \/ (kept[i].primary /\ \A j \in 1 .. i - 1 : ~kept[j].primary)]
   BY <1>8, <1>9
 <2>4. out[i] = [kept[i] EXCEPT !.primary = b] BY <2>1, <2>3
 <2> QED BY <1>10, <2>2, <2>4 DEF Email
<1>13. out = [i \in 1 .. n |-> out[i]] BY <1>8, <1>9, <1>11
<1>14. out \in Seq(Email) BY <1>3, <1>12, <1>13
<1>15. FirstOnly(out) /\ \A k \in DOMAIN out : out[k].value # 0 BY <1>11, <1>12 DEF FirstOnly
<1>16. out # <<>> => out[1].primary
 <2>1. out # <<>> => 1 \in 1 .. n BY <1>3, <1>11, <1>14
 <2> QED BY <1>12, <2>1
<1> QED BY <1>14, <1>15, <1>16 DEF out

\* What is saved has no empty row, and its first row is primary.
LEMMA NormalizedWhole ==
    ASSUME NEW p \in Payload, FirstOnly(p.emails)
    PROVE  Normalized(p) \in Payload /\ Whole(Normalized(p))
<1> DEFINE e == NormalizedEmails(p.emails)
<1>1. p.emails \in Seq(Email) BY PayloadFields
<1>2. /\ e \in Seq(Email) /\ FirstOnly(e)
      /\ \A k \in DOMAIN e : e[k].value # 0
      /\ e # <<>> => e[1].primary
  BY <1>1, NormalizedRows
<1>3. Normalized(p) = [p EXCEPT !.emails = e] BY DEF Normalized
<1> HIDE DEF e
<1>4. Normalized(p) \in Payload /\ Normalized(p).emails = e BY <1>2, <1>3, PayloadFields
<1> QED BY <1>2, <1>4 DEF Whole

\* A new contact has one row, which is empty and primary.
LEMMA EmptyPayloadOK == EmptyPayload \in Payload /\ FirstOnly(EmptyPayload.emails)
<1>1. [value |-> 0, primary |-> TRUE] \in Email BY DEF Email, Names
<1>2. <<[value |-> 0, primary |-> TRUE]>> \in Seq(Email) BY <1>1
<1> QED BY <1>2 DEF EmptyPayload, Payload, Names, FirstOnly

\* One primary row, or none.
LEMMA WholeHasOne ==
    ASSUME NEW p \in Payload, Whole(p), p.emails # <<>>
    PROVE  Cardinality({i \in DOMAIN p.emails : p.emails[i].primary}) = 1
<1>1. DOMAIN p.emails = 1 .. Len(p.emails) /\ Len(p.emails) \in Nat /\ Len(p.emails) # 0
  BY PayloadFields
<1>2. 1 \in DOMAIN p.emails BY <1>1
<1>3. {i \in DOMAIN p.emails : p.emails[i].primary} = {1} BY <1>2 DEF Whole, FirstOnly
<1> QED BY <1>3, FS_Singleton

-------------------------------------------------------------------------------
(* The page. *)

LEMMA ConstantsOfContacts ==
    /\ MaxContacts \in Nat /\ MaxKeys \in Nat \ {0} /\ MaxActs \in Nat
    /\ None \notin Nat /\ None \notin ContactIds /\ None \notin Keys /\ 0 \in Names
    /\ ContactIds \subseteq Nat /\ \A i \in Id : i # None => i \in ContactIds
  BY ContactsAssumption DEF ContactIds, Keys, Names, Id

\* The contacts that head a list are in it.
LEMMA HeadsAreListed == \A list : Heads(list) \subseteq DOMAIN list
  BY DEF Heads

LEMMA OnScreenIsListed == OnScreen \subseteq DOMAIN contacts
<1> DEFINE found == [i \in Found(contacts, search) |-> contacts[i]]
<1>1. DOMAIN found \subseteq DOMAIN contacts BY DEF Found
<1>2. Heads(found) \subseteq DOMAIN found BY HeadsAreListed
<1>3. OnScreen = IF selected \in DOMAIN contacts THEN {selected} ELSE Heads(found) BY DEF OnScreen
<1> HIDE DEF found
<1> QED BY <1>1, <1>2, <1>3

LEMMA SelectionIsListed ==
    ASSUME NEW list, NEW q, NEW s, NEW x \in Selection(list, q, s)
    PROVE  x \in DOMAIN list \cup {s}
<1> DEFINE found == [i \in Found(list, q) |-> list[i]]
<1>1. DOMAIN found \subseteq DOMAIN list BY DEF Found
<1>2. Heads(found) \subseteq DOMAIN found BY HeadsAreListed
<1>3. Selection(list, q, s) =
        IF s \in DOMAIN list THEN {s} ELSE IF Heads(found) = {} THEN {s} ELSE Heads(found)
  BY DEF Selection
<1> HIDE DEF found
<1> QED BY <1>1, <1>2, <1>3

\* What an editor may become: it follows contacts of the list, and its draft is one that the
\* dialog can have.
EditorOf(e, list) ==
    /\ e \in [open: BOOLEAN, id: Id, draft: Payload]
    /\ FirstOnly(e.draft.emails)
    /\ e.id \in DOMAIN list \cup {editor.id, None}

\* Searching, selecting and the editor change nothing of the list nor of what is under way.
ScreenStep ==
    /\ UNCHANGED <<stored, made, key, keys, contacts, listing, records, saving,
                   saveJobs, deleteJobs, raced>>
    /\ EditorOf(editor', contacts) /\ (key = None => editor' = editor)
    /\ selected' \in DOMAIN contacts \cup {selected}
    /\ search' \in Names /\ acts' \in 0 .. MaxActs

LEMMA ScreenKeeps == ContactsInv /\ ScreenStep => ContactsInv'
<1> SUFFICES ASSUME ContactsInv, ScreenStep PROVE ContactsInv' OBVIOUS
<1> USE DEF ScreenStep, EditorOf, ContactsInv
<1>1. ContactVarTypes' BY DEF ContactVarTypes, Id
<1>2. RecordsNumbered' /\ SavesAreOne' BY DEF RecordsNumbered, SavesAreOne
<1>3. NothingBeforeKey' BY DEF NothingBeforeKey
<1>4. KnownIsMine' BY DEF KnownIsMine, Mine
<1>5. PayloadsWhole' BY DEF PayloadsWhole
<1>6. ~raced' => ChangesApart' BY DEF ChangesApart, Ahead, Agrees
<1> QED BY <1>1, <1>2, <1>3, <1>4, <1>5, <1>6

LEMMA ActCounts == ContactVarTypes /\ Act => acts' \in 0 .. MaxActs
  BY ConstantsOfContacts DEF ContactVarTypes, Act

LEMMA SearchSelects ==
    ASSUME ContactsInv, (\E q \in Names : Search(q)) \/ \E i \in ContactIds : Select(i)
    PROVE  ScreenStep
<1>0. acts' \in 0 .. MaxActs BY ActCounts DEF Search, Select, ContactsInv
<1>e. EditorOf(editor, contacts) BY DEF EditorOf, ContactsInv, ContactVarTypes, PayloadsWhole
<1>1. ASSUME NEW q \in Names, Search(q) PROVE ScreenStep
 <2>1. selected' \in DOMAIN contacts \cup {selected} BY <1>1, SelectionIsListed DEF Search
 <2> QED BY <1>0, <1>e, <1>1, <2>1 DEF Search, ScreenStep, EditorOf
<1>2. ASSUME NEW i \in ContactIds, Select(i) PROVE ScreenStep
 <2>1. i \in DOMAIN contacts BY <1>2 DEF Select, Found
 <2> QED BY <1>0, <1>e, <1>2, <2>1 DEF Select, ScreenStep, EditorOf, ContactsInv, ContactVarTypes
<1> QED BY <1>1, <1>2

LEMMA EditorOpensCloses ==
    ASSUME ContactsInv, CloseEditor \/ \E i \in Id : OpenEditor(i)
    PROVE  ScreenStep
<1>0. acts' \in 0 .. MaxActs BY ActCounts DEF CloseEditor, OpenEditor, ContactsInv
<1>t. editor \in [open: BOOLEAN, id: Id, draft: Payload] /\ search \in Names
      /\ FirstOnly(editor.draft.emails) /\ None \in Id
  BY DEF ContactsInv, ContactVarTypes, PayloadsWhole, Id
<1>1. ASSUME CloseEditor PROVE ScreenStep
 <2>1. editor' = [editor EXCEPT !.open = FALSE, !.id = None] BY <1>1 DEF CloseEditor
 <2>2. EditorOf(editor', contacts) BY <1>t, <2>1 DEF EditorOf
 <2>3. key # None BY <1>1 DEF CloseEditor, ContactsInv, NothingBeforeKey
 <2> QED BY <1>0, <1>1, <1>t, <2>2, <2>3 DEF CloseEditor, ScreenStep
<1>2. ASSUME NEW i \in Id, OpenEditor(i) PROVE ScreenStep
 <2>1. i \in DOMAIN contacts \cup {None} BY <1>2, OnScreenIsListed DEF OpenEditor
 <2> DEFINE d == IF i = None THEN EmptyPayload ELSE contacts[i]
 <2>2. d \in Payload /\ FirstOnly(d.emails)
   BY <2>1, EmptyPayloadOK DEF ContactsInv, ContactVarTypes, PayloadsWhole, Whole
 <2>3. editor' = [open |-> TRUE, id |-> i, draft |-> d] BY <1>2 DEF OpenEditor
 <2> HIDE DEF d
 <2>4. EditorOf(editor', contacts) BY <2>1, <2>2, <2>3 DEF EditorOf
 <2> QED BY <1>0, <1>2, <1>t, <2>4 DEF OpenEditor, ScreenStep
<1> QED BY <1>1, <1>2

\* A draft with other rows, only the first of them primary if one is.
LEMMA EditingScreens ==
    ASSUME ContactsInv, NEW d \in Payload, FirstOnly(d.emails), Editing(d)
    PROVE  ScreenStep
<1>0. acts' \in 0 .. MaxActs BY ActCounts DEF Editing, ContactsInv
<1>t. editor \in [open: BOOLEAN, id: Id, draft: Payload] /\ search \in Names
  BY DEF ContactsInv, ContactVarTypes
<1>1. editor' = [editor EXCEPT !.draft = d] BY DEF Editing
<1>2. EditorOf(editor', contacts) BY <1>t, <1>1 DEF EditorOf
<1>3. key # None BY DEF Editing, ContactsInv, NothingBeforeKey
<1> QED BY <1>0, <1>t, <1>2, <1>3 DEF Editing, ScreenStep

LEMMA DraftsAreEdited ==
    ASSUME ContactsInv,
           \/ \E n \in Names : SetName(n)
           \/ SetExtra \/ AddRow
           \/ \E k \in 1 .. MaxEmails : RemoveRow(k) \/ \E v \in Names : SetRow(k, v)
    PROVE  ScreenStep
<1> DEFINE p == editor.draft
<1>1. p \in Payload /\ FirstOnly(p.emails) BY DEF ContactsInv, ContactVarTypes, PayloadsWhole
<1> HIDE DEF p
<1>2. /\ p.name \in Names /\ p.emails \in Seq(Email) /\ p.extra \in BOOLEAN
      /\ Len(p.emails) \in Nat /\ DOMAIN p.emails = 1 .. Len(p.emails)
      /\ \A k \in DOMAIN p.emails : p.emails[k] \in Email
  BY <1>1, PayloadFields
<1>3. ASSUME NEW e \in Seq(Email), FirstOnly(e), Editing([p EXCEPT !.emails = e])
      PROVE  ScreenStep
 <2>1. [p EXCEPT !.emails = e] \in Payload /\ [p EXCEPT !.emails = e].emails = e
   BY <1>1, PayloadFields
 <2> QED BY <1>3, <2>1, EditingScreens
<1>4. ASSUME NEW n \in Names, SetName(n) PROVE ScreenStep
 <2>1. PICK d : d = [p EXCEPT !.name = n] OBVIOUS
 <2>2. d \in Payload /\ d.emails = p.emails BY <1>1, <2>1 DEF Payload
 <2>3. Editing(d) BY <1>4, <2>1 DEF SetName, p
 <2> QED BY <1>1, <2>2, <2>3, EditingScreens
<1>5. ASSUME SetExtra PROVE ScreenStep
 <2>1. PICK b \in BOOLEAN : b <=> ~p.extra OBVIOUS
 <2>2. PICK d : d = [p EXCEPT !.extra = ~@] OBVIOUS
 <2>3. d = [p EXCEPT !.extra = b] BY <1>1, <1>2, <2>1, <2>2 DEF Payload
 <2>4. d \in Payload /\ d.emails = p.emails BY <1>1, <2>3 DEF Payload
 <2>5. Editing(d) BY <1>5, <2>2 DEF SetExtra, p
 <2> QED BY <1>1, <2>4, <2>5, EditingScreens
<1>6. ASSUME AddRow PROVE ScreenStep
 <2>1. EmptyEmail \in Email /\ ~EmptyEmail.primary BY DEF EmptyEmail, Email, Names
 <2>2. PICK e : e = Append(p.emails, EmptyEmail) OBVIOUS
 <2>3. e \in Seq(Email) BY <1>2, <2>1, <2>2
 <2>4. /\ DOMAIN e = 1 .. Len(p.emails) + 1
       /\ \A k \in DOMAIN e : e[k] = IF k \in DOMAIN p.emails THEN p.emails[k] ELSE EmptyEmail
   BY <1>2, <2>2
 <2>5. FirstOnly(e) BY <1>1, <2>1, <2>4 DEF FirstOnly
 <2>6. Editing([p EXCEPT !.emails = e]) BY <1>6, <2>2 DEF AddRow, p
 <2> QED BY <1>3, <2>3, <2>5, <2>6
<1>7. ASSUME NEW k, NEW v \in Names, SetRow(k, v) PROVE ScreenStep
 <2>1. k \in DOMAIN p.emails BY <1>7 DEF SetRow, p
 <2>2. PICK e : e = [p.emails EXCEPT ![k].value = v] OBVIOUS
 <2>3. /\ DOMAIN e = DOMAIN p.emails
       /\ \A x \in DOMAIN e : e[x] \in Email /\ e[x].primary = p.emails[x].primary
   BY <1>2, <2>2 DEF Email
 <2>4. e = [x \in 1 .. Len(p.emails) |-> e[x]] BY <1>2, <2>2
 <2>5. e \in Seq(Email)
  <3>1. Len(p.emails) \in Nat /\ \A x \in 1 .. Len(p.emails) : e[x] \in Email BY <1>2, <2>3
  <3> QED BY <2>4, <3>1
 <2>6. FirstOnly(e) BY <1>1, <2>3 DEF FirstOnly
 <2>7. PICK d : d = [p EXCEPT !.emails[k].value = v] OBVIOUS
 <2>8. d = [p EXCEPT !.emails = e] BY <2>2, <2>7
 <2>9. Editing(d) BY <1>7, <2>7 DEF SetRow, p
 <2> QED BY <1>3, <2>5, <2>6, <2>8, <2>9
<1>8. ASSUME NEW k, RemoveRow(k) PROVE ScreenStep
 <2>1. k \in DOMAIN p.emails BY <1>8 DEF RemoveRow, p
 <2>2. PICK e : e = RemoveAt(p.emails, k) OBVIOUS
 <2> DEFINE a == SubSeq(p.emails, 1, k - 1)
            b == SubSeq(p.emails, k + 1, Len(p.emails))
 <2>3. e = a \o b BY <2>2 DEF RemoveAt
 <2>4. /\ a \in Seq(Email) /\ Len(a) = k - 1
       /\ \A x \in 1 .. k - 1 : a[x] = p.emails[x]
   BY <1>2, <2>1
 <2>5. /\ b \in Seq(Email) /\ Len(b) = Len(p.emails) - k
       /\ \A x \in 1 .. Len(p.emails) - k : b[x] = p.emails[k + x]
   BY <1>2, <2>1
 <2> HIDE DEF a, b
 <2>6. /\ e \in Seq(Email) /\ DOMAIN e = 1 .. Len(p.emails) - 1
       /\ \A x \in DOMAIN e : e[x] = IF x <= k - 1 THEN a[x] ELSE b[x - (k - 1)]
   BY <1>2, <2>1, <2>3, <2>4, <2>5
 <2>7. \A x \in DOMAIN e : e[x] = IF x <= k - 1 THEN p.emails[x] ELSE p.emails[x + 1]
  <3> TAKE x \in DOMAIN e
  <3>1. x \in Nat /\ k \in Nat /\ 1 <= x /\ x <= Len(p.emails) - 1 BY <1>2, <2>1, <2>6
  <3>2. CASE x <= k - 1 BY <2>4, <2>6, <3>1, <3>2
  <3>3. CASE ~(x <= k - 1)
   <4>1. x - (k - 1) \in 1 .. Len(p.emails) - k /\ k + (x - (k - 1)) = x + 1 BY <1>2, <3>1, <3>3
   <4> QED BY <2>5, <2>6, <3>3, <4>1
  <3> QED BY <3>2, <3>3
 <2>8. FirstOnly(e)
  <3> SUFFICES ASSUME NEW x \in DOMAIN e, e[x].primary PROVE x = 1 BY DEF FirstOnly
  <3>1. x \in Nat /\ k \in Nat /\ 1 <= x /\ x <= Len(p.emails) - 1 BY <1>2, <2>1, <2>6
  <3>2. x \in DOMAIN p.emails /\ x + 1 \in DOMAIN p.emails /\ x + 1 # 1 BY <1>2, <3>1
  <3>3. x <= k - 1 BY <1>1, <2>7, <3>2 DEF FirstOnly
  <3> QED BY <1>1, <2>7, <3>2, <3>3 DEF FirstOnly
 <2>9. Editing([p EXCEPT !.emails = e]) BY <1>8, <2>2 DEF RemoveRow, p
 <2> QED BY <1>3, <2>6, <2>8, <2>9
<1> QED BY <1>4, <1>5, <1>6, <1>7, <1>8

-------------------------------------------------------------------------------
(* The session, the key and the load. *)

LEMMA ContactsInitOK == ContactsInit => ContactsInv
<1> SUFFICES ASSUME ContactsInit PROVE ContactsInv OBVIOUS
<1> USE DEF ContactsInit
<1>0. DOMAIN contacts = {} /\ contacts = [i \in DOMAIN contacts |-> contacts[i]] OBVIOUS
<1>n. keys \in 0 .. MaxKeys /\ made \in 0 .. MaxContacts /\ acts \in 0 .. MaxActs
  BY ConstantsOfContacts
<1>d. editor \in [open: BOOLEAN, id: Id, draft: Payload] BY EmptyPayloadOK DEF Id
<1>1. ContactVarTypes BY <1>0, <1>n, <1>d, ConstantsOfContacts DEF ContactVarTypes, Id
<1>2. RecordsNumbered /\ NothingBeforeKey /\ SavesAreOne
  BY <1>0 DEF RecordsNumbered, NothingBeforeKey, SavesAreOne
<1>3. KnownIsMine BY <1>0 DEF KnownIsMine
<1>4. PayloadsWhole BY <1>0, EmptyPayloadOK DEF PayloadsWhole
<1>5. ChangesApart BY DEF ChangesApart
<1> QED BY <1>1, <1>2, <1>3, <1>4, <1>5 DEF ContactsInv

LEMMA KeyArrives == ContactsInv /\ AuthConfirmed => ContactsInv'
<1> SUFFICES ASSUME ContactsInv, AuthConfirmed PROVE ContactsInv' OBVIOUS
<1> USE DEF AuthConfirmed, ContactsInv
<1>0. /\ DOMAIN contacts = {} /\ records = {} /\ editor.id = None
      /\ saveJobs = {} /\ deleteJobs = {}
  BY DEF NothingBeforeKey
<1>1. keys' \in 0 .. MaxKeys /\ key' \in Keys /\ key' # None
  BY ConstantsOfContacts DEF ContactVarTypes, Keys
<1>2. ContactVarTypes' BY <1>1 DEF ContactVarTypes
<1>3. RecordsNumbered' /\ NothingBeforeKey' /\ SavesAreOne'
  BY <1>0, <1>1 DEF RecordsNumbered, NothingBeforeKey, SavesAreOne
<1>4. KnownIsMine' BY <1>0 DEF KnownIsMine
<1>5. PayloadsWhole' BY DEF PayloadsWhole
<1>6. ChangesApart' BY <1>0 DEF ChangesApart
<1> QED BY <1>2, <1>3, <1>4, <1>5, <1>6

LEMMA StartsAgain == ContactsInv /\ Restart => ContactsInv'
<1> SUFFICES ASSUME ContactsInv, Restart PROVE ContactsInv' OBVIOUS
<1> USE DEF Restart
<1>0. DOMAIN contacts' = {} /\ contacts' = [i \in DOMAIN contacts' |-> contacts'[i]] OBVIOUS
<1>1. keys' \in 0 .. MaxKeys /\ acts' \in 0 .. MaxActs
  BY ConstantsOfContacts, ActCounts DEF ContactsInv, ContactVarTypes
<1>2. ContactVarTypes'
  BY <1>0, <1>1, ConstantsOfContacts, EmptyPayloadOK DEF ContactsInv, ContactVarTypes, Id
<1>3. RecordsNumbered' /\ NothingBeforeKey' /\ SavesAreOne'
  BY <1>0 DEF ContactsInv, RecordsNumbered, NothingBeforeKey, SavesAreOne
<1>4. KnownIsMine' BY <1>0 DEF KnownIsMine
<1>5. PayloadsWhole' BY <1>0, EmptyPayloadOK DEF ContactsInv, PayloadsWhole
<1>6. ChangesApart' BY DEF ChangesApart
<1> QED BY <1>2, <1>3, <1>4, <1>5, <1>6 DEF ContactsInv

LEMMA ListIsServed == ContactsInv /\ ListServed => ContactsInv'
<1> SUFFICES ASSUME ContactsInv, ListServed PROVE ContactsInv' OBVIOUS
<1> USE DEF ListServed, ContactsInv
<1>1. ContactVarTypes' BY DEF ContactVarTypes
<1>2. RecordsNumbered' /\ NothingBeforeKey' /\ SavesAreOne'
  BY DEF RecordsNumbered, NothingBeforeKey, SavesAreOne
<1>3. KnownIsMine'
 <2>1. \A r \in records' : r.key = key' => Mine(r.id)' BY DEF Mine, RecordsNumbered
 <2> QED BY <2>1 DEF KnownIsMine, Mine
<1>4. PayloadsWhole' BY DEF PayloadsWhole
<1>5. ~raced' => ChangesApart' BY DEF ChangesApart
<1> QED BY <1>1, <1>2, <1>3, <1>4, <1>5

\* The records of the key, each with its payload.
LEMMA DecryptedOnes ==
    ASSUME NEW rs, rs \subseteq ContactRecords,
           \A r, q \in rs : r.id = q.id => r = q
    PROVE  LET list == Decrypted(rs)
           IN  /\ list = [i \in DOMAIN list |-> list[i]]
               /\ \A i : i \in DOMAIN list <=> \E r \in rs : r.key = key /\ r.id = i
               /\ \A r \in rs : r.key = key => list[r.id] = r.payload
               /\ \A i \in DOMAIN list : \E r \in rs : r.key = key /\ r.id = i /\ list[i] = r.payload
<1> DEFINE ids == {r.id : r \in {q \in rs : q.key = key}}
           of(i) == CHOOSE r \in rs : r.id = i
           list == Decrypted(rs)
<1>1. list = [i \in ids |-> of(i).payload] BY DEF Decrypted
<1>2. \A r \in rs : of(r.id) = r
 <2> TAKE r \in rs
 <2>1. of(r.id) \in rs /\ of(r.id).id = r.id OBVIOUS
 <2> QED BY <2>1
<1>3. \A i : i \in ids <=> \E r \in rs : r.key = key /\ r.id = i OBVIOUS
<1> HIDE DEF ids, of, list
<1>4. \A r \in rs : r.key = key => list[r.id] = r.payload BY <1>1, <1>2, <1>3
<1>5. \A i \in ids : \E r \in rs : r.key = key /\ r.id = i /\ list[i] = r.payload BY <1>3, <1>4
<1> QED BY <1>1, <1>3, <1>4, <1>5 DEF list

\* The editor follows the contact it edits, which stays the same one.
LEMMA FollowedEditor ==
    ASSUME ContactsInv, NEW list,
           \A i \in DOMAIN list : list[i] \in Payload /\ Whole(list[i])
    PROVE  LET e == Followed(editor, contacts, list)
           IN  /\ e \in [open: BOOLEAN, id: Id, draft: Payload]
               /\ e.id = editor.id /\ e.open = editor.open
               /\ FirstOnly(e.draft.emails)
<1>1. editor \in [open: BOOLEAN, id: Id, draft: Payload] /\ FirstOnly(editor.draft.emails)
  BY DEF ContactsInv, ContactVarTypes, PayloadsWhole
<1>2. PICK p : p = IF editor.id \in DOMAIN list THEN list[editor.id] ELSE EmptyPayload OBVIOUS
<1>3. p \in Payload /\ FirstOnly(p.emails) BY <1>2, EmptyPayloadOK DEF Whole
<1>4. Followed(editor, contacts, list) =
        IF editor.open /\ editor.id \in DOMAIN list \cup DOMAIN contacts
        THEN [editor EXCEPT !.draft = p] ELSE editor
  BY <1>2 DEF Followed
<1> QED BY <1>1, <1>3, <1>4

LEMMA ListArrives == ContactsInv /\ ListAnswered => ContactsInv'
<1> SUFFICES ASSUME ContactsInv, ListAnswered PROVE ContactsInv' OBVIOUS
<1> DEFINE list == Decrypted(records)
<1>1. /\ listing = "served" /\ listing' = "done" /\ records' = {} /\ contacts' = list
      /\ selected' \in IF selected \in DOMAIN list THEN {selected}
                       ELSE IF DOMAIN list = {} THEN {None} ELSE Heads(list)
      /\ editor' = Followed(editor, contacts, list)
      /\ UNCHANGED <<stored, made, key, keys, search, saving, saveJobs, deleteJobs, acts, raced>>
  BY DEF ListAnswered
<1>2. /\ list = [i \in DOMAIN list |-> list[i]]
      /\ \A i : i \in DOMAIN list <=> \E r \in records : r.key = key /\ r.id = i
      /\ \A r \in records : r.key = key => list[r.id] = r.payload
      /\ \A i \in DOMAIN list : \E r \in records : r.key = key /\ r.id = i /\ list[i] = r.payload
 <2>1. records \subseteq ContactRecords /\ \A r, q \in records : r.id = q.id => r = q
   BY DEF ContactsInv, ContactVarTypes, RecordsNumbered
 <2> QED BY <2>1, DecryptedOnes
<1> HIDE DEF list
<1>3. DOMAIN list \subseteq ContactIds /\ \A i \in DOMAIN list : list[i] \in Payload /\ Whole(list[i])
  BY <1>2 DEF ContactsInv, ContactVarTypes, ContactRecords, PayloadsWhole
<1>4. selected' \in Id BY <1>1, <1>3, HeadsAreListed DEF ContactsInv, ContactVarTypes, Id
<1>5. /\ editor' \in [open: BOOLEAN, id: Id, draft: Payload]
      /\ editor'.id = editor.id /\ editor'.open = editor.open
      /\ FirstOnly(editor'.draft.emails)
  BY <1>1, <1>3, FollowedEditor
<1>6. ContactVarTypes' BY <1>1, <1>2, <1>3, <1>4, <1>5 DEF ContactsInv, ContactVarTypes
<1>7. RecordsNumbered' BY <1>1, <1>2 DEF ContactsInv, RecordsNumbered
<1>8. NothingBeforeKey' /\ SavesAreOne'
  BY <1>1, <1>2, <1>5 DEF ContactsInv, NothingBeforeKey, SavesAreOne
<1>9. KnownIsMine'
 <2>1. \A i \in DOMAIN list : Mine(i) BY <1>2 DEF ContactsInv, KnownIsMine
 <2> QED BY <1>1, <1>5, <2>1 DEF ContactsInv, KnownIsMine, Mine
<1>10. PayloadsWhole' BY <1>1, <1>3, <1>5 DEF ContactsInv, PayloadsWhole
<1>11. ASSUME ~raced' PROVE ChangesApart'
 <2>1. ChangesApart /\ records = stored /\ saveJobs = {} /\ deleteJobs = {}
   BY <1>1, <1>11 DEF ContactsInv, ChangesApart
 <2>2. ASSUME NEW i PROVE Agrees(i)' BY <1>1, <1>2, <2>1 DEF Agrees
 <2> QED BY <1>1, <2>1, <2>2 DEF ChangesApart
<1> QED BY <1>6, <1>7, <1>8, <1>9, <1>10, <1>11 DEF ContactsInv

LEMMA ListIsLost == ContactsInv /\ ListFails => ContactsInv'
<1> SUFFICES ASSUME ContactsInv, ListFails PROVE ContactsInv' OBVIOUS
<1> USE DEF ListFails, ContactsInv
<1>1. ContactVarTypes' BY DEF ContactVarTypes
<1>2. RecordsNumbered' /\ NothingBeforeKey' /\ SavesAreOne'
  BY DEF RecordsNumbered, NothingBeforeKey, SavesAreOne
<1>3. KnownIsMine' /\ PayloadsWhole' BY DEF KnownIsMine, Mine, PayloadsWhole
<1> QED BY <1>1, <1>2, <1>3

-------------------------------------------------------------------------------
(* Saving. *)

LEMMA SaveIsAsked == ContactsInv /\ SaveContact => ContactsInv'
<1> SUFFICES ASSUME ContactsInv, SaveContact PROVE ContactsInv' OBVIOUS
<1> DEFINE p == Normalized(editor.draft)
<1>1. p \in Payload /\ Whole(p) BY NormalizedWhole DEF ContactsInv, ContactVarTypes, PayloadsWhole
<1>2. PICK j : j = [id |-> editor.id, payload |-> p, stored |-> None] OBVIOUS
<1>3. /\ saveJobs = {} /\ saveJobs' = {j} /\ saving' = TRUE /\ editor.open /\ key # None
      /\ raced' = (raced \/ listing \in {"asked", "served"}
                          \/ \E d \in deleteJobs : d.id = editor.id)
      /\ UNCHANGED <<stored, made, key, keys, contacts, listing, records, selected, search,
                     editor, deleteJobs>>
  BY <1>2 DEF SaveContact, ContactsInv, SavesAreOne, NothingBeforeKey
<1> HIDE DEF p
<1>4. j \in SaveJobs /\ j.id = editor.id /\ j.payload = p /\ j.stored = None
  BY <1>1, <1>2 DEF SaveJobs, ContactsInv, ContactVarTypes, Id
<1>5. acts' \in 0 .. MaxActs BY ActCounts DEF SaveContact, ContactsInv
<1>6. ContactVarTypes' BY <1>3, <1>4, <1>5 DEF ContactsInv, ContactVarTypes
<1>7. RecordsNumbered' /\ NothingBeforeKey' /\ SavesAreOne'
  BY <1>3, <1>4 DEF ContactsInv, RecordsNumbered, NothingBeforeKey, SavesAreOne
<1>8. KnownIsMine' BY <1>3, <1>4 DEF ContactsInv, KnownIsMine, Mine
<1>9. PayloadsWhole' BY <1>1, <1>3, <1>4 DEF ContactsInv, PayloadsWhole
<1>10. ASSUME ~raced' PROVE ChangesApart'
 <2>1. ChangesApart /\ listing = "done" /\ \A d \in deleteJobs : d.id # editor.id
   BY <1>3, <1>10 DEF ContactsInv, NothingBeforeKey, ContactVarTypes
 <2>2. \A d \in deleteJobs : d.id \in ContactIds BY DEF ContactsInv, ContactVarTypes, DeleteJobs
 <2>3. None \notin ContactIds BY ConstantsOfContacts
 <2>4. \A i \in ContactIds \ Ahead' : Agrees(i)'
  <3>1. Ahead \subseteq Ahead' BY <1>3 DEF Ahead
  <3> QED BY <1>3, <2>1, <3>1 DEF ChangesApart, Agrees
 <2> QED BY <1>3, <1>4, <2>1, <2>2, <2>3, <2>4 DEF ChangesApart
<1> QED BY <1>6, <1>7, <1>8, <1>9, <1>10 DEF ContactsInv

\* The record of a save that is taken: a new one, or another version of the one that has its
\* id, of the key of this browser.
SaveMakes(j, i) ==
    \E r \in ContactRecords :
        /\ r.id = i /\ r.key = key /\ r.payload = j.payload
        /\ r \in stored'
        /\ \A s \in stored' : s = r \/ (s \in stored /\ s.id # i)
        /\ \A s \in stored : s.id # i => s \in stored'
        /\ saveJobs' = {[j EXCEPT !.stored = i]}
        /\ made' \in 0 .. MaxContacts /\ made' >= made /\ i <= made'
        /\ i # None /\ i \in ContactIds
        /\ j.id = None => i > made
        /\ j.id # None => i = j.id

LEMMA SaveMakesOne ==
    ASSUME ContactsInv, NEW j \in saveJobs, SaveTaken(j)
    PROVE  \E i : SaveMakes(j, i)
<1>1. /\ saveJobs = {j} /\ j \in SaveJobs /\ key \in Keys /\ j.stored = None
      /\ made \in 0 .. MaxContacts /\ stored \subseteq ContactRecords
  BY DEF ContactsInv, SavesAreOne, ContactVarTypes, NothingBeforeKey, SaveTaken
<1>2. j.payload \in Payload /\ j.id \in Id BY <1>1 DEF SaveJobs
<1>3. CASE j.id = None /\ made < MaxContacts /\ made' = made + 1
           /\ stored' = stored \cup {[id |-> made', key |-> key, payload |-> j.payload]}
           /\ saveJobs' = (saveJobs \ {j}) \cup {[j EXCEPT !.stored = made']}
 <2>1. PICK i : i = made + 1 OBVIOUS
 <2>2. i \in ContactIds /\ i > made /\ made' = i
   BY <1>1, <1>3, <2>1, ConstantsOfContacts DEF ContactIds
 <2>3. PICK r : r = [id |-> i, key |-> key, payload |-> j.payload] OBVIOUS
 <2>4. r \in ContactRecords /\ r.id = i /\ r.key = key /\ r.payload = j.payload
   BY <1>1, <1>2, <2>2, <2>3 DEF ContactRecords
 <2>5. stored' = stored \cup {r} /\ saveJobs' = {[j EXCEPT !.stored = i]} BY <1>1, <1>3, <2>2, <2>3
 <2>6. \A s \in stored : s.id # i
   BY <1>1, <2>2 DEF ContactsInv, RecordsNumbered, ContactRecords, ContactIds
 <2>7. made' \in 0 .. MaxContacts /\ made' >= made /\ i <= made' /\ i # None
   BY <1>1, <1>3, <2>1, <2>2, ConstantsOfContacts
 <2> QED BY <1>3, <2>2, <2>4, <2>5, <2>6, <2>7 DEF SaveMakes
<1>4. CASE /\ \E r \in stored : r.id = j.id
           /\ made' = made
           /\ stored' = {IF r.id = j.id THEN [r EXCEPT !.key = key, !.payload = j.payload]
                         ELSE r : r \in stored}
           /\ saveJobs' = (saveJobs \ {j}) \cup {[j EXCEPT !.stored = j.id]}
 <2>1. PICK q \in stored : q.id = j.id BY <1>4
 <2>2. q \in ContactRecords /\ \A s \in stored : s.id = q.id => s = q
   BY <1>1, <2>1 DEF ContactsInv, RecordsNumbered
 <2>3. PICK i : i = j.id OBVIOUS
 <2>4. i \in ContactIds /\ i # None /\ i <= made
   BY <2>1, <2>2, <2>3, ConstantsOfContacts DEF ContactsInv, RecordsNumbered, ContactRecords
 <2>5. PICK r : r = [q EXCEPT !.key = key, !.payload = j.payload] OBVIOUS
 <2>6. r \in ContactRecords /\ r.id = i /\ r.key = key /\ r.payload = j.payload
   BY <1>1, <1>2, <2>1, <2>2, <2>3, <2>5 DEF ContactRecords
 <2>7. r \in stored' BY <1>4, <2>1, <2>5
 <2>8. \A s \in stored' : s = r \/ (s \in stored /\ s.id # i) BY <1>4, <2>1, <2>2, <2>3, <2>5
 <2>9. \A s \in stored : s.id # i => s \in stored' BY <1>4, <2>3
 <2>10. saveJobs' = {[j EXCEPT !.stored = i]} BY <1>1, <1>4, <2>3
 <2>a. made' = made /\ made \in Nat
  <3>1. made' = made BY <1>4
  <3>2. made \in Nat BY <1>1, ConstantsOfContacts
  <3> QED BY <3>1, <3>2
 <2>11. made' \in 0 .. MaxContacts /\ made' >= made /\ i <= made' BY <1>1, <2>4, <2>a
 <2> QED BY <2>3, <2>4, <2>6, <2>7, <2>8, <2>9, <2>10, <2>11 DEF SaveMakes
<1> QED BY <1>3, <1>4 DEF SaveTaken

LEMMA SaveIsTaken ==
    ASSUME ContactsInv, NEW j \in saveJobs, SaveTaken(j)
    PROVE  ContactsInv'
<1>1. PICK i : SaveMakes(j, i) BY SaveMakesOne
<1>2. PICK r \in ContactRecords :
        /\ r.id = i /\ r.key = key /\ r.payload = j.payload
        /\ r \in stored'
        /\ \A s \in stored' : s = r \/ (s \in stored /\ s.id # i)
        /\ \A s \in stored : s.id # i => s \in stored'
        /\ saveJobs' = {[j EXCEPT !.stored = i]}
        /\ made' \in 0 .. MaxContacts /\ made' >= made /\ i <= made'
        /\ i # None /\ i \in ContactIds
        /\ j.id = None => i > made
        /\ j.id # None => i = j.id
  BY <1>1 DEF SaveMakes
<1>3. /\ j.stored = None /\ saveJobs = {j} /\ j \in SaveJobs /\ saving /\ key # None
      /\ UNCHANGED <<key, keys, contacts, listing, records, selected, search, editor, saving,
                     deleteJobs, acts, raced>>
  BY DEF SaveTaken, ContactsInv, SavesAreOne, ContactVarTypes, NothingBeforeKey
<1>4. PICK k : k = [j EXCEPT !.stored = i] OBVIOUS
<1>5. k \in SaveJobs /\ k.id = j.id /\ k.payload = j.payload /\ k.stored = i /\ saveJobs' = {k}
  BY <1>2, <1>3, <1>4 DEF SaveJobs, Id
<1>6. made \in Nat /\ made' \in Nat /\ i \in Nat
      /\ (\A s \in stored : s.id \in Nat) /\ (\A s \in records : s.id \in Nat)
      /\ (\A d \in deleteJobs : d.id \in Nat) /\ (\A x \in DOMAIN contacts : x \in Nat)
  BY <1>2, ConstantsOfContacts DEF ContactsInv, ContactVarTypes, ContactRecords, DeleteJobs
<1>7. ContactVarTypes' BY <1>2, <1>3, <1>5 DEF ContactsInv, ContactVarTypes
<1>8. RecordsNumbered'
 <2>1. \A s \in stored' : s.id <= made' /\ \A t \in stored' : t.id = s.id => t = s
   BY <1>2, <1>6 DEF ContactsInv, RecordsNumbered
 <2> QED BY <1>2, <1>3, <1>5, <1>6, <2>1 DEF ContactsInv, RecordsNumbered
<1>9. NothingBeforeKey' /\ SavesAreOne' BY <1>3, <1>5 DEF ContactsInv, NothingBeforeKey, SavesAreOne
<1>10. \A x : Mine(x) => Mine(x)' BY <1>2, <1>3 DEF Mine
<1>11. Mine(i)' BY <1>2, <1>3 DEF Mine
<1>12. KnownIsMine'
 <2>1. \A d \in deleteJobs : Mine(d.id)' BY <1>10 DEF ContactsInv, KnownIsMine
 <2>2. \A q \in records : q.key = key => Mine(q.id)' BY <1>10 DEF ContactsInv, KnownIsMine
 <2>3. \A x \in DOMAIN contacts : Mine(x)' BY <1>10 DEF ContactsInv, KnownIsMine
 <2>e. PICK e : e = editor.id OBVIOUS
 <2>4. e # None => Mine(e)' BY <1>10, <2>e DEF ContactsInv, KnownIsMine
 <2>5. (k.id # None => Mine(k.id)') /\ (k.stored # None => Mine(k.stored)') BY <1>2, <1>5, <1>11
 <2> QED BY <1>3, <1>5, <2>1, <2>2, <2>3, <2>e, <2>4, <2>5 DEF KnownIsMine, Mine
<1>13. PayloadsWhole' BY <1>2, <1>3, <1>5 DEF ContactsInv, PayloadsWhole
<1>14. ASSUME ~raced' PROVE ChangesApart'
 <2>1. ChangesApart /\ listing = "done" BY <1>3, <1>14 DEF ContactsInv, ChangesApart
 <2>2. \A d \in deleteJobs : d.id # j.id /\ d.id # i
  <3> TAKE d \in deleteJobs
  <3>1. d.id # j.id BY <2>1 DEF ChangesApart
  <3>2. d.id <= made /\ d.id \in Nat BY <1>6 DEF ContactsInv, RecordsNumbered
  <3>3. i > made \/ i = j.id BY <1>2
  <3> QED BY <1>6, <3>1, <3>2, <3>3
 <2>3. r = [id |-> k.stored, key |-> key, payload |-> k.payload] BY <1>2, <1>5 DEF ContactRecords
 <2>4. j.id = None => i \notin DOMAIN contacts BY <1>2, <1>6 DEF ContactsInv, RecordsNumbered
 <2>5. \A d \in deleteJobs : d.taken => \A s \in stored' : s.id # d.id
   BY <1>2, <2>1, <2>2 DEF ChangesApart
 <2>6. \A x \in ContactIds \ Ahead' : Agrees(x)'
  <3>1. Ahead' = {i} \cup {d.id : d \in {x \in deleteJobs : x.taken}} BY <1>3, <1>5 DEF Ahead
  <3>2. Ahead \subseteq {None} \cup Ahead' BY <1>3, <3>1 DEF Ahead
  <3>3. \A x \in ContactIds \ Ahead' : x # i /\ Agrees(x)
    BY <2>1, <3>1, <3>2, ConstantsOfContacts DEF ChangesApart
  <3> QED BY <1>2, <1>3, <3>3 DEF Agrees
 <2> QED BY <1>2, <1>3, <1>5, <2>1, <2>2, <2>3, <2>4, <2>5, <2>6 DEF ChangesApart
<1> QED BY <1>7, <1>8, <1>9, <1>12, <1>13, <1>14 DEF ContactsInv

LEMMA SaveArrives ==
    ASSUME ContactsInv, NEW j \in saveJobs, SaveAnswered(j)
    PROVE  ContactsInv'
<1> DEFINE list == With(contacts, j.stored, j.payload)
<1>1. /\ j.stored # None /\ saveJobs' = {} /\ saving' = FALSE /\ contacts' = list
      /\ selected' = j.stored /\ editor' = [editor EXCEPT !.open = FALSE, !.id = None]
      /\ UNCHANGED <<stored, made, key, keys, listing, records, search, deleteJobs, acts, raced>>
  BY DEF SaveAnswered, ContactsInv, SavesAreOne
<1>2. /\ DOMAIN list = DOMAIN contacts \cup {j.stored}
      /\ list = [x \in DOMAIN list |-> list[x]]
      /\ \A x \in DOMAIN list : list[x] = IF x = j.stored THEN j.payload ELSE contacts[x]
  BY DEF With
<1> HIDE DEF list
<1>3. /\ j \in SaveJobs /\ j.stored \in ContactIds /\ j.payload \in Payload /\ key # None
      /\ Whole(j.payload) /\ Mine(j.stored) /\ saveJobs = {j}
  BY <1>1, ConstantsOfContacts
     DEF ContactsInv, ContactVarTypes, SaveJobs, PayloadsWhole, KnownIsMine, NothingBeforeKey,
         SavesAreOne
<1>4. editor' \in [open: BOOLEAN, id: Id, draft: Payload] /\ editor'.id = None
      /\ editor'.draft = editor.draft
  BY <1>1 DEF ContactsInv, ContactVarTypes, Id
<1>5. ContactVarTypes' BY <1>1, <1>2, <1>3, <1>4 DEF ContactsInv, ContactVarTypes, Id
<1>6. j.stored <= made BY <1>1 DEF ContactsInv, RecordsNumbered
<1>7. RecordsNumbered' BY <1>1, <1>2, <1>6 DEF ContactsInv, RecordsNumbered
<1>8. NothingBeforeKey' /\ SavesAreOne' BY <1>1, <1>3 DEF ContactsInv, NothingBeforeKey, SavesAreOne
<1>9. KnownIsMine' BY <1>1, <1>2, <1>3, <1>4 DEF ContactsInv, KnownIsMine, Mine
<1>10. PayloadsWhole' BY <1>1, <1>2, <1>3, <1>4 DEF ContactsInv, PayloadsWhole
<1>11. ASSUME ~raced' PROVE ChangesApart'
 <2>1. ChangesApart /\ listing = "done" BY <1>1, <1>3, <1>11 DEF ContactsInv, ChangesApart
 <2>2. \A x \in ContactIds \ Ahead' : Agrees(x)'
  <3>1. Ahead \subseteq {j.stored} \cup Ahead' BY <1>1, <1>3 DEF Ahead
  <3>2. PICK q : q = [id |-> j.stored, key |-> key, payload |-> j.payload] OBVIOUS
  <3>3. q \in stored /\ q.id = j.stored /\ q.key = key /\ q.payload = j.payload
    BY <1>1, <2>1, <3>2 DEF ChangesApart
  <3>4. Agrees(j.stored)' BY <1>1, <1>2, <3>3 DEF Agrees, ContactsInv, RecordsNumbered
  <3>5. \A x \in ContactIds \ Ahead' : x # j.stored => Agrees(x) BY <2>1, <3>1 DEF ChangesApart
  <3> QED BY <1>1, <1>2, <3>4, <3>5 DEF Agrees
 <2> QED BY <1>1, <2>1, <2>2 DEF ChangesApart
<1> QED BY <1>5, <1>7, <1>8, <1>9, <1>10, <1>11 DEF ContactsInv

LEMMA SaveIsLost ==
    ASSUME ContactsInv, NEW j \in saveJobs, SaveFails(j)
    PROVE  ContactsInv'
<1>1. /\ saveJobs' = {} /\ saveJobs = {j} /\ saving' = FALSE
      /\ raced' = (raced \/ j.stored # None)
      /\ UNCHANGED <<stored, made, key, keys, contacts, listing, records, selected, search,
                     editor, deleteJobs, acts>>
  BY DEF SaveFails, ContactsInv, SavesAreOne
<1>2. ContactVarTypes' BY <1>1 DEF ContactsInv, ContactVarTypes
<1>3. RecordsNumbered' /\ NothingBeforeKey' /\ SavesAreOne'
  BY <1>1 DEF ContactsInv, RecordsNumbered, NothingBeforeKey, SavesAreOne
<1>4. KnownIsMine' /\ PayloadsWhole' BY <1>1 DEF ContactsInv, KnownIsMine, Mine, PayloadsWhole
<1>5. ASSUME ~raced' PROVE ChangesApart'
 <2>1. ChangesApart /\ listing = "done" /\ j.stored = None
   BY <1>1, <1>5 DEF ContactsInv, ChangesApart
 <2>2. Ahead \subseteq {None} \cup Ahead' BY <1>1, <2>1 DEF Ahead
 <2>3. \A x \in ContactIds \ Ahead' : Agrees(x)'
   BY <1>1, <2>1, <2>2, ConstantsOfContacts DEF ChangesApart, Agrees
 <2> QED BY <1>1, <2>1, <2>3 DEF ChangesApart
<1> QED BY <1>2, <1>3, <1>4, <1>5 DEF ContactsInv

-------------------------------------------------------------------------------
(* Deleting. *)

LEMMA DeleteIsAsked ==
    ASSUME ContactsInv, NEW i \in ContactIds, DeleteContact(i)
    PROVE  ContactsInv'
<1>1. PICK d : d = [id |-> i, taken |-> FALSE] OBVIOUS
<1>2. d \in DeleteJobs /\ d.id = i /\ ~d.taken BY <1>1 DEF DeleteJobs
<1>3. /\ deleteJobs' = deleteJobs \cup {d} /\ key # None
      /\ raced' = (raced \/ listing \in {"asked", "served"} \/ \E j \in saveJobs : j.id = i)
      /\ UNCHANGED <<stored, made, key, keys, contacts, listing, records, selected, search,
                     editor, saving, saveJobs>>
  BY <1>1 DEF DeleteContact
<1>4. i \in DOMAIN contacts BY OnScreenIsListed DEF DeleteContact
<1>5. acts' \in 0 .. MaxActs BY ActCounts DEF DeleteContact, ContactsInv
<1>6. ContactVarTypes' BY <1>2, <1>3, <1>5 DEF ContactsInv, ContactVarTypes
<1>7. RecordsNumbered' /\ NothingBeforeKey' /\ SavesAreOne'
  BY <1>2, <1>3, <1>4 DEF ContactsInv, RecordsNumbered, NothingBeforeKey, SavesAreOne
<1>8. KnownIsMine' BY <1>2, <1>3, <1>4 DEF ContactsInv, KnownIsMine, Mine
<1>9. PayloadsWhole' BY <1>3 DEF ContactsInv, PayloadsWhole
<1>10. ASSUME ~raced' PROVE ChangesApart'
 <2>1. ChangesApart /\ listing = "done" /\ \A j \in saveJobs : j.id # i
   BY <1>3, <1>10 DEF ContactsInv, NothingBeforeKey, ContactVarTypes
 <2>2. Ahead' = Ahead BY <1>2, <1>3 DEF Ahead
 <2>3. \A x \in ContactIds \ Ahead' : Agrees(x)' BY <1>3, <2>1, <2>2 DEF ChangesApart, Agrees
 <2>4. \A j \in saveJobs : j.stored # i BY <1>4, <2>1, ConstantsOfContacts DEF ChangesApart
 <2> QED BY <1>2, <1>3, <2>1, <2>3, <2>4 DEF ChangesApart
<1> QED BY <1>6, <1>7, <1>8, <1>9, <1>10 DEF ContactsInv

LEMMA DeleteIsTaken ==
    ASSUME ContactsInv, NEW d \in deleteJobs, DeleteTaken(d)
    PROVE  ContactsInv'
<1>1. PICK e : e = [d EXCEPT !.taken = TRUE] OBVIOUS
<1>2. d \in DeleteJobs /\ e \in DeleteJobs /\ e.id = d.id /\ e.taken /\ ~d.taken
  BY <1>1 DEF DeleteJobs, ContactsInv, ContactVarTypes, DeleteTaken
<1>3. /\ deleteJobs' = (deleteJobs \ {d}) \cup {e}
      /\ stored' = {r \in stored : r.id # d.id}
      /\ UNCHANGED <<made, key, keys, contacts, listing, records, selected, search, editor,
                     saving, saveJobs, acts, raced>>
  BY <1>1 DEF DeleteTaken
<1>4. ContactVarTypes' BY <1>2, <1>3 DEF ContactsInv, ContactVarTypes
<1>5. RecordsNumbered' /\ NothingBeforeKey' /\ SavesAreOne'
  BY <1>2, <1>3 DEF ContactsInv, RecordsNumbered, NothingBeforeKey, SavesAreOne
<1>6. KnownIsMine' BY <1>2, <1>3 DEF ContactsInv, KnownIsMine, Mine
<1>7. PayloadsWhole' BY <1>3 DEF ContactsInv, PayloadsWhole
<1>8. ASSUME ~raced' PROVE ChangesApart'
 <2>1. ChangesApart /\ listing = "done" BY <1>3, <1>8 DEF ContactsInv, ChangesApart
 <2>2. Ahead' = Ahead \cup {d.id} BY <1>2, <1>3 DEF Ahead
 <2>3. \A x \in ContactIds \ Ahead' : Agrees(x)' BY <1>3, <2>1, <2>2 DEF ChangesApart, Agrees
 <2>4. \A j \in saveJobs : /\ j.stored # d.id /\ j.id # d.id
                           /\ [id |-> j.stored, key |-> key, payload |-> j.payload].id = j.stored
   BY <2>1 DEF ChangesApart
 <2>5. \A j \in saveJobs :
           j.stored # None =>
               [id |-> j.stored, key |-> key, payload |-> j.payload] \in stored'
   BY <1>3, <2>1, <2>4 DEF ChangesApart
 <2>6. \A j \in saveJobs : \A x \in deleteJobs' : x.id # j.id /\ x.id # j.stored
   BY <1>2, <1>3, <2>1 DEF ChangesApart
 <2>7. \A x \in deleteJobs' : x.taken => \A r \in stored' : r.id # x.id
   BY <1>2, <1>3, <2>1 DEF ChangesApart
 <2> QED BY <1>3, <2>1, <2>3, <2>5, <2>6, <2>7 DEF ChangesApart
<1> QED BY <1>4, <1>5, <1>6, <1>7, <1>8 DEF ContactsInv

LEMMA ContactDeleteArrives ==
    ASSUME ContactsInv, NEW d \in deleteJobs, DeleteAnswered(d)
    PROVE  ContactsInv'
<1> DEFINE list == Without(contacts, d.id)
<1>1. /\ d.taken /\ deleteJobs' = deleteJobs \ {d} /\ contacts' = list
      /\ selected' \in IF selected # d.id THEN {selected}
                       ELSE IF DOMAIN list = {} THEN {None} ELSE Heads(list)
      /\ editor' = IF d.id = editor.id THEN Followed(editor, contacts, list) ELSE editor
      /\ UNCHANGED <<stored, made, key, keys, listing, records, search, saving, saveJobs,
                     acts, raced>>
  BY DEF DeleteAnswered
<1>2. /\ DOMAIN list = DOMAIN contacts \ {d.id}
      /\ list = [x \in DOMAIN list |-> list[x]]
      /\ \A x \in DOMAIN list : list[x] = contacts[x]
  BY DEF Without
<1> HIDE DEF list
<1>3. DOMAIN list \subseteq ContactIds /\ \A i \in DOMAIN list : list[i] \in Payload /\ Whole(list[i])
  BY <1>2 DEF ContactsInv, ContactVarTypes, PayloadsWhole
<1>4. selected' \in Id BY <1>1, <1>3, HeadsAreListed DEF ContactsInv, ContactVarTypes, Id
<1>5. /\ editor' \in [open: BOOLEAN, id: Id, draft: Payload]
      /\ editor'.id = editor.id /\ editor'.open = editor.open
      /\ FirstOnly(editor'.draft.emails)
  BY <1>1, <1>3, FollowedEditor DEF ContactsInv, ContactVarTypes, PayloadsWhole
<1>6. ContactVarTypes' BY <1>1, <1>2, <1>3, <1>4, <1>5 DEF ContactsInv, ContactVarTypes
<1>7. RecordsNumbered' BY <1>1, <1>2 DEF ContactsInv, RecordsNumbered
<1>8. NothingBeforeKey' /\ SavesAreOne'
  BY <1>1, <1>2, <1>5 DEF ContactsInv, NothingBeforeKey, SavesAreOne
<1>9. KnownIsMine' BY <1>1, <1>2, <1>5 DEF ContactsInv, KnownIsMine, Mine
<1>10. PayloadsWhole' BY <1>1, <1>3, <1>5 DEF ContactsInv, PayloadsWhole
<1>11. ASSUME ~raced' PROVE ChangesApart'
 <2>1. ChangesApart /\ listing = "done" BY <1>1, <1>11 DEF ContactsInv, ChangesApart
 <2>2. Ahead \subseteq Ahead' \cup {d.id} BY <1>1 DEF Ahead
 <2>3. \A r \in stored : r.id # d.id BY <1>1, <2>1 DEF ChangesApart
 <2>4. \A x \in ContactIds \ Ahead' : Agrees(x)'
  <3> TAKE x \in ContactIds \ Ahead'
  <3>1. CASE x = d.id BY <1>1, <1>2, <2>3, <3>1 DEF Agrees
  <3>2. CASE x # d.id BY <1>1, <1>2, <2>1, <2>2, <3>2 DEF ChangesApart, Agrees
  <3> QED BY <3>1, <3>2
 <2> QED BY <1>1, <1>2, <2>1, <2>4 DEF ChangesApart
<1> QED BY <1>6, <1>7, <1>8, <1>9, <1>10, <1>11 DEF ContactsInv

LEMMA DeleteIsLost ==
    ASSUME ContactsInv, NEW d \in deleteJobs, DeleteFails(d)
    PROVE  ContactsInv'
<1>1. /\ deleteJobs' = deleteJobs \ {d} /\ raced' = (raced \/ d.taken)
      /\ UNCHANGED <<stored, made, key, keys, contacts, listing, records, selected, search,
                     editor, saving, saveJobs, acts>>
  BY DEF DeleteFails
<1>2. ContactVarTypes'
 <2>1. d.taken \in BOOLEAN BY DEF ContactsInv, ContactVarTypes, DeleteJobs
 <2>2. raced' \in BOOLEAN BY <1>1, <2>1 DEF ContactsInv, ContactVarTypes
 <2> QED BY <1>1, <2>2 DEF ContactsInv, ContactVarTypes
<1>3. RecordsNumbered' /\ NothingBeforeKey' /\ SavesAreOne'
  BY <1>1 DEF ContactsInv, RecordsNumbered, NothingBeforeKey, SavesAreOne
<1>4. KnownIsMine' /\ PayloadsWhole' BY <1>1 DEF ContactsInv, KnownIsMine, Mine, PayloadsWhole
<1>5. ASSUME ~raced' PROVE ChangesApart'
 <2>1. ChangesApart /\ listing = "done" /\ ~d.taken BY <1>1, <1>5 DEF ContactsInv, ChangesApart
 <2>2. Ahead' = Ahead BY <1>1, <2>1 DEF Ahead
 <2>3. \A x \in ContactIds \ Ahead' : Agrees(x)' BY <1>1, <2>1, <2>2 DEF ChangesApart, Agrees
 <2> QED BY <1>1, <2>1, <2>3 DEF ChangesApart
<1> QED BY <1>2, <1>3, <1>4, <1>5 DEF ContactsInv

-------------------------------------------------------------------------------
(* What a page that was loaded again left under way. *)

\* A record that is stored after a step is a new one, or has the key it had.
StoredOnwards ==
    /\ made' \in 0 .. MaxContacts /\ made' >= made
    /\ \A s \in stored' : s.id > made \/ \E r \in stored : r.id = s.id /\ r.key = s.key

\* The steps of the page: an editor and a save are of a contact that the page knows.
KnownOnwards ==
    /\ editor'.id \in {editor.id, None} \cup DOMAIN contacts
    /\ \A j \in saveJobs' : j.id = editor.id \/ \E k \in saveJobs : j.id = k.id

LEMMA OrphansInitOK == ContactsInit => OrphansOK
  BY DEF ContactsInit, OrphansOK

LEMMA NumbersOfContacts ==
    ASSUME ContactsInv
    PROVE  /\ made \in Nat /\ made \in 0 .. MaxContacts
           /\ \A r \in stored : r.id \in Nat /\ r.id <= made /\ r.id # None
           /\ \A i \in DOMAIN contacts : i \in Nat /\ i <= made
           /\ \A j \in saveJobs : j \in SaveJobs
           /\ editor \in [open: BOOLEAN, id: Id, draft: Payload]
  BY ConstantsOfContacts DEF ContactsInv, ContactVarTypes, RecordsNumbered, ContactRecords

\* The page changes records of its own only, and gives new ones the next number.
LEMMA PageStoresOnwards ==
    ASSUME ContactsInv, [ContactsNext]_conVars, ~\E w \in orphans : OrphanTaken(w)
    PROVE  StoredOnwards
<1>1. CASE \E j \in saveJobs : SaveTaken(j)
 <2>1. PICK j \in saveJobs : SaveTaken(j) BY <1>1
 <2>2. PICK i : SaveMakes(j, i) BY <2>1, SaveMakesOne
 <2>3. j.id # None => \E r \in stored : r.id = j.id /\ r.key = key
   BY <2>1 DEF SaveTaken, ContactsInv, KnownIsMine, Mine
 <2> QED BY <2>2, <2>3 DEF SaveMakes, StoredOnwards
<1>2. CASE \E d \in deleteJobs : DeleteTaken(d)
  BY <1>2, NumbersOfContacts DEF DeleteTaken, StoredOnwards
<1>3. CASE UNCHANGED <<stored, made>> BY <1>3, NumbersOfContacts DEF StoredOnwards
<1>4. (\E j \in saveJobs : SaveTaken(j)) \/ (\E d \in deleteJobs : DeleteTaken(d))
        \/ UNCHANGED <<stored, made>>
  BY DEF ContactsNext, conVars, AuthConfirmed, Restart, ListServed, ListAnswered, ListFails,
         Search, SetName, Select, DeleteContact, OpenEditor, CloseEditor, SetExtra, AddRow,
         SaveContact, RemoveRow, SetRow, Editing, SaveAnswered, SaveFails, DeleteAnswered,
         DeleteFails
<1> QED BY <1>1, <1>2, <1>3, <1>4

LEMMA FollowedId ==
    ASSUME NEW e \in [open: BOOLEAN, id: Id, draft: Payload], NEW old, NEW new
    PROVE  Followed(e, old, new).id = e.id
  BY DEF Followed

LEMMA PageKnowsOnwards ==
    ASSUME ContactsInv, [ContactsNext]_conVars, ~\E w \in orphans : OrphanTaken(w)
    PROVE  KnownOnwards /\ (orphans' = orphans \/ Restart)
<1> USE NumbersOfContacts DEF KnownOnwards
<1>1. CASE (\E q \in Names : Search(q)) \/ (\E i \in ContactIds : Select(i))
           \/ CloseEditor \/ (\E i \in Id : OpenEditor(i))
           \/ (\E n \in Names : SetName(n)) \/ SetExtra \/ AddRow
           \/ \E k \in 1 .. MaxEmails : RemoveRow(k) \/ \E v \in Names : SetRow(k, v)
 <2>1. ScreenStep BY <1>1, SearchSelects, EditorOpensCloses, DraftsAreEdited
 <2>2. orphans' = orphans
   BY <1>1 DEF Search, Select, CloseEditor, OpenEditor, SetName, SetExtra, AddRow, RemoveRow,
      SetRow, Editing
 <2> QED BY <2>1, <2>2 DEF ScreenStep, EditorOf
<1>2. CASE AuthConfirmed \/ ListServed \/ ListFails
           \/ (\E i \in ContactIds : DeleteContact(i))
           \/ (\E d \in deleteJobs : DeleteTaken(d) \/ DeleteFails(d)) \/ UNCHANGED conVars
  BY <1>2 DEF AuthConfirmed, ListServed, ListFails, DeleteContact, DeleteTaken, DeleteFails, conVars
<1>3. CASE Restart BY <1>3 DEF Restart
<1>4. CASE ListAnswered \/ \E d \in deleteJobs : DeleteAnswered(d)
 <2>1. editor'.id = editor.id BY <1>4, FollowedId DEF ListAnswered, DeleteAnswered
 <2>2. saveJobs' = saveJobs /\ orphans' = orphans BY <1>4 DEF ListAnswered, DeleteAnswered
 <2> QED BY <2>1, <2>2
<1>5. CASE SaveContact BY <1>5 DEF SaveContact
<1>6. CASE \E j \in saveJobs : SaveTaken(j)
 <2>1. PICK j \in saveJobs : SaveTaken(j) BY <1>6
 <2>2. \A i : [j EXCEPT !.stored = i].id = j.id BY DEF SaveJobs
 <2> QED BY <2>1, <2>2 DEF SaveTaken
<1>7. CASE \E j \in saveJobs : SaveAnswered(j) \/ SaveFails(j) BY <1>7 DEF SaveAnswered, SaveFails
<1> QED BY <1>1, <1>2, <1>3, <1>4, <1>5, <1>6, <1>7 DEF ContactsNext

\* What a page leaves is numbered, and of its key.
LEMMA OrphansGoOn ==
    ASSUME ContactsInv, OrphansOK, [ContactsNext]_conVars, ~\E w \in orphans : OrphanTaken(w)
    PROVE  OrphansOK'
<1>1. /\ StoredOnwards /\ KnownOnwards /\ made \in Nat /\ made' \in Nat /\ made' >= made
      /\ orphans' = orphans \/ Restart
  BY PageStoresOnwards, PageKnowsOnwards, NumbersOfContacts, ConstantsOfContacts DEF StoredOnwards
<1>2. \A i : i \in Nat /\ i <= made => i <= made' BY <1>1
<1>3. editor.id # None => editor.id \in Nat /\ editor.id <= made
  BY NumbersOfContacts, ConstantsOfContacts DEF OrphansOK
<1>4. \A j \in saveJobs : j.id # None => j.id \in Nat /\ j.id <= made
  BY NumbersOfContacts, ConstantsOfContacts DEF OrphansOK, SaveJobs
<1>5. /\ editor'.id # None => editor'.id <= made'
      /\ \A j \in saveJobs' : j.id # None => j.id <= made'
  BY <1>1, <1>2, <1>3, <1>4, NumbersOfContacts DEF KnownOnwards
<1>6. \A w \in orphans : w \in Orphans /\ (w.id # None => w.id \in Nat)
  BY ConstantsOfContacts DEF OrphansOK, Orphans
<1>7. ASSUME NEW w \in orphans, w.id # None
      PROVE  w.id <= made' /\ \A s \in stored' : s.id = w.id => s.key = w.key
 <2>1. w.id \in Nat /\ w.id <= made /\ \A r \in stored : r.id = w.id => r.key = w.key
   BY <1>6, <1>7 DEF OrphansOK
 <2>2. ~(w.id > made) BY <1>1, <2>1
 <2> QED BY <1>1, <1>2, <2>1, <2>2 DEF StoredOnwards
<1>8. CASE orphans' = orphans BY <1>5, <1>7, <1>8 DEF OrphansOK
<1>9. CASE Restart
 <2>1. stored' = stored /\ made' = made /\ (saveJobs # {} \/ deleteJobs # {} => key \in Keys)
   BY <1>9 DEF Restart, ContactsInv, ContactVarTypes, NothingBeforeKey
 <2>2. ASSUME NEW w \in orphans', w \notin orphans
       PROVE  /\ w \in Orphans /\ (w.kind = "save" => Whole(w.payload))
              /\ w.id # None => w.id <= made' /\ \A r \in stored' : r.id = w.id => r.key = w.key
  <3>1. CASE \E j \in saveJobs : w = Orphan("save", j.id, j.payload)
   <4>1. PICK j \in saveJobs : w = Orphan("save", j.id, j.payload) BY <3>1
   <4>2. /\ w.kind = "save" /\ w.id = j.id /\ w.key = key /\ w.payload = j.payload
         /\ w \in Orphans
     BY <2>1, <4>1, NumbersOfContacts DEF Orphan, Orphans, SaveJobs
   <4>3. Whole(w.payload) /\ (w.id # None => Mine(w.id) /\ w.id <= made)
     BY <1>4, <4>2 DEF ContactsInv, PayloadsWhole, KnownIsMine
   <4> QED BY <2>1, <4>2, <4>3 DEF Mine
  <3>2. CASE \E d \in deleteJobs : w = Orphan("delete", d.id, EmptyPayload)
   <4>1. PICK d \in deleteJobs : w = Orphan("delete", d.id, EmptyPayload) BY <3>2
   <4>2. d.id \in ContactIds /\ d.id <= made /\ Mine(d.id)
     BY DEF ContactsInv, ContactVarTypes, DeleteJobs, RecordsNumbered, KnownIsMine
   <4>3. w.kind = "delete" /\ w.id = d.id /\ w.key = key /\ w \in Orphans
     BY <2>1, <4>1, <4>2, EmptyPayloadOK DEF Orphan, Orphans, Id
   <4> QED BY <2>1, <4>2, <4>3 DEF Mine
  <3> QED BY <1>9, <2>2, <3>1, <3>2 DEF Restart
 <2> QED BY <1>5, <1>7, <2>1, <2>2 DEF OrphansOK
<1> QED BY <1>1, <1>8, <1>9

\* A change of a page that is gone makes records as the page itself would have.
LEMMA OrphanStores ==
    ASSUME ContactsInv, OrphansOK, NEW w \in orphans, OrphanTaken(w)
    PROVE  /\ StoredOnwards /\ stored' \subseteq ContactRecords
           /\ \A s \in stored' : /\ s.id <= made' /\ Whole(s.payload)
                                 /\ \A t \in stored' : t.id = s.id => t = s
<1>1. /\ w \in Orphans /\ stored \subseteq ContactRecords
      /\ \A s \in stored : Whole(s.payload) /\ \A t \in stored : t.id = s.id => t = s
      /\ w.kind = "save" => Whole(w.payload)
      /\ w.id # None => \A r \in stored : r.id = w.id => r.key = w.key
  BY DEF ContactsInv, ContactVarTypes, RecordsNumbered, PayloadsWhole, OrphansOK
<1> USE NumbersOfContacts
<1>2. CASE w.kind = "delete" /\ made' = made /\ stored' = {r \in stored : r.id # w.id}
  BY <1>1, <1>2 DEF StoredOnwards
<1>3. CASE /\ w.kind = "save" /\ made < MaxContacts /\ made' = made + 1
           /\ stored' = stored \cup {[id |-> made', key |-> w.key, payload |-> w.payload]}
 <2>1. PICK n \in Nat : n = made + 1 OBVIOUS
 <2>2. PICK r : r = [id |-> n, key |-> w.key, payload |-> w.payload] OBVIOUS
 <2>3. made' = n /\ n \in 0 .. MaxContacts /\ n \in ContactIds /\ n > made /\ n >= made
   BY <1>3, <2>1, ConstantsOfContacts DEF ContactIds
 <2>4. r \in ContactRecords /\ r.id = n /\ r.payload = w.payload
   BY <1>1, <2>2, <2>3 DEF ContactRecords, Orphans
 <2>5. stored' = stored \cup {r} /\ \A s \in stored : s.id # n /\ s.id <= n
   BY <1>3, <2>1, <2>2, <2>3
 <2> QED BY <1>1, <1>3, <2>1, <2>3, <2>4, <2>5 DEF StoredOnwards
<1>4. CASE /\ w.kind = "save" /\ made' = made /\ \E r \in stored : r.id = w.id
           /\ stored' = {IF r.id = w.id THEN [r EXCEPT !.key = w.key, !.payload = w.payload]
                         ELSE r : r \in stored}
 <2>1. PICK q \in stored : q.id = w.id BY <1>4
 <2>2. PICK r : r = [q EXCEPT !.key = w.key, !.payload = w.payload] OBVIOUS
 <2>3. r \in ContactRecords /\ r.id = w.id /\ r.payload = w.payload /\ r.key = w.key
   BY <1>1, <2>1, <2>2 DEF ContactRecords, Orphans
 <2>4. \A s \in stored' : s = r \/ (s \in stored /\ s.id # w.id) BY <1>1, <1>4, <2>1, <2>2
 <2>5. q.key = w.key /\ q.id <= made /\ made' = made BY <1>1, <1>4, <2>1
 <2>6. StoredOnwards
  <3>1. \A t \in stored' : \E u \in stored : u.id = t.id /\ u.key = t.key
    BY <2>1, <2>3, <2>4, <2>5
  <3> QED BY <2>5, <3>1 DEF StoredOnwards
 <2>7. \A s \in stored' : s \in ContactRecords /\ s.id <= made' /\ Whole(s.payload)
   BY <1>1, <1>4, <2>1, <2>3, <2>4, <2>5
 <2>8. \A s \in stored' : \A t \in stored' : t.id = s.id => t = s BY <1>1, <2>3, <2>4
 <2> QED BY <2>6, <2>7, <2>8
<1> QED BY <1>2, <1>3, <1>4 DEF OrphanTaken

LEMMA OrphanIsTaken ==
    ASSUME ContactsInv, OrphansOK, NEW w \in orphans, OrphanTaken(w)
    PROVE  ContactsInv' /\ OrphansOK'
<1>1. /\ StoredOnwards /\ stored' \subseteq ContactRecords
      /\ \A s \in stored' : /\ s.id <= made' /\ Whole(s.payload)
                            /\ \A t \in stored' : t.id = s.id => t = s
  BY OrphanStores
<1>2. /\ orphans' \subseteq orphans /\ raced' = (raced \/ listing \in {"served", "done"})
      /\ UNCHANGED <<key, keys, contacts, listing, records, selected, search, editor, saving,
                     saveJobs, deleteJobs, acts>>
  BY DEF OrphanTaken
<1>3. made \in Nat /\ made' \in Nat /\ made' >= made /\ made' \in 0 .. MaxContacts
  BY <1>1, ConstantsOfContacts, NumbersOfContacts DEF StoredOnwards
<1>4. \A x \in Nat : x <= made => x <= made' BY <1>3
<1>5. \A x \in Nat : x <= made =>
          \A s \in stored' : s.id = x => \E r \in stored : r.id = x /\ r.key = s.key
  BY <1>1, <1>3 DEF StoredOnwards
<1>6. ASSUME NEW x \in Nat, x <= made, Mine(x)
      PROVE  \A s \in stored' : s.id = x => s.key = key
  BY <1>5, <1>6 DEF Mine
<1>7. ContactVarTypes' BY <1>1, <1>2, <1>3 DEF ContactsInv, ContactVarTypes
<1>8. RecordsNumbered'
 <2>1. \A r \in records : r.id \in Nat /\ r.id <= made
   BY ConstantsOfContacts DEF ContactsInv, ContactVarTypes, RecordsNumbered, ContactRecords
 <2>2. \A d \in deleteJobs : d.id \in Nat /\ d.id <= made
   BY ConstantsOfContacts DEF ContactsInv, ContactVarTypes, RecordsNumbered, DeleteJobs
 <2>3. \A j \in saveJobs : j.stored # None => j.stored \in Nat /\ j.stored <= made
   BY ConstantsOfContacts DEF ContactsInv, ContactVarTypes, RecordsNumbered, SaveJobs
 <2> QED BY <1>1, <1>2, <1>4, <2>1, <2>2, <2>3, NumbersOfContacts DEF ContactsInv, RecordsNumbered
<1>9. NothingBeforeKey' /\ SavesAreOne' BY <1>2 DEF ContactsInv, NothingBeforeKey, SavesAreOne
<1>10. KnownIsMine'
 <2>1. ASSUME NEW x \in Nat, x <= made, Mine(x) PROVE Mine(x)' BY <1>2, <1>6, <2>1 DEF Mine
 <2>2. \A r \in records : r.key = key => Mine(r.id)'
   BY <2>1, ConstantsOfContacts
      DEF ContactsInv, ContactVarTypes, RecordsNumbered, ContactRecords, KnownIsMine
 <2>3. \A i \in DOMAIN contacts : Mine(i)' BY <2>1, NumbersOfContacts DEF ContactsInv, KnownIsMine
 <2>4. \A d \in deleteJobs : Mine(d.id)'
   BY <2>1, ConstantsOfContacts
      DEF ContactsInv, ContactVarTypes, RecordsNumbered, DeleteJobs, KnownIsMine
 <2>5. \A j \in saveJobs : (j.id # None => Mine(j.id)') /\ (j.stored # None => Mine(j.stored)')
  <3> TAKE j \in saveJobs
  <3>1. j.id # None => j.id \in Nat /\ j.id <= made /\ Mine(j.id)
    BY NumbersOfContacts, ConstantsOfContacts DEF OrphansOK, ContactsInv, KnownIsMine, SaveJobs
  <3>2. j.stored # None => j.stored \in Nat /\ j.stored <= made /\ Mine(j.stored)
    BY NumbersOfContacts, ConstantsOfContacts
       DEF ContactsInv, RecordsNumbered, KnownIsMine, SaveJobs
  <3> QED BY <2>1, <3>1, <3>2
 <2>6. PICK e : e = editor.id OBVIOUS
 <2>7. e # None => e \in Nat /\ e <= made /\ Mine(e)
   BY <2>6, NumbersOfContacts, ConstantsOfContacts DEF OrphansOK, ContactsInv, KnownIsMine
 <2>8. e # None => Mine(e)' BY <2>1, <2>7
 <2> QED BY <1>2, <2>2, <2>3, <2>4, <2>5, <2>6, <2>8 DEF KnownIsMine, Mine
<1>11. PayloadsWhole' BY <1>1, <1>2 DEF ContactsInv, PayloadsWhole
<1>12. ASSUME ~raced' PROVE ChangesApart'
  BY <1>2, <1>12 DEF ContactsInv, ContactVarTypes, ChangesApart
<1>13. OrphansOK'
 <2>1. \A v \in orphans : v.id # None => v.id \in Nat BY ConstantsOfContacts DEF OrphansOK, Orphans
 <2>2. \A v \in orphans :
           v.id # None => v.id <= made' /\ \A s \in stored' : s.id = v.id => s.key = v.key
   BY <1>4, <1>5, <2>1 DEF OrphansOK
 <2>3. editor.id # None => editor.id \in Nat BY NumbersOfContacts, ConstantsOfContacts
 <2>4. \A j \in saveJobs : j.id # None => j.id \in Nat
   BY NumbersOfContacts, ConstantsOfContacts DEF SaveJobs
 <2> QED BY <1>2, <1>4, <2>2, <2>3, <2>4 DEF OrphansOK
<1> QED BY <1>7, <1>8, <1>9, <1>10, <1>11, <1>12, <1>13 DEF ContactsInv

-------------------------------------------------------------------------------
(* What the invariant shows. *)

LEMMA ContactsNextOK ==
    ContactsInv /\ OrphansOK /\ [ContactsNext]_conVars => ContactsInv' /\ OrphansOK'
<1>0. CASE \E w \in orphans : OrphanTaken(w) BY <1>0, OrphanIsTaken
<1> SUFFICES ASSUME ContactsInv, OrphansOK, [ContactsNext]_conVars,
                    ~\E w \in orphans : OrphanTaken(w)
             PROVE  ContactsInv'
  BY <1>0, OrphansGoOn
<1>1. CASE AuthConfirmed \/ Restart \/ ListServed \/ ListAnswered \/ ListFails
  BY <1>1, KeyArrives, StartsAgain, ListIsServed, ListArrives, ListIsLost
<1>2. CASE (\E q \in Names : Search(q)) \/ \E i \in ContactIds : Select(i)
  BY <1>2, SearchSelects, ScreenKeeps
<1>3. CASE CloseEditor \/ \E i \in Id : OpenEditor(i) BY <1>3, EditorOpensCloses, ScreenKeeps
<1>4. CASE \/ \E n \in Names : SetName(n)
           \/ SetExtra \/ AddRow
           \/ \E k \in 1 .. MaxEmails : RemoveRow(k) \/ \E v \in Names : SetRow(k, v)
  BY <1>4, DraftsAreEdited, ScreenKeeps
<1>5. CASE SaveContact BY <1>5, SaveIsAsked
<1>6. CASE \E j \in saveJobs : SaveTaken(j) \/ SaveAnswered(j) \/ SaveFails(j)
  BY <1>6, SaveIsTaken, SaveArrives, SaveIsLost
<1>7. CASE \E i \in ContactIds : DeleteContact(i) BY <1>7, DeleteIsAsked
<1>8. CASE \E d \in deleteJobs : DeleteTaken(d) \/ DeleteAnswered(d) \/ DeleteFails(d)
  BY <1>8, DeleteIsTaken, ContactDeleteArrives, DeleteIsLost
<1>9. CASE UNCHANGED conVars
 <2>1. UNCHANGED <<stored, made, key, keys, contacts, listing, records, saving,
                   saveJobs, deleteJobs, raced>> /\ editor' = editor
       /\ selected' = selected /\ search' = search /\ acts' = acts
   BY <1>9 DEF conVars
 <2>2. ScreenStep BY <2>1 DEF ScreenStep, EditorOf, ContactsInv, ContactVarTypes, PayloadsWhole
 <2> QED BY <2>2, ScreenKeeps
<1> QED BY <1>1, <1>2, <1>3, <1>4, <1>5, <1>6, <1>7, <1>8, <1>9 DEF ContactsNext

\* The types.
LEMMA InvTypesContacts == ContactsInv => ContactsTypeOK
  BY DEF ContactsInv, ContactVarTypes, ContactsTypeOK, ContactRecords

\* With nothing under way no contact is ahead of the list.
LEMMA InvSettlesContacts == ContactsInv => ContactsSettle
<1> SUFFICES ASSUME ContactsInv PROVE ContactsSettle OBVIOUS
<1>1. OnePrimary
 <2>1. ASSUME NEW r \in stored, r.payload.emails # <<>>
       PROVE  /\ Cardinality({i \in DOMAIN r.payload.emails : r.payload.emails[i].primary}) = 1
              /\ \A i \in DOMAIN r.payload.emails : r.payload.emails[i].value # 0
  <3>1. r.payload \in Payload /\ Whole(r.payload)
    BY DEF ContactsInv, ContactVarTypes, ContactRecords, PayloadsWhole
  <3>2. \A i \in DOMAIN r.payload.emails : r.payload.emails[i].value # 0 BY <3>1 DEF Whole
  <3> QED BY <2>1, <3>1, <3>2, WholeHasOne
 <2> QED BY <2>1 DEF OnePrimary
<1>2. ListSettles
 <2> SUFFICES ASSUME listing = "done", saveJobs = {}, deleteJobs = {}, ~raced
              PROVE  contacts = Decrypted(stored)
   BY DEF ListSettles
 <2>1. Ahead = {} BY DEF Ahead
 <2>2. \A i \in ContactIds : Agrees(i) BY <2>1 DEF ContactsInv, ChangesApart
 <2> DEFINE list == Decrypted(stored)
 <2>3. /\ list = [i \in DOMAIN list |-> list[i]]
       /\ \A i : i \in DOMAIN list <=> \E r \in stored : r.key = key /\ r.id = i
       /\ \A r \in stored : r.key = key => list[r.id] = r.payload
       /\ \A i \in DOMAIN list : \E r \in stored : r.key = key /\ r.id = i /\ list[i] = r.payload
  <3>1. stored \subseteq ContactRecords /\ \A r, q \in stored : r.id = q.id => r = q
    BY DEF ContactsInv, ContactVarTypes, RecordsNumbered
  <3> QED BY <3>1, DecryptedOnes
 <2> HIDE DEF list
 <2>4. DOMAIN contacts = DOMAIN list
  <3>1. ASSUME NEW i \in DOMAIN contacts PROVE i \in DOMAIN list
    BY <2>2, <2>3 DEF Agrees, ContactsInv, ContactVarTypes
  <3>2. ASSUME NEW i \in DOMAIN list PROVE i \in DOMAIN contacts
    BY <2>2, <2>3 DEF Agrees, ContactsInv, ContactVarTypes, ContactRecords
  <3> QED BY <3>1, <3>2
 <2>5. \A i \in DOMAIN contacts : contacts[i] = list[i]
   BY <2>2, <2>3, <2>4 DEF Agrees, ContactsInv, ContactVarTypes
 <2>6. contacts = [i \in DOMAIN contacts |-> contacts[i]] BY DEF ContactsInv, ContactVarTypes
 <2>7. contacts = list BY <2>3, <2>4, <2>5, <2>6
 <2> QED BY <2>7 DEF list
<1> QED BY <1>1, <1>2 DEF ContactsSettle

\* A record of another key is none that the page knows of, so no request replaces or
\* deletes it.
LEMMA ForeignStays ==
    ContactsInv /\ OrphansOK /\ [ContactsNext]_conVars =>
        \A r \in stored : r.key \notin {key} \cup {w.key : w \in orphans} => r \in stored'
<1> SUFFICES ASSUME ContactsInv, OrphansOK, [ContactsNext]_conVars,
                    NEW r \in stored, r.key # key, \A w \in orphans : r.key # w.key
             PROVE  r \in stored'
  OBVIOUS
<1>0. CASE \E w \in orphans : OrphanTaken(w)
 <2>1. PICK w \in orphans : OrphanTaken(w) BY <1>0
 <2>2. r.id # w.id BY NumbersOfContacts DEF OrphansOK
 <2> QED BY <2>1, <2>2 DEF OrphanTaken
<1>1. CASE \E j \in saveJobs : SaveTaken(j)
 <2>1. PICK j \in saveJobs : SaveTaken(j) BY <1>1
 <2>2. PICK i : SaveMakes(j, i) BY <2>1, SaveMakesOne
 <2>3. r.id # i
  <3>1. CASE j.id = None
   <4>1. r.id <= made /\ r.id \in Nat /\ made \in Nat
     BY ConstantsOfContacts DEF ContactsInv, RecordsNumbered, ContactVarTypes, ContactRecords
   <4>2. i > made BY <2>2, <3>1 DEF SaveMakes
   <4>3. i \in Nat BY <2>2, ConstantsOfContacts DEF SaveMakes
   <4> QED BY <4>1, <4>2, <4>3
  <3>2. CASE j.id # None BY <2>2, <3>2 DEF SaveMakes, ContactsInv, KnownIsMine, Mine
  <3> QED BY <3>1, <3>2
 <2> QED BY <2>2, <2>3 DEF SaveMakes
<1>2. CASE \E d \in deleteJobs : DeleteTaken(d)
  BY <1>2 DEF DeleteTaken, ContactsInv, KnownIsMine, Mine
<1>3. CASE UNCHANGED stored BY <1>3
<1>4. (\E j \in saveJobs : SaveTaken(j)) \/ (\E d \in deleteJobs : DeleteTaken(d))
        \/ (\E w \in orphans : OrphanTaken(w)) \/ UNCHANGED stored
  BY DEF ContactsNext, conVars, AuthConfirmed, Restart, ListServed, ListAnswered, ListFails,
         Search, SetName, Select, DeleteContact, OpenEditor, CloseEditor, SetExtra, AddRow,
         SaveContact, RemoveRow, SetRow, Editing, SaveAnswered, SaveFails, DeleteAnswered,
         DeleteFails
<1> QED BY <1>0, <1>1, <1>2, <1>3, <1>4

-------------------------------------------------------------------------------
(* IV. The events of the calendar application. *)

\* A save has an event once it is created, and invites nobody but the people of its form.
SaveOK(j) ==
    /\ j.next = "create" <=> j.id = 0
    /\ j.id <= created /\ j.todo \subseteq j.form.people
    /\ j.id # 0 => \E r \in server : r.id = j.id /\ r.people \subseteq j.form.people \ j.todo

\* The server numbers the events, each once, and each is of one save.
EventsNumbered ==
    /\ \A r \in server : /\ \A s \in server : s.id = r.id => s = r
                         /\ r.id \in New => r.id <= created
    /\ \A j \in saves : \A k \in saves : j.id # 0 /\ k.id = j.id => k = j
    /\ \A j \in oldSaves : /\ j.next = "create" <=> j.id = 0
                           /\ j.id <= created /\ j.todo \subseteq j.form.people
                           /\ \A k \in saves : j.id # 0 => k.id # j.id

OneRowEach(list) == \A d \in list : \A e \in list : e.id = d.id => e = d

\* What is shown while the requests came one at a time: the events of the server, but for a
\* move that is under way.
OneAtATime ==
    /\ load # "done" => saves = {} /\ drags = {} /\ shifted = {}
    /\ load = "served" => answer = Listed
    /\ saves # {} => drags = {}
    /\ \A j \in saves : \A k \in saves : k = j
    /\ OneRowEach(events)
    /\ \A g \in drags : /\ \A h \in drags : h = g
                        /\ g.old \in g.base /\ OneRowEach(g.base) /\ AsStored(g.base)
                        /\ events = Retimed(g.base, g.old.id, g.time)
    /\ load = "done" /\ saves = {} /\ drags = {} => AsStored(events)

CalendarInv ==
    /\ CalendarTypeOK /\ IsFiniteSet(saves) /\ IsFiniteSet(drags)
    /\ \A j \in saves : SaveOK(j)
    /\ EventsNumbered
    /\ ~mixed => OneAtATime

LEMMA ConstantsOfCalendar ==
    /\ MaxNew \in Nat /\ MaxSteps \in Nat
    /\ Old \cap New = {} /\ Samples \cap New = {} /\ Old \cap Samples = {}
    /\ New \subseteq Nat /\ 0 \notin New
    /\ \A i \in New : i <= MaxNew
    /\ \A n \in 0 .. MaxNew : n < MaxNew => n + 1 \in New /\ n + 1 \in 0 .. MaxNew
    /\ (CHOOSE t \in Times : TRUE) \in Times
  BY CalendarAssumption DEF New

LEMMA Counted ==
    ASSUME CalendarTypeOK, IsFiniteSet(saves), IsFiniteSet(drags), ~(Busy > 0)
    PROVE  load = "done" /\ saves = {} /\ drags = {}
<1>1. Cardinality(saves) \in Nat /\ Cardinality(drags) \in Nat BY FS_CardinalityType
<1>2. Cardinality(saves) = 0 /\ Cardinality(drags) = 0 /\ load \notin {"asked", "served"}
  BY <1>1 DEF Busy
<1> QED BY <1>2, FS_EmptySet DEF CalendarTypeOK

LEMMA StepCounts == CalendarTypeOK /\ Step => steps' \in 0 .. MaxSteps /\ steps' \in 1 .. MaxSteps
  BY ConstantsOfCalendar DEF CalendarTypeOK, Step

LEMMA BlankForms == \A t \in Times : Blank(t) \in Form
  BY DEF Blank, Form

LEMMA SaveFields ==
    ASSUME CalendarTypeOK, NEW j \in saves \cup oldSaves
    PROVE  /\ j \in Save /\ j.next \in {"create", "invite", "refresh"}
           /\ j.id \in New \cup {0} /\ j.id \in Nat /\ j.form \in Form /\ j.form.time \in Times
           /\ j.form.people \in SUBSET People /\ j.todo \in SUBSET People
           /\ j.click \in 1 .. MaxSteps
<1>1. j \in Save BY DEF CalendarTypeOK
<1>2. j.id \in New \cup {0} BY <1>1 DEF Save
<1>3. j.id \in Nat BY <1>2, CalendarAssumption DEF New
<1> QED BY <1>1, <1>2, <1>3 DEF Save, Form

\* The rows of an event: the first has its id, the others ids of their own.
LEMMA Rows ==
    ASSUME NEW i \in Old \cup New, NEW t \in Times
    PROVE  /\ EventRows(i, t) \in SUBSET Event
           /\ \A e \in EventRows(i, t) :
                 \/ e.id = i /\ e.time = t /\ e.id \notin Virtual
                 \/ e \in Later[i][t] /\ e.id \in Virtual /\ e.id \in InstancesOf(i)
           /\ InstancesOf(i) \in SUBSET Virtual
<1>1. \A u \in Times : Later[i][u] \in SUBSET [id: Virtual, time: Times] BY CalendarAssumption
<1> QED BY <1>1, CalendarAssumption DEF EventRows, Event, Ids, InstancesOf

LEMMA ListedRows ==
    ASSUME CalendarTypeOK, EventsNumbered
    PROVE  /\ Listed \in SUBSET Event /\ OneRowEach(Listed)
           /\ \A r \in server : r.id \in Old \cup New /\ r.time \in Times
           /\ Outdated \in SUBSET Virtual
<1>1. \A r \in server : r.id \in Old \cup New /\ r.time \in Times BY DEF CalendarTypeOK, Record
<1>2. Listed \in SUBSET Event BY <1>1, Rows DEF Listed
<1>3. ASSUME NEW d \in Listed, NEW e \in Listed, e.id = d.id PROVE e = d
 <2>1. PICK q \in server : d \in EventRows(q.id, q.time) BY DEF Listed
 <2>2. PICK r \in server : e \in EventRows(r.id, r.time) BY DEF Listed
 <2>3. CASE d.id \in Virtual
  <3>1. d \in Later[q.id][q.time] /\ e \in Later[r.id][r.time]
    BY <1>1, <1>3, <2>1, <2>2, <2>3, Rows
  <3> QED BY <1>1, <1>3, <3>1, CalendarAssumption
 <2>4. CASE d.id \notin Virtual
  <3>1. d.id = q.id /\ d.time = q.time /\ e.id = r.id /\ e.time = r.time
    BY <1>1, <1>3, <2>1, <2>2, <2>4, Rows
  <3>2. r = q BY <1>3, <3>1 DEF EventsNumbered
  <3> QED BY <1>2, <1>3, <3>1, <3>2 DEF Event
 <2> QED BY <2>3, <2>4
<1>4. Outdated \in SUBSET Virtual
 <2>1. PICK t : t \in Times BY CalendarAssumption
 <2> QED BY <2>1, Rows DEF Outdated, CalendarTypeOK
<1> QED BY <1>1, <1>2, <1>3, <1>4 DEF OneRowEach

LEMMA RetimedRows ==
    ASSUME NEW list \in SUBSET Event, OneRowEach(list), NEW d \in list, NEW t \in Times
    PROVE  /\ Retimed(list, d.id, t) \in SUBSET Event
           /\ OneRowEach(Retimed(list, d.id, t))
           /\ \A e \in Event : e \in Retimed(list, d.id, t) <=>
                 IF e.id = d.id THEN e.time = t ELSE e \in list
           /\ Retimed(list, d.id, d.time) = list
<1> DEFINE at(e, u) == IF e.id = d.id THEN [e EXCEPT !.time = u] ELSE e
<1>1. \A e \in Event : \A u \in Times :
        at(e, u) \in Event /\ at(e, u).id = e.id
        /\ (e.id = d.id => at(e, u).time = u) /\ (e.id # d.id => at(e, u) = e)
  BY DEF Event
<1>2. \A u : Retimed(list, d.id, u) = {at(e, u) : e \in list} BY DEF Retimed
<1>3. \A e \in Event : \A f \in Event : e.id = f.id /\ e.time = f.time => e = f BY DEF Event
<1>4. d \in Event /\ d.time \in Times /\ at(d, d.time) = d BY DEF Event
<1> HIDE DEF at
<1>5. \A e \in list : e # d => e.id # d.id BY DEF OneRowEach
<1>6. \A e \in Event : e \in Retimed(list, d.id, t) <=>
        IF e.id = d.id THEN e.time = t ELSE e \in list
  BY <1>1, <1>2, <1>3
<1>7. OneRowEach(Retimed(list, d.id, t)) BY <1>1, <1>2 DEF OneRowEach
<1>8. \A e \in list : at(e, d.time) = e BY <1>1, <1>4, <1>5
<1>9. Retimed(list, d.id, t) \in SUBSET Event BY <1>1, <1>2
<1>10. Retimed(list, d.id, d.time) = list BY <1>2, <1>8
<1> QED BY <1>6, <1>7, <1>9, <1>10

-------------------------------------------------------------------------------
(* The page and the dialog. *)

\* Opening, closing and filling in the dialog change no list and no request.
DialogStep ==
    /\ UNCHANGED <<events, server, created, load, answer, saves, drags, mixed, lateVars>>
    /\ page' \in {"checking", "ready", "crashed", "away"} /\ dialog' \in BOOLEAN
    /\ form' \in Form /\ steps' \in 0 .. MaxSteps

LEMMA DialogKeeps == CalendarInv /\ DialogStep => CalendarInv'
<1> SUFFICES ASSUME CalendarInv, DialogStep PROVE CalendarInv' OBVIOUS
<1> USE DEF CalendarInv, DialogStep
<1>1. CalendarTypeOK' BY DEF CalendarTypeOK, lateVars
<1>2. (\A j \in saves : SaveOK(j))' /\ EventsNumbered' BY DEF SaveOK, EventsNumbered, lateVars
<1>3. ~mixed' => OneAtATime' BY DEF OneAtATime, AsStored, Listed, Outdated, lateVars
<1> QED BY <1>1, <1>2, <1>3

LEMMA DialogMoves ==
    ASSUME CalendarInv,
           \/ AuthAnswered \/ NewEarly \/ NewAgain \/ OpenDialog \/ CloseDialog \/ ClearTime
           \/ \E t \in Times : SetTime(t)
           \/ \E p \in People : ToggleAttendee(p)
    PROVE  DialogStep
<1>1. /\ page \in {"checking", "ready", "crashed", "away"} /\ dialog \in BOOLEAN
      /\ form \in Form /\ steps \in 0 .. MaxSteps /\ CalendarTypeOK
  BY DEF CalendarInv, CalendarTypeOK
<1>2. CASE AuthAnswered BY <1>1, <1>2, BlankForms DEF AuthAnswered, DialogStep
<1>3. CASE NewEarly \/ NewAgain \/ OpenDialog \/ CloseDialog
 <2>1. steps' \in 0 .. MaxSteps
   BY <1>1, <1>3, StepCounts DEF NewEarly, NewAgain, OpenDialog, CloseDialog
 <2> QED
   BY <1>1, <1>3, <2>1, BlankForms DEF NewEarly, NewAgain, OpenDialog, CloseDialog, DialogStep
<1>4. CASE ClearTime
 <2>1. steps' \in 0 .. MaxSteps BY <1>1, <1>4, StepCounts DEF ClearTime
 <2> QED BY <1>1, <1>4, <2>1 DEF ClearTime, DialogStep, Form
<1>5. ASSUME NEW t \in Times, SetTime(t) PROVE DialogStep
 <2>1. steps' \in 0 .. MaxSteps BY <1>1, <1>5, StepCounts DEF SetTime
 <2> QED BY <1>1, <1>5, <2>1 DEF SetTime, DialogStep, Form
<1>6. ASSUME NEW p \in People, ToggleAttendee(p) PROVE DialogStep
 <2>1. steps' \in 0 .. MaxSteps BY <1>1, <1>6, StepCounts DEF ToggleAttendee
 <2>2. PICK s : s = IF p \in form.people THEN form.people \ {p} ELSE form.people \cup {p}
   OBVIOUS
 <2>3. form.people \in SUBSET People BY <1>1 DEF Form
 <2>4. s \in SUBSET People BY <2>2, <2>3
 <2>5. form' = [form EXCEPT !.people = s] BY <1>1, <1>6, <2>2 DEF ToggleAttendee, Form
 <2> QED BY <1>1, <1>6, <2>1, <2>4, <2>5 DEF ToggleAttendee, DialogStep, Form
<1> QED BY <1>2, <1>3, <1>4, <1>5, <1>6

-------------------------------------------------------------------------------
(* The load. *)

LEMMA CalendarInitOK == CalendarInit => CalendarInv
<1> SUFFICES ASSUME CalendarInit PROVE CalendarInv OBVIOUS
<1> USE DEF CalendarInit
<1>1. server \in SUBSET Record BY DEF Record
<1>f. form \in Form BY ConstantsOfCalendar, BlankForms
<1>n. created \in 0 .. MaxNew /\ steps \in 0 .. MaxSteps BY ConstantsOfCalendar
<1>2. CalendarTypeOK BY <1>1, <1>f, <1>n DEF CalendarTypeOK
<1>3. EventsNumbered
 <2>1. PICK t \in Times : server = {[id |-> i, time |-> t, people |-> {}] : i \in Old} OBVIOUS
 <2>2. \A r \in server : r.id \in Old /\ \A s \in server : s.id = r.id => s = r BY <2>1
 <2>3. Old \cap New = {} BY ConstantsOfCalendar
 <2> QED BY <2>2, <2>3 DEF EventsNumbered
<1>4. OneAtATime BY DEF OneAtATime, OneRowEach
<1> QED BY <1>2, <1>3, <1>4, FS_EmptySet DEF CalendarInv

LEMMA LoadIsServed == CalendarInv /\ LoadServed => CalendarInv'
<1> SUFFICES ASSUME CalendarInv, LoadServed PROVE CalendarInv' OBVIOUS
<1> USE DEF CalendarInv, LoadServed, lateVars
<1>1. CalendarTypeOK' BY ListedRows DEF CalendarTypeOK
<1>2. (\A j \in saves : SaveOK(j))' /\ EventsNumbered' BY DEF SaveOK, EventsNumbered
<1>3. ~mixed' => OneAtATime' BY DEF OneAtATime, AsStored, Listed, Outdated, lateVars
<1> QED BY <1>1, <1>2, <1>3

\* An open dialog is filled in again, or not.
LEMMA RefilledForm == CalendarTypeOK /\ Refilled => form' \in Form
  BY BlankForms DEF CalendarTypeOK, Refilled

LEMMA LoadArrives == CalendarInv /\ LoadAnswered => CalendarInv'
<1> SUFFICES ASSUME CalendarInv, LoadAnswered PROVE CalendarInv' OBVIOUS
<1> USE DEF CalendarInv, LoadAnswered, lateVars
<1>1. CalendarTypeOK' BY RefilledForm DEF CalendarTypeOK
<1>2. (\A j \in saves : SaveOK(j))' /\ EventsNumbered' BY DEF SaveOK, EventsNumbered
<1>3. ~mixed' => OneAtATime'
 <2> SUFFICES ASSUME ~mixed PROVE OneAtATime' OBVIOUS
 <2>1. events' = Listed /\ Listed' = Listed /\ OneRowEach(Listed)
   BY ListedRows DEF OneAtATime, Listed
 <2> QED BY <2>1 DEF OneAtATime, OneRowEach, AsStored
<1> QED BY <1>1, <1>2, <1>3

LEMMA LoadIsLost == CalendarInv /\ LoadFails => CalendarInv'
<1> SUFFICES ASSUME CalendarInv, LoadFails PROVE CalendarInv' OBVIOUS
<1> USE DEF CalendarInv, LoadFails, lateVars
<1>0. events' \in SUBSET Event BY DEF Event, Ids
<1>1. CalendarTypeOK' BY <1>0, RefilledForm DEF CalendarTypeOK
<1>2. (\A j \in saves : SaveOK(j))' /\ EventsNumbered' BY DEF SaveOK, EventsNumbered
<1> QED BY <1>1, <1>2

LEMMA PageReloads == CalendarInv /\ Reload => CalendarInv'
<1> SUFFICES ASSUME CalendarInv, Reload PROVE CalendarInv' OBVIOUS
<1> USE DEF Reload, Opened
<1>0. CalendarTypeOK /\ steps' \in 0 .. MaxSteps BY StepCounts DEF CalendarInv
<1>1. CalendarTypeOK' BY <1>0, ConstantsOfCalendar, BlankForms DEF CalendarTypeOK
<1>2. (\A j \in saves : SaveOK(j))' /\ EventsNumbered' BY DEF CalendarInv, EventsNumbered, SaveOK
<1>3. OneAtATime' BY DEF OneAtATime, OneRowEach
<1> QED BY <1>1, <1>2, <1>3, FS_EmptySet DEF CalendarInv

-------------------------------------------------------------------------------
(* Saving. *)

LEMMA SaveIsClicked == CalendarInv /\ SaveClicked => CalendarInv'
<1> SUFFICES ASSUME CalendarInv, SaveClicked PROVE CalendarInv' OBVIOUS
<1>0. steps' \in 0 .. MaxSteps /\ steps' \in 1 .. MaxSteps /\ CalendarTypeOK /\ form \in Form
  BY StepCounts DEF CalendarInv, SaveClicked, CalendarTypeOK
<1>1. CASE form.valid
 <2>1. PICK j : j = [click |-> steps', next |-> "create", id |-> 0, form |-> form,
                     todo |-> form.people]
   OBVIOUS
 <2>2. /\ saves' = saves \cup {j}
       /\ mixed' <=> mixed \/ Busy > 0
       /\ UNCHANGED <<page, dialog, form, events, server, created, load, answer, drags,
                      oldSaves, oldDrags, shifted>>
   BY <1>1, <2>1 DEF SaveClicked, lateVars
 <2>3. mixed' \in BOOLEAN BY <1>1 DEF SaveClicked
 <2>4. /\ j \in Save /\ j.next = "create" /\ j.id = 0 /\ j.todo = form.people /\ j.form = form
   BY <1>0, <2>1 DEF Save, Form
 <2>5. CalendarTypeOK' BY <1>0, <2>2, <2>3, <2>4 DEF CalendarTypeOK
 <2>6. IsFiniteSet(saves') /\ IsFiniteSet(drags') BY <2>2, FS_AddElement DEF CalendarInv
 <2>7. \A k \in saves : SaveOK(k)' BY <2>2 DEF CalendarInv, SaveOK
 <2>8. created \in Nat BY <1>0, ConstantsOfCalendar DEF CalendarTypeOK
 <2>9. SaveOK(j)' BY <2>2, <2>4, <2>8 DEF SaveOK
 <2>10. EventsNumbered' BY <2>2, <2>4 DEF CalendarInv, EventsNumbered
 <2>11. ASSUME ~mixed' PROVE OneAtATime'
  <3>1. load = "done" /\ saves = {} /\ drags = {} /\ ~mixed
    BY <1>0, <2>2, <2>11, Counted DEF CalendarInv
  <3> QED BY <2>2, <2>11, <3>1 DEF OneAtATime, CalendarInv
 <2> QED BY <2>2, <2>5, <2>6, <2>7, <2>9, <2>10, <2>11 DEF CalendarInv
<1>2. CASE ~form.valid
 <2>1. DialogStep BY <1>0, <1>2 DEF SaveClicked, DialogStep
 <2> QED BY <2>1, DialogKeeps
<1> QED BY <1>1, <1>2

\* An event is created for a save: one more on the server, of a number that is new.
LEMMA MadeEvents ==
    ASSUME CalendarInv, NEW j \in saves \cup oldSaves, Made(j)
    PROVE  /\ created' \in New /\ created' \in 0 .. MaxNew /\ created' > created
           /\ server' \in SUBSET Record /\ server \subseteq server'
           /\ \A r \in server' : r \in server \/ (r.id = created' /\ r.people = {})
           /\ \E r \in server' : r.id = created' /\ r.people = {}
           /\ \A r \in server : r.id # created'
           /\ \A r \in server' : /\ \A s \in server' : s.id = r.id => s = r
                                 /\ r.id \in New => r.id <= created'
<1>1. CalendarTypeOK /\ EventsNumbered /\ created \in 0 .. MaxNew /\ server \in SUBSET Record
  BY DEF CalendarInv, CalendarTypeOK
<1>2. created' \in New /\ created' \in 0 .. MaxNew /\ created' > created
      /\ created \in Nat /\ created' \in Nat
  BY <1>1, ConstantsOfCalendar DEF Made
<1>3. PICK r : r = [id |-> created', time |-> j.form.time, people |-> {}] OBVIOUS
<1>4. r \in Record /\ r.id = created' /\ r.people = {} BY <1>1, <1>2, <1>3, SaveFields DEF Record
<1>5. server' = server \cup {r} BY <1>3 DEF Made
<1>6. \A s \in server : s.id # created'
 <2> TAKE s \in server
 <2>1. s.id \in New => s.id <= created /\ s.id \in Nat
   BY <1>1, ConstantsOfCalendar DEF EventsNumbered
 <2> QED BY <1>2, <2>1
<1>7. \A s \in server : s.id \in New => s.id <= created'
 <2> TAKE s \in server
 <2>1. s.id \in New => s.id <= created /\ s.id \in Nat
   BY <1>1, ConstantsOfCalendar DEF EventsNumbered
 <2> QED BY <1>2, <2>1
<1>8. \A s \in server' : /\ \A t \in server' : t.id = s.id => t = s
                         /\ s.id \in New => s.id <= created'
  BY <1>1, <1>2, <1>4, <1>5, <1>6, <1>7 DEF EventsNumbered
<1> QED BY <1>1, <1>2, <1>4, <1>5, <1>6, <1>8

\* The other saves keep their events when there is one more.
LEMMA SavesKeepEvents ==
    ASSUME CalendarInv, NEW j \in saves \cup oldSaves, Made(j), NEW k \in saves
    PROVE  SaveOK(k)'
<1>1. created' > created /\ server \subseteq server' /\ created \in Nat /\ created' \in Nat
  BY MadeEvents, ConstantsOfCalendar DEF CalendarInv, CalendarTypeOK
<1>2. k.id \in Nat
 <2>1. CalendarTypeOK BY DEF CalendarInv
 <2> QED BY <2>1, SaveFields
<1>3. k.id <= created' BY <1>1, <1>2 DEF CalendarInv, SaveOK
<1> QED BY <1>1, <1>3 DEF CalendarInv, SaveOK

LEMMA OldNumbers ==
    ASSUME CalendarInv, NEW j \in saves \cup oldSaves, Made(j)
    PROVE  \A l \in oldSaves : l.id <= created'
<1> TAKE l \in oldSaves
<1>1. created' > created /\ created \in Nat /\ created' \in Nat
  BY MadeEvents, ConstantsOfCalendar DEF CalendarInv, CalendarTypeOK
<1>2. l.id <= created /\ l.id \in Nat BY SaveFields DEF CalendarInv, EventsNumbered
<1> QED BY <1>1, <1>2

LEMMA CreateIsTaken ==
    ASSUME CalendarInv, NEW j \in saves, CreateTaken(j)
    PROVE  CalendarInv'
<1>0. CalendarTypeOK /\ Made(j) /\ j.next = "create" /\ SaveOK(j)
  BY DEF CalendarInv, CreateTaken, Made
<1>1. /\ created' \in New /\ created' \in 0 .. MaxNew /\ created' > created
      /\ server' \in SUBSET Record /\ server \subseteq server'
      /\ \E r \in server' : r.id = created' /\ r.people = {}
      /\ \A r \in server' : /\ \A s \in server' : s.id = r.id => s = r
                            /\ r.id \in New => r.id <= created'
  BY <1>0, MadeEvents
<1>2. PICK i : i = created' OBVIOUS
<1>3. PICK n \in {"refresh", "invite"} : n = IF j.todo = {} THEN "refresh" ELSE "invite"
  OBVIOUS
<1>4. PICK k : k = [j EXCEPT !.id = i, !.next = n] OBVIOUS
<1>5. saves' = (saves \ {j}) \cup {k}
      /\ UNCHANGED <<page, dialog, form, events, load, answer, drags, steps, mixed,
                     oldSaves, oldDrags, shifted>>
  BY <1>2, <1>3, <1>4 DEF CreateTaken, Made, lateVars
<1>6. /\ k \in Save /\ k.id = i /\ k.next = n /\ k.form = j.form /\ k.todo = j.todo
      /\ i # 0 /\ i \in Nat /\ created \in Nat
 <2>1. j \in Save BY <1>0, SaveFields
 <2>2. i \in New BY <1>1, <1>2
 <2>3. /\ k \in Save /\ k.id = i /\ k.next = n /\ k.form = j.form /\ k.todo = j.todo
   BY <1>4, <2>1, <2>2 DEF Save
 <2>4. created \in Nat BY <1>0, ConstantsOfCalendar DEF CalendarTypeOK
 <2> QED BY <2>2, <2>3, <2>4, ConstantsOfCalendar
<1>7. CalendarTypeOK' BY <1>0, <1>1, <1>5, <1>6 DEF CalendarTypeOK
<1>8. IsFiniteSet(saves') /\ IsFiniteSet(drags')
 <2>1. IsFiniteSet(saves \ {j}) BY FS_RemoveElement DEF CalendarInv
 <2> QED BY <1>5, <2>1, FS_AddElement DEF CalendarInv
<1>9. \A s \in saves : SaveOK(s)' BY <1>0, SavesKeepEvents
<1>10. SaveOK(k)'
 <2>1. i <= created' BY <1>2, <1>6
 <2> QED BY <1>0, <1>1, <1>2, <1>3, <1>6, <2>1 DEF SaveOK
<1>11. \A s \in saves : s.id # i
 <2> TAKE s \in saves
 <2>1. s.id <= created BY DEF CalendarInv, SaveOK
 <2>2. s.id \in Nat BY <1>0, SaveFields
 <2> QED BY <1>1, <1>2, <1>6, <2>1, <2>2
<1>12. EventsNumbered'
 <2>1. \A s \in saves' : \A t \in saves' : s.id # 0 /\ t.id = s.id => t = s
   BY <1>5, <1>6, <1>11 DEF CalendarInv, EventsNumbered
 <2>2. ASSUME NEW l \in oldSaves
       PROVE  /\ l.id <= created' /\ l.id # i
              /\ l.next = "create" <=> l.id = 0
              /\ l.todo \subseteq l.form.people
              /\ \A t \in saves : l.id # 0 => t.id # l.id
  <3>1. l.id <= created /\ l.id \in Nat BY <1>0, SaveFields DEF CalendarInv, EventsNumbered
  <3>2. l.id <= created' /\ l.id # i BY <1>1, <1>2, <1>6, <3>1
  <3> QED BY <3>2 DEF CalendarInv, EventsNumbered
 <2> QED BY <1>1, <1>5, <1>6, <2>1, <2>2 DEF EventsNumbered
<1>13. ASSUME ~mixed' PROVE OneAtATime'
 <2>1. OneAtATime /\ saves = {j} /\ drags = {} /\ load = "done"
   BY <1>5, <1>13 DEF CalendarInv, OneAtATime, CalendarTypeOK
 <2> QED BY <1>5, <2>1 DEF OneAtATime, OneRowEach
<1> QED BY <1>5, <1>7, <1>8, <1>9, <1>10, <1>12, <1>13 DEF CalendarInv

\* A save ends: the dialog closes.
LEMMA CreateIsLost ==
    ASSUME CalendarInv, NEW j \in saves, CreateFails(j)
    PROVE  CalendarInv'
<1>0. CalendarTypeOK BY DEF CalendarInv
<1>1. /\ saves' = saves \ {j} /\ mixed' = TRUE
      /\ page' \in {"checking", "ready", "crashed", "away"} /\ dialog' = FALSE
      /\ UNCHANGED <<form, events, load, answer, drags, steps, oldSaves, oldDrags, shifted>>
      /\ UNCHANGED <<server, created>> \/ Made(j)
  BY <1>0 DEF CreateFails, SaveCloses, CalendarTypeOK, lateVars
<1>2. IsFiniteSet(saves') /\ IsFiniteSet(drags') BY <1>1, FS_RemoveElement DEF CalendarInv
<1>3. CASE UNCHANGED <<server, created>>
 <2>1. CalendarTypeOK' BY <1>0, <1>1, <1>3 DEF CalendarTypeOK
 <2>2. (\A k \in saves : SaveOK(k))' /\ EventsNumbered'
   BY <1>1, <1>3 DEF CalendarInv, SaveOK, EventsNumbered
 <2> QED BY <1>1, <1>2, <2>1, <2>2 DEF CalendarInv
<1>4. CASE Made(j)
 <2>1. /\ created' \in 0 .. MaxNew /\ server' \in SUBSET Record
       /\ \A r \in server' : /\ \A s \in server' : s.id = r.id => s = r
                             /\ r.id \in New => r.id <= created'
   BY <1>4, MadeEvents
 <2>2. CalendarTypeOK' BY <1>0, <1>1, <2>1 DEF CalendarTypeOK
 <2>3. \A k \in saves : SaveOK(k)' BY <1>4, SavesKeepEvents
 <2>4. EventsNumbered'
  <3>1. \A l \in oldSaves : l.id <= created' BY <1>4, OldNumbers
  <3> QED BY <1>1, <2>1, <3>1 DEF CalendarInv, EventsNumbered
 <2> QED BY <1>1, <1>2, <2>2, <2>3, <2>4 DEF CalendarInv
<1> QED BY <1>1, <1>3, <1>4

LEMMA SaveIsRefreshed ==
    ASSUME CalendarInv, NEW j \in saves, Refreshed(j)
    PROVE  CalendarInv'
<1>0. CalendarTypeOK /\ Listed \in SUBSET Event /\ OneRowEach(Listed) BY ListedRows DEF CalendarInv
<1>1. /\ saves' = saves \ {j}
      /\ page' \in {"checking", "ready", "crashed", "away"} /\ dialog' = FALSE
      /\ UNCHANGED <<form, server, created, load, answer, drags, steps, oldSaves, oldDrags>>
      /\ \/ events' = Listed /\ mixed' = mixed /\ shifted' = {}
         \/ events' = events /\ mixed' = TRUE /\ shifted' = shifted
  BY <1>0 DEF Refreshed, SaveCloses, CalendarTypeOK
<1>2. CalendarTypeOK' BY <1>0, <1>1 DEF CalendarTypeOK
<1>3. IsFiniteSet(saves') /\ IsFiniteSet(drags') BY <1>1, FS_RemoveElement DEF CalendarInv
<1>4. (\A k \in saves : SaveOK(k))' /\ EventsNumbered'
  BY <1>1 DEF CalendarInv, SaveOK, EventsNumbered
<1>5. ASSUME ~mixed' PROVE OneAtATime'
 <2>1. OneAtATime /\ saves' = {} /\ drags = {} /\ load = "done" /\ events' = Listed
   BY <1>1, <1>5 DEF CalendarInv, OneAtATime, CalendarTypeOK
 <2>2. Listed' = Listed BY <1>1 DEF Listed
 <2> QED BY <1>0, <1>1, <2>1, <2>2 DEF OneAtATime, OneRowEach, AsStored
<1> QED BY <1>2, <1>3, <1>4, <1>5 DEF CalendarInv

\* One person more of an event: nothing else of the server changes.
LEMMA InvitedEvents ==
    ASSUME CalendarInv, NEW j \in saves \cup oldSaves, NEW p \in People
    PROVE  /\ Invited(j, p) \in SUBSET Record
           /\ \A r \in server :
                 IF r.id = j.id
                 THEN \E s \in Invited(j, p) : /\ s = [r EXCEPT !.people = @ \cup {p}]
                                               /\ s.id = r.id /\ s.people = r.people \cup {p}
                 ELSE r \in Invited(j, p)
           /\ \A s \in Invited(j, p) : /\ \A t \in Invited(j, p) : t.id = s.id => t = s
                                       /\ s.id \in New => s.id <= created
<1>0. server \in SUBSET Record BY DEF CalendarInv, CalendarTypeOK
<1> DEFINE more(r) == IF r.id = j.id THEN [r EXCEPT !.people = @ \cup {p}] ELSE r
<1>1. \A r \in server : more(r) \in Record /\ more(r).id = r.id
                        /\ (r.id = j.id => more(r).people = r.people \cup {p})
  BY <1>0 DEF Record
<1>2. Invited(j, p) = {more(r) : r \in server} BY DEF Invited
<1>3. \A r \in server : IF r.id = j.id THEN more(r) = [r EXCEPT !.people = @ \cup {p}]
                                       ELSE more(r) = r
  OBVIOUS
<1> HIDE DEF more
<1>4. \A s \in Invited(j, p) : /\ \A t \in Invited(j, p) : t.id = s.id => t = s
                               /\ s.id \in New => s.id <= created
  BY <1>1, <1>2 DEF CalendarInv, EventsNumbered
<1> QED BY <1>1, <1>2, <1>3, <1>4

\* Whom a save invites is among the people of its form.
LEMMA PersonIsInvited ==
    ASSUME CalendarInv, NEW j \in saves, NEW p \in People, Invite(j, p)
    PROVE  CalendarInv'
<1>0. CalendarTypeOK /\ SaveOK(j) /\ j.next = "invite" /\ p \in j.todo /\ server \in SUBSET Record
  BY DEF CalendarInv, Invite, CalendarTypeOK
<1>2. PICK n \in {"refresh", "invite"} : n = IF j.todo = {p} THEN "refresh" ELSE "invite"
  OBVIOUS
<1>3. PICK k : k = [j EXCEPT !.todo = @ \ {p}, !.next = n] OBVIOUS
<1>4. /\ server' = server \/ server' = Invited(j, p)
      /\ saves' = (saves \ {j}) \cup {k}
      /\ UNCHANGED <<page, dialog, form, events, created, load, answer, drags, steps, mixed,
                     oldSaves, oldDrags, shifted>>
  BY <1>2, <1>3 DEF Invite, lateVars
<1>5. /\ k \in Save /\ k.id = j.id /\ k.next = n /\ k.form = j.form /\ k.todo = j.todo \ {p}
  BY <1>0, <1>3, SaveFields DEF Save
<1>6. /\ server' \in SUBSET Record
      /\ \A r \in server : r.id # j.id => r \in server'
      /\ \A s \in server' : /\ \A t \in server' : t.id = s.id => t = s
                            /\ s.id \in New => s.id <= created
  BY <1>0, <1>4, InvitedEvents DEF CalendarInv, EventsNumbered
<1>7. CalendarTypeOK' BY <1>0, <1>4, <1>5, <1>6 DEF CalendarTypeOK
<1>8. IsFiniteSet(saves') /\ IsFiniteSet(drags')
 <2>1. IsFiniteSet(saves \ {j}) BY FS_RemoveElement DEF CalendarInv
 <2> QED BY <1>4, <2>1, FS_AddElement DEF CalendarInv
<1>9. \A s \in saves : s # j => SaveOK(s)'
 <2> TAKE s \in saves
 <2>1. SaveOK(s) /\ (s # j /\ s.id # 0 => s.id # j.id) BY DEF CalendarInv, EventsNumbered
 <2> QED BY <1>4, <1>6, <2>1 DEF SaveOK
<1>10. SaveOK(k)'
 <2>1. j.id # 0 /\ p \in j.form.people BY <1>0 DEF SaveOK
 <2>2. PICK r \in server : r.id = j.id /\ r.people \subseteq j.form.people \ j.todo
   BY <1>0, <2>1 DEF SaveOK
 <2>3. \E s \in server' : s.id = j.id /\ s.people \subseteq j.form.people \ (j.todo \ {p})
  <3>1. CASE server' = server BY <2>2, <3>1
  <3>2. CASE server' = Invited(j, p)
   <4>1. PICK s \in Invited(j, p) : s.id = j.id /\ s.people = r.people \cup {p}
     BY <2>2, InvitedEvents
   <4> QED BY <2>1, <2>2, <3>2, <4>1
  <3> QED BY <1>4, <3>1, <3>2
 <2> QED BY <1>0, <1>2, <1>4, <1>5, <2>1, <2>3 DEF SaveOK
<1>11. EventsNumbered' BY <1>4, <1>5, <1>6 DEF CalendarInv, EventsNumbered
<1>12. ASSUME ~mixed' PROVE OneAtATime'
 <2>1. OneAtATime /\ saves = {j} /\ drags = {} /\ load = "done"
   BY <1>4, <1>12 DEF CalendarInv, OneAtATime, CalendarTypeOK
 <2> QED BY <1>4, <2>1 DEF OneAtATime, OneRowEach
<1> QED BY <1>4, <1>7, <1>8, <1>9, <1>10, <1>11, <1>12 DEF CalendarInv

-------------------------------------------------------------------------------
(* Dragging. *)

LEMMA RetimedEvents ==
    ASSUME NEW list \in SUBSET Event, NEW i, NEW t \in Times
    PROVE  /\ Retimed(list, i, t) \in SUBSET Event
           /\ \A e \in Event : /\ [e EXCEPT !.time = t] \in Event
                               /\ [e EXCEPT !.time = t].id = e.id
                               /\ [e EXCEPT !.time = t].time = t
  BY DEF Retimed, Event

LEMMA EventIsDropped ==
    ASSUME CalendarInv, NEW e \in events, NEW t \in Times, NEW over \in BOOLEAN,
           Drop(e, t, over)
    PROVE  CalendarInv'
<1>0. CalendarTypeOK /\ events \in SUBSET Event /\ drags \in SUBSET Drag
  BY DEF CalendarInv, CalendarTypeOK
<1>1. PICK g : g = [old |-> e, time |-> t, base |-> events] OBVIOUS
<1>2. g \in Drag /\ g.old = e /\ g.time = t /\ g.base = events BY <1>0, <1>1 DEF Drag
<1>3. /\ events' = Retimed(events, e.id, t) /\ drags' = drags \cup {g}
      /\ mixed' <=> mixed \/ Busy > 0
      /\ mixed' \in BOOLEAN
      /\ UNCHANGED <<form, server, created, load, answer, saves, oldSaves, oldDrags, shifted>>
      /\ page' \in {"checking", "ready", "crashed", "away"} /\ dialog' \in BOOLEAN
  BY <1>0, <1>1 DEF Drop, CalendarTypeOK, lateVars
<1>4. steps' \in 0 .. MaxSteps BY <1>0, StepCounts DEF Drop
<1>5. events' \in SUBSET Event BY <1>0, <1>3, RetimedEvents
<1>6. CalendarTypeOK' BY <1>0, <1>2, <1>3, <1>4, <1>5 DEF CalendarTypeOK
<1>7. IsFiniteSet(saves') /\ IsFiniteSet(drags') BY <1>3, FS_AddElement DEF CalendarInv
<1>8. (\A k \in saves : SaveOK(k))' /\ EventsNumbered'
  BY <1>3 DEF CalendarInv, SaveOK, EventsNumbered
<1>9. ASSUME ~mixed' PROVE OneAtATime'
 <2>1. load = "done" /\ saves = {} /\ drags = {} /\ ~mixed
   BY <1>0, <1>3, <1>9, Counted DEF CalendarInv
 <2>2. OneRowEach(events) /\ AsStored(events) /\ Listed' = Listed /\ Outdated' = Outdated
   BY <1>3, <2>1 DEF CalendarInv, OneAtATime, Listed, Outdated
 <2>3. OneRowEach(Retimed(events, e.id, t)) BY <1>0, <2>2, RetimedRows
 <2>4. AsStored(g.base)' /\ OneRowEach(g.base) /\ OneRowEach(events)'
   BY <1>2, <1>3, <2>2, <2>3 DEF AsStored, OneRowEach
 <2> QED BY <1>2, <1>3, <2>1, <2>4 DEF OneAtATime
<1> QED BY <1>3, <1>6, <1>7, <1>8, <1>9 DEF CalendarInv

\* The server moves an event: nothing else of it changes.
LEMMA RescheduledEvents ==
    ASSUME CalendarInv, NEW g \in drags \cup oldDrags, server' = Rescheduled(g)
    PROVE  /\ server' \in SUBSET Record
           /\ \A s \in server' : \E r \in server : /\ s.id = r.id /\ s.people = r.people
                                                   /\ IF r.id = g.old.id THEN s.time = g.time
                                                                        ELSE s = r
           /\ \A r \in server : \E s \in server' : /\ s.id = r.id /\ s.people = r.people
                                                   /\ IF r.id = g.old.id THEN s.time = g.time
                                                                        ELSE s = r
           /\ \A s \in server' : \A q \in server' : q.id = s.id => q = s
<1>1. server \in SUBSET Record /\ g \in Drag /\ g.time \in Times
  BY DEF CalendarInv, CalendarTypeOK, Drag
<1> DEFINE moved(r) == IF r.id = g.old.id THEN [r EXCEPT !.time = g.time] ELSE r
<1>2. \A r \in server : /\ moved(r) \in Record /\ moved(r).id = r.id
                        /\ moved(r).people = r.people
                        /\ IF r.id = g.old.id THEN moved(r).time = g.time ELSE moved(r) = r
  BY <1>1 DEF Record
<1>3. server' = {moved(r) : r \in server} BY DEF Rescheduled
<1> HIDE DEF moved
<1>4. \A s \in server' : \A q \in server' : q.id = s.id => q = s
  BY <1>2, <1>3 DEF CalendarInv, EventsNumbered
<1> QED BY <1>2, <1>3, <1>4

\* And the rows: the moved one has its new time, the others are as they were, but for those
\* of its series.
LEMMA RescheduledRows ==
    ASSUME CalendarInv, NEW g \in drags, DropTaken(g), g.old \in Listed
    PROVE  /\ Outdated \subseteq Outdated'
           /\ \A e \in Event : e.id \notin Outdated' =>
                 (e \in Listed' <=> IF e.id = g.old.id THEN e.time = g.time ELSE e \in Listed)
<1>0. /\ server' = Rescheduled(g) /\ g.old.id \notin Virtual /\ CalendarTypeOK /\ EventsNumbered
      /\ g.time \in Times
  BY DEF DropTaken, Known, CalendarInv, CalendarTypeOK, Drag
<1>1. PICK i : i = g.old.id OBVIOUS
<1>2. PICK r \in server : g.old \in EventRows(r.id, r.time) BY DEF Listed
<1>3. \A q \in server : q.id \in Old \cup New /\ q.time \in Times BY <1>0, ListedRows
<1>4. r.id = i /\ i \in Old \cup New /\ i \notin Virtual /\ i \notin Begun
 <2>1. r.id = i /\ i \in Old \cup New /\ i \notin Virtual BY <1>0, <1>1, <1>2, <1>3, Rows
 <2>2. g.old \notin Later[r.id][r.time] BY <1>0, <1>1, <1>3, <2>1, CalendarAssumption
 <2> QED BY <1>2, <2>1, <2>2 DEF EventRows
<1>5. /\ \A s \in server' : \E q \in server : /\ s.id = q.id
                                              /\ IF q.id = i THEN s.time = g.time ELSE s = q
      /\ \A q \in server : \E s \in server' : /\ s.id = q.id
                                              /\ IF q.id = i THEN s.time = g.time ELSE s = q
  BY <1>0, <1>1, RescheduledEvents
<1>6. shifted' = shifted \cup {k \in {i} : InstancesOf(k) # {}} BY <1>1 DEF DropTaken
<1>7. Outdated \subseteq Outdated' /\ InstancesOf(i) \subseteq Outdated' BY <1>6 DEF Outdated
<1>8. ASSUME NEW e \in Event, e.id \notin Outdated'
      PROVE  e \in Listed' <=> IF e.id = i THEN e.time = g.time ELSE e \in Listed
 <2>1. CASE e.id = i
  <3>1. ASSUME e \in Listed' PROVE e.time = g.time
   <4>1. PICK s \in server' : e \in EventRows(s.id, s.time) BY <3>1 DEF Listed
   <4>2. PICK q \in server : s.id = q.id /\ IF q.id = i THEN s.time = g.time ELSE s = q BY <1>5
   <4>3. s.id \in Old \cup New /\ s.time \in Times BY <1>0, <1>3, <4>2
   <4>4. e.id = s.id /\ e.time = s.time BY <1>4, <2>1, <4>1, <4>3, Rows
   <4> QED BY <2>1, <4>2, <4>4
  <3>2. ASSUME e.time = g.time PROVE e \in Listed'
   <4>1. PICK s \in server' : s.id = i /\ s.time = g.time BY <1>4, <1>5
   <4>2. e = [id |-> i, time |-> g.time] BY <2>1, <3>2 DEF Event
   <4>3. e \in EventRows(s.id, s.time) BY <1>4, <4>1, <4>2 DEF EventRows
   <4> QED BY <4>3 DEF Listed
  <3> QED BY <2>1, <3>1, <3>2
 <2>2. CASE e.id # i
  <3>1. \A t \in Times : e \notin EventRows(i, t) BY <1>4, <1>7, <1>8, <2>2, Rows
  <3>2. \A s \in server' : e \in EventRows(s.id, s.time) => s \in server BY <1>0, <1>5, <3>1
  <3>3. \A q \in server : e \in EventRows(q.id, q.time) => q \in server' BY <1>3, <1>5, <3>1
  <3> QED BY <2>2, <3>2, <3>3 DEF Listed
 <2> QED BY <2>1, <2>2
<1> QED BY <1>1, <1>7, <1>8

\* So saves and numbers stay what they are.
LEMMA ReschedulingKeeps ==
    ASSUME CalendarInv, NEW g \in drags \cup oldDrags, server' = Rescheduled(g),
           UNCHANGED <<saves, created, oldSaves>>
    PROVE  (\A k \in saves : SaveOK(k))' /\ EventsNumbered'
<1>1. /\ \A s \in server' : \E r \in server : s.id = r.id /\ s.people = r.people
      /\ \A r \in server : \E s \in server' : s.id = r.id /\ s.people = r.people
      /\ \A s \in server' : \A q \in server' : q.id = s.id => q = s
  BY RescheduledEvents
<1>2. (\A k \in saves : SaveOK(k))' BY <1>1 DEF CalendarInv, SaveOK
<1>3. EventsNumbered' BY <1>1 DEF CalendarInv, EventsNumbered
<1> QED BY <1>2, <1>3

LEMMA MoveIsTaken ==
    ASSUME CalendarInv, NEW g \in drags, DropTaken(g)
    PROVE  CalendarInv'
<1>0. CalendarTypeOK /\ g.base \in SUBSET Event /\ g.time \in Times
  BY DEF CalendarInv, CalendarTypeOK, Drag
<1>1. /\ drags' = drags \ {g} /\ server' = Rescheduled(g)
      /\ UNCHANGED <<page, dialog, form, events, created, load, answer, saves, steps, mixed,
                     oldSaves, oldDrags>>
      /\ g.old.id \notin Virtual \cup Samples
  BY DEF DropTaken, Known
<1>2. server' \in SUBSET Record /\ shifted' \in SUBSET (Old \cup New)
 <2>1. g.old.id \in Old \cup New BY <1>0, <1>1 DEF CalendarTypeOK, Drag, Event, Ids
 <2> QED BY <1>0, <1>1, <2>1, RescheduledEvents DEF DropTaken, CalendarTypeOK
<1>3. CalendarTypeOK' BY <1>0, <1>1, <1>2 DEF CalendarTypeOK
<1>4. IsFiniteSet(saves') /\ IsFiniteSet(drags') BY <1>1, FS_RemoveElement DEF CalendarInv
<1>5. (\A k \in saves : SaveOK(k))' /\ EventsNumbered' BY <1>1, ReschedulingKeeps
<1>6. ASSUME ~mixed' PROVE OneAtATime'
 <2>1. /\ drags' = {} /\ saves = {} /\ load = "done" /\ OneRowEach(events)
       /\ g.old \in g.base /\ OneRowEach(g.base) /\ AsStored(g.base)
       /\ events = Retimed(g.base, g.old.id, g.time)
   BY <1>1, <1>6 DEF CalendarInv, OneAtATime, CalendarTypeOK
 <2>2. g.old.id \notin Outdated /\ g.old \in Event BY <1>0, <1>1, <2>1, ListedRows DEF CalendarInv
 <2>3. g.old \in Listed BY <2>1, <2>2 DEF AsStored
 <2>4. /\ Outdated \subseteq Outdated'
       /\ \A e \in Event : e.id \notin Outdated' =>
             (e \in Listed' <=> IF e.id = g.old.id THEN e.time = g.time ELSE e \in Listed)
   BY <2>3, RescheduledRows
 <2>5. \A e \in Event : e \in events <=> IF e.id = g.old.id THEN e.time = g.time ELSE e \in g.base
   BY <1>0, <2>1, RetimedRows
 <2>6. AsStored(events)' BY <1>1, <2>1, <2>4, <2>5 DEF AsStored
 <2> QED BY <1>1, <2>1, <2>6 DEF OneAtATime, OneRowEach
<1> QED BY <1>3, <1>4, <1>5, <1>6 DEF CalendarInv

\* The old time is put back in the list of the drop.
LEMMA MoveIsLost ==
    ASSUME CalendarInv, NEW g \in drags, DropFails(g)
    PROVE  CalendarInv'
<1>0. CalendarTypeOK /\ g \in Drag BY DEF CalendarInv, CalendarTypeOK
<1>1. /\ drags' = drags \ {g} /\ events' = Retimed(g.base, g.old.id, g.old.time)
      /\ UNCHANGED <<page, dialog, form, created, load, answer, saves, steps,
                     oldSaves, oldDrags, shifted>>
      /\ UNCHANGED <<server, mixed>> \/ (server' = Rescheduled(g) /\ mixed' = TRUE)
  BY DEF DropFails, lateVars
<1>2. g.base \in SUBSET Event /\ g.old \in Event /\ g.old.time \in Times BY <1>0 DEF Drag, Event
<1>3. events' \in SUBSET Event BY <1>1, <1>2, RetimedEvents
<1>4. server' \in SUBSET Record BY <1>0, <1>1, RescheduledEvents DEF CalendarTypeOK
<1>5. CalendarTypeOK' BY <1>0, <1>1, <1>3, <1>4 DEF CalendarTypeOK
<1>6. IsFiniteSet(saves') /\ IsFiniteSet(drags') BY <1>1, FS_RemoveElement DEF CalendarInv
<1>7. (\A k \in saves : SaveOK(k))' /\ EventsNumbered'
 <2>1. CASE UNCHANGED <<server, mixed>> BY <1>1, <2>1 DEF CalendarInv, SaveOK, EventsNumbered
 <2>2. CASE server' = Rescheduled(g) BY <1>1, <2>2, ReschedulingKeeps
 <2> QED BY <1>1, <2>1, <2>2
<1>8. ASSUME ~mixed' PROVE OneAtATime'
 <2>1. /\ OneAtATime /\ drags' = {} /\ saves = {} /\ load = "done"
       /\ UNCHANGED <<server, mixed>>
   BY <1>1, <1>8 DEF CalendarInv, OneAtATime, CalendarTypeOK
 <2>2. g.old \in g.base /\ OneRowEach(g.base) /\ AsStored(g.base) BY <2>1 DEF OneAtATime
 <2>3. events' = g.base BY <1>1, <1>2, <2>2, RetimedRows
 <2>4. AsStored(events)' /\ OneRowEach(events)'
   BY <1>1, <2>1, <2>2, <2>3 DEF AsStored, OneRowEach, Listed, Outdated
 <2> QED BY <1>1, <2>1, <2>4 DEF OneAtATime
<1> QED BY <1>5, <1>6, <1>7, <1>8 DEF CalendarInv

-------------------------------------------------------------------------------
(* Requests of earlier pages. *)

LEMMA OldSaveIsTaken ==
    ASSUME CalendarInv, NEW j \in oldSaves, OldSaveTaken(j)
    PROVE  CalendarInv'
<1>0. CalendarTypeOK BY DEF CalendarInv
<1>1. /\ oldSaves' = oldSaves \ {j} /\ mixed' \in BOOLEAN
      /\ UNCHANGED <<page, dialog, form, events, load, answer, saves, drags, steps,
                     oldDrags, shifted>>
      /\ ~mixed' => ~mixed /\ load = "asked"
  BY DEF OldSaveTaken, OldStep
<1>2. server' \in SUBSET Record /\ created' \in 0 .. MaxNew
      /\ (\A k \in saves : SaveOK(k))' /\ EventsNumbered'
 <2>1. CASE Made(j)
  <3>1. \A k \in saves : SaveOK(k)' BY <2>1, SavesKeepEvents
  <3>2. \A l \in oldSaves : l.id <= created' BY <2>1, OldNumbers
  <3>3. /\ created' \in 0 .. MaxNew /\ server' \in SUBSET Record
        /\ \A r \in server' : /\ \A s \in server' : s.id = r.id => s = r
                              /\ r.id \in New => r.id <= created'
    BY <2>1, MadeEvents
  <3> QED BY <1>1, <3>1, <3>2, <3>3 DEF CalendarInv, EventsNumbered
 <2>2. ASSUME NEW p \in j.todo, j.next = "invite", server' = Invited(j, p), UNCHANGED created
       PROVE  server' \in SUBSET Record /\ created' \in 0 .. MaxNew
              /\ (\A k \in saves : SaveOK(k))' /\ EventsNumbered'
  <3>1. p \in People /\ j.id # 0 /\ \A k \in saves : k.id # j.id
    BY <1>0, <2>2, SaveFields DEF CalendarInv, EventsNumbered
  <3>2. /\ server' \in SUBSET Record
        /\ \A r \in server : r.id # j.id => r \in server'
        /\ \A s \in server' : /\ \A t \in server' : t.id = s.id => t = s
                              /\ s.id \in New => s.id <= created
    BY <2>2, <3>1, InvitedEvents
  <3>3. (\A k \in saves : SaveOK(k))' BY <1>1, <2>2, <3>1, <3>2 DEF CalendarInv, SaveOK
  <3> QED BY <1>0, <1>1, <2>2, <3>2, <3>3 DEF CalendarInv, EventsNumbered, CalendarTypeOK
 <2> QED BY <2>1, <2>2 DEF OldSaveTaken
<1>3. CalendarTypeOK' BY <1>0, <1>1, <1>2 DEF CalendarTypeOK
<1>4. ~mixed' => OneAtATime' BY <1>1 DEF CalendarInv, OneAtATime, OneRowEach
<1> QED BY <1>1, <1>2, <1>3, <1>4 DEF CalendarInv

LEMMA OldDropIsTaken ==
    ASSUME CalendarInv, NEW g \in oldDrags, OldDropTaken(g)
    PROVE  CalendarInv'
<1>0. CalendarTypeOK BY DEF CalendarInv
<1>1. /\ oldDrags' = oldDrags \ {g} /\ mixed' \in BOOLEAN /\ server' = Rescheduled(g)
      /\ UNCHANGED <<page, dialog, form, events, load, answer, saves, drags, steps, created,
                     oldSaves, shifted>>
      /\ ~mixed' => ~mixed /\ load = "asked"
  BY DEF OldDropTaken, OldStep
<1>2. (\A k \in saves : SaveOK(k))' /\ EventsNumbered' BY <1>1, ReschedulingKeeps
<1>3. CalendarTypeOK' BY <1>0, <1>1, RescheduledEvents DEF CalendarTypeOK
<1>4. ~mixed' => OneAtATime' BY <1>1 DEF CalendarInv, OneAtATime, OneRowEach
<1> QED BY <1>1, <1>2, <1>3, <1>4 DEF CalendarInv

-------------------------------------------------------------------------------
(* What the invariant shows. *)

LEMMA CalendarNextOK == CalendarInv /\ [CalendarNext]_calVars => CalendarInv'
<1> SUFFICES ASSUME CalendarInv, [CalendarNext]_calVars PROVE CalendarInv' OBVIOUS
<1>1. CASE LoadServed \/ LoadAnswered \/ LoadFails \/ Reload
  BY <1>1, LoadIsServed, LoadArrives, LoadIsLost, PageReloads
<1>2. CASE \/ AuthAnswered \/ NewEarly \/ NewAgain \/ OpenDialog \/ CloseDialog \/ ClearTime
           \/ \E t \in Times : SetTime(t)
           \/ \E p \in People : ToggleAttendee(p)
  BY <1>2, DialogMoves, DialogKeeps
<1>3. CASE SaveClicked BY <1>3, SaveIsClicked
<1>4. CASE \E j \in saves : CreateTaken(j) \/ CreateFails(j) \/ Refreshed(j)
                            \/ \E p \in People : Invite(j, p)
  BY <1>4, CreateIsTaken, CreateIsLost, SaveIsRefreshed, PersonIsInvited
<1>5. CASE \E e \in events, t \in Times, over \in BOOLEAN : Drop(e, t, over) BY <1>5, EventIsDropped
<1>6. CASE \E g \in drags : DropTaken(g) \/ DropFails(g) BY <1>6, MoveIsTaken, MoveIsLost
<1>8. CASE \/ \E j \in oldSaves : OldSaveTaken(j)
           \/ \E g \in oldDrags : OldDropTaken(g)
  BY <1>8, OldSaveIsTaken, OldDropIsTaken
<1>7. CASE UNCHANGED calVars
 <2>1. DialogStep BY <1>7 DEF calVars, DialogStep, CalendarInv, CalendarTypeOK, lateVars
 <2> QED BY <2>1, DialogKeeps
<1> QED BY <1>1, <1>2, <1>3, <1>4, <1>5, <1>6, <1>7, <1>8 DEF CalendarNext

LEMMA InvSettlesCalendar == CalendarInv => CalendarSettles
<1> SUFFICES ASSUME CalendarInv PROVE CalendarSettles OBVIOUS
<1>1. ShownIsStored
 <2> SUFFICES ASSUME load = "done", Busy = 0, ~mixed PROVE AsStored(events) BY DEF ShownIsStored
 <2>1. ~(Busy > 0) OBVIOUS
 <2>2. saves = {} /\ drags = {} BY <2>1, Counted DEF CalendarInv
 <2> QED BY <2>2 DEF CalendarInv, OneAtATime
<1>2. SavedAsWritten BY DEF SavedAsWritten, CalendarInv, SaveOK, EventsNumbered
<1> QED BY <1>1, <1>2 DEF CalendarSettles

\* The server changes by the step of a save or of a move.
LEMMA AskedChanges ==
    CalendarInv /\ [CalendarNext]_calVars =>
        \A r \in server :
            \/ r \in server'
            \/ \E g \in drags \cup oldDrags :
                g.old.id = r.id /\ [r EXCEPT !.time = g.time] \in server'
            \/ \E j \in saves \cup oldSaves :
                                /\ j.id = r.id
                                /\ \E p \in j.form.people :
                                      [r EXCEPT !.people = @ \cup {p}] \in server'
<1> SUFFICES ASSUME CalendarInv, [CalendarNext]_calVars, NEW r \in server
             PROVE  \/ r \in server'
                    \/ \E g \in drags \cup oldDrags :
                          g.old.id = r.id /\ [r EXCEPT !.time = g.time] \in server'
                    \/ \E j \in saves \cup oldSaves :
                                        /\ j.id = r.id
                                        /\ \E p \in j.form.people :
                                              [r EXCEPT !.people = @ \cup {p}] \in server'
  OBVIOUS
<1>1. CASE server \subseteq server' BY <1>1
<1>2. CASE \E g \in drags \cup oldDrags : server' = Rescheduled(g) BY <1>2 DEF Rescheduled
<1>3. CASE \E j \in saves \cup oldSaves : \E p \in j.form.people : server' = Invited(j, p)
  BY <1>3 DEF Invited
<1>4. \A j \in saves \cup oldSaves : j.todo \subseteq j.form.people
  BY DEF CalendarInv, SaveOK, EventsNumbered
<1>5. \/ server \subseteq server'
      \/ \E g \in drags \cup oldDrags : server' = Rescheduled(g)
      \/ \E j \in saves \cup oldSaves : \E p \in j.todo : server' = Invited(j, p)
  BY DEF CalendarNext, calVars, AuthAnswered, LoadServed, LoadAnswered, LoadFails, NewEarly,
         NewAgain, OpenDialog, CloseDialog, Reload, ClearTime, SaveClicked, SetTime,
         ToggleAttendee, CreateTaken, CreateFails, Refreshed, Drop, DropTaken, DropFails,
         Made, Invite, OldSaveTaken, OldDropTaken
<1> QED BY <1>1, <1>2, <1>3, <1>4, <1>5

-------------------------------------------------------------------------------
(* V. The drive application. *)

Kinds == {"mark", "unmark", "move", "bulk", "restore", "empty", "delete", "rmdir", "rename",
          "mkdir"}

DeletionRecord == [n: Nat, asked: BOOLEAN, failed: BOOLEAN, files: Seq(Copy),
                   folders: SUBSET Subfolders, todo: SUBSET Items]
ChangeRecord   == [n: Nat, kind: Kinds, todo: SUBSET (Items \cup Places),
                   to: Places \cup {NoFolder}, files: Seq(Copy), folders: SUBSET Subfolders,
                   single: BOOLEAN, failed: BOOLEAN]

UndoRecord     == [n: 0 .. MaxDriveActs, files: Seq(Copy), folders: SUBSET Subfolders]

\* The types of the variables, what is under way included.
DriveVarTypes ==
    /\ DriveTypeOK
    /\ IsFiniteSet(DOMAIN rows) /\ IsFiniteSet(chosen)
    /\ undo \in UndoRecord
    /\ deletions \subseteq DeletionRecord /\ changes \subseteq ChangeRecord

\* The deletions are numbered, and the Undo of the toast brings back what its deletion removed.
DeletionsNumbered ==
    /\ undo.n <= driveActs
    /\ \A d \in deletions :
          /\ d.n \in 1 .. driveActs
          /\ d.n = undo.n => undo.files = d.files /\ undo.folders = d.folders
          /\ \A e \in deletions : e.n = d.n => e = d

\* What was undone in time is not trashed, and no request that may trash it is under way.
SparedFiles ==
    /\ \A f \in spared : f \in DOMAIN rows /\ ~rows[f].trashed
    /\ \A d \in deletions : d.todo \cap spared = {}
    /\ \A c \in changes : /\ c.kind = "delete" => c.todo \cap spared = {}
                          /\ c.kind \in {"rmdir", "mkdir"} => c.todo \subseteq Subfolders

\* A list has the files of a set, each once and marked as in its row.
AreRows(list, ids, rs) ==
    /\ IdsOf(list) = ids
    /\ \A k, l \in DOMAIN list : list[k].id = list[l].id => k = l
    /\ \A k \in DOMAIN list : list[k].marked = rs[list[k].id].marked

FoldersOf(p) == IF p = Root THEN dirs ELSE {}

\* The lists are those of the place that is shown.
Agreed(fs, ds) == AreRows(fs, FilesOf(place), rows) /\ ds = FoldersOf(place)

\* What has left the lists and not yet the server.
Waiting == UNION {d.todo : d \in deletions}

DeletionOK(d) ==
    /\ ~d.failed
    /\ d.todo \subseteq FilesOf(place) \cup FoldersOf(place)
    /\ d.todo \subseteq IdsOf(d.files) \cup d.folders
    /\ ~d.asked => IdsOf(d.files) \cup d.folders \subseteq d.todo
    /\ \A k, l \in DOMAIN d.files : d.files[k].id = d.files[l].id => k = l
    /\ \A k \in DOMAIN d.files :
          d.files[k].id \in d.todo => d.files[k].marked = rows[d.files[k].id].marked
    /\ \A e \in deletions : e # d => e.todo \cap d.todo = {}

\* What a change sets once it is answered for.
SetFiles(c)   == IF c.kind \in {"rename", "rmdir", "mkdir", "delete"} THEN files ELSE c.files
SetFolders(c) == IF c.kind \in {"rename", "rmdir", "mkdir"} THEN c.folders ELSE folders

\* A change that the server has not answered for: what it sets is what there will be.
ChangeWaits(c) ==
    \/ /\ c.kind \in {"mark", "unmark"} /\ c.single /\ place \notin {StarredView, Trash}
       /\ \E f \in FilesOf(place) : c.todo = {f} /\ c.files = Marked(f, c.kind = "mark")
    \/ /\ c.kind \in {"move", "bulk"} /\ place \in Folders /\ c.to # place
       /\ AreRows(c.files, FilesOf(place) \ c.todo, rows) /\ folders = FoldersOf(place)
    \/ /\ c.kind = "restore" /\ c.single /\ place = Trash
       /\ AreRows(c.files, FilesOf(place) \ c.todo, rows)
    \/ /\ c.kind = "empty" /\ c.single /\ place = Trash /\ c.files = <<>>
    \/ /\ c.kind = "rename" /\ c.single /\ c.folders = folders
    \/ /\ c.kind = "rmdir" /\ c.single /\ place = Root
       /\ \E i \in Subfolders : /\ c.todo = {i} /\ c.folders = folders \ {i}
                                /\ \A f \in DOMAIN rows : rows[f].folder # i
    \/ /\ c.kind = "mkdir" /\ c.single /\ place \notin Subfolders /\ c.to = place
       /\ \E i \in Subfolders : c.todo = {i} /\ c.folders = folders \cup {i}

ChangeOK(c) ==
    /\ c.failed => c.single /\ c.todo = {}
    /\ c.single => \E x : c.todo \subseteq {x}
    /\ c.single /\ (c.failed \/ c.todo # {}) => Agreed(files, folders)
    /\ ~c.failed /\ c.todo = {} => Agreed(SetFiles(c), SetFolders(c))
    /\ c.todo # {} => ChangeWaits(c)

\* What is shown, and under way, while the list does not differ from the server.
ListsAgree ==
    /\ placeLoad # "done" => changes = {} /\ deletions = {}
    /\ placeLoad = "served" => Agreed(placeAnswer.files, placeAnswer.folders)
    /\ placeLoad = "done" /\ changes = {} =>
          /\ AreRows(files, FilesOf(place) \ Waiting, rows)
          /\ folders = FoldersOf(place) \ Waiting
          /\ \A d \in deletions : DeletionOK(d)
    /\ changes # {} => deletions = {} /\ \E c \in changes : changes = {c} /\ ChangeOK(c)

DriveInv ==
    /\ DriveVarTypes /\ DeletionsNumbered /\ SparedFiles
    /\ ~off => ListsAgree

-------------------------------------------------------------------------------
(* Lists of copies. *)

LEMMA ConstantsOfDrive ==
    /\ Folders = {Root} \cup Subfolders /\ Places = Folders \cup Views
    /\ Root \notin Subfolders /\ NoFolder \notin Folders
    /\ Views \subseteq {Trash, StarredView, Recent}
    /\ Trash \notin Folders /\ StarredView \notin Folders /\ Recent \notin Folders
    /\ Trash # StarredView /\ Trash # Recent /\ StarredView # Recent
    /\ Subfolders \cap (FileIds \cup SampleFiles) = {}
    /\ IsFiniteSet(OldFiles) /\ IsFiniteSet(SampleFiles)
    /\ MaxUploads \in Nat /\ MaxDriveActs \in Nat
    /\ FileIds = OldFiles \cup Uploaded /\ Uploaded = 1 .. MaxUploads
    /\ Items = FileIds \cup SampleFiles \cup Subfolders
  BY DriveAssumption DEF Folders, Places, FileIds, Uploaded, Items

\* The elements of a finite set of numbers, in their order, are all of it.
LEMMA NthIsAll ==
    ASSUME NEW S, NEW b \in Nat, S \subseteq 0 .. b
    PROVE  /\ Cardinality(S) \in Nat
           /\ \A i \in 1 .. Cardinality(S) : NthAt(S, i) \in S
           /\ \A i, j \in 1 .. Cardinality(S) : NthAt(S, i) = NthAt(S, j) => i = j
           /\ \A k \in S : \E i \in 1 .. Cardinality(S) : NthAt(S, i) = k
<1>1. IsFiniteSet(S)
 <2>1. IsFiniteSet(0 .. b) BY FS_Interval
 <2> QED BY <2>1, FS_Subset
<1>2. S \subseteq Nat OBVIOUS
<1>3. \A i : NthAt(S, i) = NthIn(S, i) BY DEF NthAt, NthIn
<1>4. /\ Cardinality(S) \in Nat
      /\ \A i \in 1 .. Cardinality(S) : NthIn(S, i) \in S
      /\ \A i, j \in 1 .. Cardinality(S) : NthIn(S, i) = NthIn(S, j) => i = j
      /\ \A k \in S : \E i \in 1 .. Cardinality(S) : NthIn(S, i) = k
  BY <1>1, <1>2, NthInIsAll
<1> QED BY <1>3, <1>4

LEMMA CopyFields ==
    \A list \in Seq(Copy) : \A k \in DOMAIN list :
        /\ list[k] \in Copy /\ list[k].id \in FileIds \cup SampleFiles /\ list[k].marked \in BOOLEAN
        /\ list[k].id \notin Subfolders /\ list[k].id \in Items
<1> SUFFICES ASSUME NEW list \in Seq(Copy), NEW k \in DOMAIN list
             PROVE  /\ list[k] \in Copy /\ list[k].id \in FileIds \cup SampleFiles
                    /\ list[k].marked \in BOOLEAN
                    /\ list[k].id \notin Subfolders /\ list[k].id \in Items
  OBVIOUS
<1>1. list[k] \in Copy OBVIOUS
<1> QED BY <1>1, ConstantsOfDrive DEF Copy

LEMMA OnlyRows ==
    ASSUME NEW list \in Seq(Copy), NEW ids
    PROVE  /\ Only(list, ids) \in Seq(Copy) /\ IdsOf(Only(list, ids)) = IdsOf(list) \cap ids
           /\ \A S, rs : AreRows(list, S, rs) => AreRows(Only(list, ids), S \cap ids, rs)
<1> DEFINE at == {k \in DOMAIN list : list[k].id \in ids}
           n  == Cardinality(at)
           only == [i \in 1 .. n |-> list[NthAt(at, i)]]
<1>1. Len(list) \in Nat /\ DOMAIN list = 1 .. Len(list) OBVIOUS
<1>2. at \subseteq 0 .. Len(list) BY <1>1
<1>3. /\ n \in Nat
      /\ \A i \in 1 .. n : NthAt(at, i) \in at
      /\ \A i, j \in 1 .. n : NthAt(at, i) = NthAt(at, j) => i = j
      /\ \A k \in at : \E i \in 1 .. n : NthAt(at, i) = k
 <2> HIDE DEF at
 <2> QED BY <1>1, <1>2, NthIsAll
<1>4. Only(list, ids) = only BY DEF Only
<1>5. \A k \in at : k \in DOMAIN list /\ list[k].id \in ids /\ list[k] \in Copy BY CopyFields
<1>6. \A k \in DOMAIN list : list[k].id \in ids => k \in at OBVIOUS
<1> HIDE DEF at, n
<1>7. DOMAIN only = 1 .. n /\ \A i \in 1 .. n : only[i] = list[NthAt(at, i)] OBVIOUS
<1>8. \A i \in 1 .. n : only[i] \in Copy BY <1>3, <1>5
<1>9. only \in Seq(Copy) BY <1>3, <1>8
<1>10. IdsOf(only) = IdsOf(list) \cap ids
 <2> HIDE DEF only
 <2>1. IdsOf(only) \subseteq IdsOf(list) \cap ids BY <1>3, <1>5, <1>7 DEF IdsOf
 <2>2. ASSUME NEW x \in IdsOf(list) \cap ids PROVE x \in IdsOf(only)
  <3>1. PICK k \in DOMAIN list : list[k].id = x BY DEF IdsOf
  <3>2. PICK i \in 1 .. n : NthAt(at, i) = k BY <1>3, <1>6, <3>1
  <3>3. i \in DOMAIN only /\ only[i].id = x BY <1>7, <3>1, <3>2
  <3> QED BY <3>3 DEF IdsOf
 <2> QED BY <2>1, <2>2
<1>11. ASSUME NEW S, NEW rs, AreRows(list, S, rs)
       PROVE  AreRows(only, S \cap ids, rs)
 <2> HIDE DEF only
 <2>1. IdsOf(only) = S \cap ids BY <1>10, <1>11 DEF AreRows
 <2>2. ASSUME NEW i \in DOMAIN only, NEW j \in DOMAIN only, only[i].id = only[j].id
       PROVE  i = j
  <3>1. i \in 1 .. n /\ j \in 1 .. n BY <1>7
  <3>2. NthAt(at, i) \in DOMAIN list /\ NthAt(at, j) \in DOMAIN list BY <1>3, <1>5, <3>1
  <3>3. NthAt(at, i) = NthAt(at, j) BY <1>7, <1>11, <2>2, <3>1, <3>2 DEF AreRows
  <3> QED BY <1>3, <3>1, <3>3
 <2>3. ASSUME NEW i \in DOMAIN only PROVE only[i].marked = rs[only[i].id].marked
  <3>1. i \in 1 .. n BY <1>7
  <3>2. NthAt(at, i) \in DOMAIN list BY <1>3, <1>5, <3>1
  <3> QED BY <1>7, <1>11, <3>1, <3>2 DEF AreRows
 <2> QED BY <2>1, <2>2, <2>3 DEF AreRows
<1> QED BY <1>4, <1>9, <1>10, <1>11

LEMMA MinusRows ==
    ASSUME NEW list \in Seq(Copy), NEW ids
    PROVE  /\ Minus(list, ids) \in Seq(Copy)
           /\ \A S, rs : AreRows(list, S, rs) => AreRows(Minus(list, ids), S \ ids, rs)
<1>1. Minus(list, ids) = Only(list, IdsOf(list) \ ids) BY DEF Minus
<1>2. ASSUME NEW S, NEW rs, AreRows(list, S, rs)
      PROVE  AreRows(Minus(list, ids), S \ ids, rs)
 <2>1. S \cap (IdsOf(list) \ ids) = S \ ids BY <1>2 DEF AreRows
 <2>2. AreRows(Only(list, IdsOf(list) \ ids), S \cap (IdsOf(list) \ ids), rs) BY <1>2, OnlyRows
 <2> QED BY <1>1, <2>1, <2>2
<1> QED BY <1>1, <1>2, OnlyRows

LEMMA JoinedRows ==
    ASSUME NEW fs \in Seq(Copy), NEW gs \in Seq(Copy)
    PROVE  /\ fs \o gs \in Seq(Copy)
           /\ \A S, T, rs : AreRows(fs, S, rs) /\ AreRows(gs, T, rs) /\ S \cap T = {}
                                => AreRows(fs \o gs, S \cup T, rs)
<1> DEFINE fg == fs \o gs
<1>1. /\ Len(fs) \in Nat /\ Len(gs) \in Nat
      /\ DOMAIN fs = 1 .. Len(fs) /\ DOMAIN gs = 1 .. Len(gs)
      /\ DOMAIN fg = 1 .. Len(fs) + Len(gs)
      /\ \A k \in 1 .. Len(fs) : fg[k] = fs[k]
      /\ \A k \in 1 .. Len(gs) : fg[Len(fs) + k] = gs[k]
      /\ fg \in Seq(Copy)
  OBVIOUS
<1> HIDE DEF fg
<1>2. ASSUME NEW S, NEW T, NEW rs, AreRows(fs, S, rs), AreRows(gs, T, rs), S \cap T = {}
      PROVE  AreRows(fg, S \cup T, rs)
 <2>1. \A k \in 1 .. Len(fs) : /\ k \in DOMAIN fg /\ fg[k] = fs[k] /\ fs[k].id \in S
                               /\ fs[k].marked = rs[fs[k].id].marked
   BY <1>1, <1>2 DEF AreRows, IdsOf
 <2>2. \A k \in 1 .. Len(gs) : /\ Len(fs) + k \in DOMAIN fg /\ fg[Len(fs) + k] = gs[k]
                               /\ gs[k].id \in T /\ gs[k].marked = rs[gs[k].id].marked
   BY <1>1, <1>2 DEF AreRows, IdsOf
 <2>3. \A k \in DOMAIN fg : k \in 1 .. Len(fs) \/ \E l \in 1 .. Len(gs) : k = Len(fs) + l
  <3>1. SUFFICES ASSUME NEW k \in DOMAIN fg, k \notin 1 .. Len(fs)
                 PROVE  \E l \in 1 .. Len(gs) : k = Len(fs) + l
    OBVIOUS
  <3>2. k - Len(fs) \in 1 .. Len(gs) /\ k = Len(fs) + (k - Len(fs)) BY <1>1, <3>1
  <3> QED BY <3>2
 <2>4. IdsOf(fg) = S \cup T
  <3>1. IdsOf(fg) \subseteq S \cup T BY <2>1, <2>2, <2>3 DEF IdsOf
  <3>2. \A x \in S : x \in IdsOf(fg)
   <4>1. \A x \in S : \E k \in 1 .. Len(fs) : fs[k].id = x BY <1>1, <1>2 DEF AreRows, IdsOf
   <4> QED BY <2>1, <4>1 DEF IdsOf
  <3>3. \A x \in T : x \in IdsOf(fg)
   <4>1. \A x \in T : \E k \in 1 .. Len(gs) : gs[k].id = x BY <1>1, <1>2 DEF AreRows, IdsOf
   <4>2. SUFFICES ASSUME NEW x \in T PROVE x \in IdsOf(fg) OBVIOUS
   <4>3. PICK k \in 1 .. Len(gs) : gs[k].id = x BY <4>1
   <4>4. Len(fs) + k \in DOMAIN fg /\ fg[Len(fs) + k].id = x BY <2>2, <4>3
   <4> QED BY <4>4 DEF IdsOf
  <3> QED BY <3>1, <3>2, <3>3
 <2>5. ASSUME NEW k \in DOMAIN fg, NEW l \in DOMAIN fg, fg[k].id = fg[l].id
       PROVE  k = l
  <3>1. CASE k \in 1 .. Len(fs) /\ l \in 1 .. Len(fs) BY <1>1, <1>2, <2>1, <2>5, <3>1 DEF AreRows
  <3>2. CASE k \in 1 .. Len(fs) /\ l \notin 1 .. Len(fs)
   <4>1. fg[k].id \in S /\ fg[l].id \in T BY <2>1, <2>2, <2>3, <3>2
   <4> QED BY <1>2, <2>5, <4>1
  <3>3. CASE k \notin 1 .. Len(fs) /\ l \in 1 .. Len(fs)
   <4>1. fg[l].id \in S /\ fg[k].id \in T BY <2>1, <2>2, <2>3, <3>3
   <4> QED BY <1>2, <2>5, <4>1
  <3>4. CASE k \notin 1 .. Len(fs) /\ l \notin 1 .. Len(fs)
   <4>1. PICK p \in 1 .. Len(gs), q \in 1 .. Len(gs) : k = Len(fs) + p /\ l = Len(fs) + q
     BY <2>3, <3>4
   <4>2. gs[p].id = gs[q].id BY <2>2, <2>5, <4>1
   <4>3. p = q BY <1>1, <1>2, <4>2 DEF AreRows
   <4> QED BY <4>1, <4>3
  <3> QED BY <3>1, <3>2, <3>3, <3>4
 <2>6. \A k \in DOMAIN fg : fg[k].marked = rs[fg[k].id].marked
  <3>1. SUFFICES ASSUME NEW k \in DOMAIN fg PROVE fg[k].marked = rs[fg[k].id].marked OBVIOUS
  <3>2. CASE k \in 1 .. Len(fs) BY <2>1, <3>2
  <3>3. CASE \E l \in 1 .. Len(gs) : k = Len(fs) + l BY <2>2, <3>3
  <3> QED BY <2>3, <3>2, <3>3
 <2> QED BY <2>4, <2>5, <2>6 DEF AreRows
<1> QED BY <1>1, <1>2 DEF fg

LEMMA SameRows ==
    \A list, S, rs, qs :
        AreRows(list, S, rs) /\ (\A f \in S : qs[f].marked = rs[f].marked) => AreRows(list, S, qs)
  BY DEF AreRows, IdsOf

\* A list with each file once is as long as the set of its files.
LEMMA RowsCounted ==
    ASSUME NEW list \in Seq(Copy), NEW S, NEW rs, AreRows(list, S, rs)
    PROVE  Len(list) = Cardinality(IdsOf(list))
<1> DEFINE f == [k \in 1 .. Len(list) |-> list[k].id]
<1>1. Len(list) \in Nat /\ DOMAIN list = 1 .. Len(list) OBVIOUS
<1>2. f \in Bijection(1 .. Len(list), IdsOf(list))
 <2>1. f \in [1 .. Len(list) -> IdsOf(list)] BY <1>1 DEF IdsOf
 <2>2. \A k, l \in 1 .. Len(list) : f[k] = f[l] => k = l BY <1>1 DEF AreRows
 <2>3. \A x \in IdsOf(list) : \E k \in 1 .. Len(list) : f[k] = x BY <1>1 DEF IdsOf
 <2> QED BY <2>1, <2>2, <2>3 DEF Bijection, Injection, Surjection, IsInjective
<1>3. IsFiniteSet(1 .. Len(list)) /\ Cardinality(1 .. Len(list)) = Len(list) BY <1>1, FS_Interval
<1> QED BY <1>2, <1>3, FS_Bijection DEF ExistsBijection

LEMMA SeqOfSet ==
    ASSUME NEW S, IsFiniteSet(S)
    PROVE  /\ Cardinality(S) \in Nat
           /\ SetToSeq(S) \in [1 .. Cardinality(S) -> S]
           /\ \A k, l \in 1 .. Cardinality(S) : SetToSeq(S)[k] = SetToSeq(S)[l] => k = l
           /\ \A x \in S : \E k \in 1 .. Cardinality(S) : SetToSeq(S)[k] = x
<1> DEFINE n == Cardinality(S)
<1>1. n \in Nat /\ ExistsBijection(1 .. n, S) BY FS_CardinalityType
<1>2. \E f \in [1 .. n -> S] : IsInjective(f) BY <1>1 DEF ExistsBijection, Bijection, Injection
<1>3. SetToSeq(S) \in [1 .. n -> S] /\ IsInjective(SetToSeq(S)) BY <1>2 DEF SetToSeq
<1>4. PICK f : f = SetToSeq(S) OBVIOUS
<1>5. f \in Injection(1 .. n, S) BY <1>3, <1>4 DEF Injection
<1>6. IsFiniteSet(1 .. n) /\ Cardinality(1 .. n) = n BY <1>1, FS_Interval
<1>7. f \in Surjection(1 .. n, S) BY <1>5, <1>6, FS_Injection
<1>8. \A x \in S : \E k \in 1 .. n : f[k] = x BY <1>7 DEF Surjection
<1>9. \A k, l \in 1 .. n : f[k] = f[l] => k = l BY <1>3, <1>4 DEF IsInjective
<1> QED BY <1>1, <1>3, <1>4, <1>8, <1>9

\* The rows of the server.
LEMMA RowFields ==
    DriveVarTypes => /\ DOMAIN rows \subseteq FileIds
                     /\ \A f \in DOMAIN rows : /\ rows[f] \in [folder: Folders, trashed: BOOLEAN, marked: BOOLEAN]
                                               /\ f \notin Subfolders
                     /\ \A p : FilesOf(p) \subseteq DOMAIN rows
                     /\ \A p : FilesOf(p) \cap Subfolders = {} /\ FoldersOf(p) \subseteq Subfolders
<1> SUFFICES ASSUME DriveVarTypes
             PROVE  /\ DOMAIN rows \subseteq FileIds
                    /\ \A f \in DOMAIN rows : /\ rows[f] \in [folder: Folders, trashed: BOOLEAN, marked: BOOLEAN]
                                              /\ f \notin Subfolders
                    /\ \A p : FilesOf(p) \subseteq DOMAIN rows
                    /\ \A p : FilesOf(p) \cap Subfolders = {} /\ FoldersOf(p) \subseteq Subfolders
  OBVIOUS
<1>1. DOMAIN rows \subseteq FileIds
      /\ \A f \in DOMAIN rows : rows[f] \in [folder: Folders, trashed: BOOLEAN, marked: BOOLEAN]
  BY DEF DriveVarTypes, DriveTypeOK
<1>2. \A f \in FileIds : f \notin Subfolders BY ConstantsOfDrive
<1>3. ASSUME NEW p PROVE FilesOf(p) \subseteq DOMAIN rows BY DEF FilesOf, Trashed
<1>4. dirs \subseteq Subfolders BY DEF DriveVarTypes, DriveTypeOK
<1>5. ASSUME NEW p PROVE FoldersOf(p) \subseteq Subfolders BY <1>4 DEF FoldersOf
<1> QED BY <1>1, <1>2, <1>3, <1>5

\* What a load finds is the place.
LEMMA ContentsAgree ==
    ASSUME DriveVarTypes, NEW p
    PROVE  /\ Contents(p) \in View
           /\ AreRows(Contents(p).files, FilesOf(p), rows) /\ Contents(p).folders = FoldersOf(p)
<1>1. PICK S : S = FilesOf(p) OBVIOUS
<1>2. S \subseteq DOMAIN rows /\ S \subseteq FileIds BY <1>1, RowFields
<1>3. IsFiniteSet(S) BY <1>2, FS_Subset DEF DriveVarTypes
<1>4. PICK f : f = SetToSeq(S) OBVIOUS
<1>5. PICK n \in Nat : n = Cardinality(S) BY <1>3, SeqOfSet
<1>6. /\ f \in [1 .. n -> S] /\ \A k, l \in 1 .. n : f[k] = f[l] => k = l
      /\ \A x \in S : \E k \in 1 .. n : f[k] = x
  BY <1>3, <1>4, <1>5, SeqOfSet
<1>7. PICK list : list = [k \in 1 .. n |-> [id |-> f[k], marked |-> rows[f[k]].marked]] OBVIOUS
<1>8. DOMAIN f = 1 .. n BY <1>6
<1>9. Contents(p).files = list /\ Contents(p).folders = FoldersOf(p)
      /\ Contents(p) = [files |-> list, folders |-> FoldersOf(p)]
  BY <1>1, <1>4, <1>7, <1>8 DEF Contents, FoldersOf
<1>10. \A k \in 1 .. n : f[k] \in S /\ f[k] \in FileIds /\ rows[f[k]].marked \in BOOLEAN
  BY <1>2, <1>6, RowFields
<1>11. \A k \in 1 .. n : list[k] \in Copy /\ list[k].id = f[k] /\ list[k].marked = rows[f[k]].marked
  BY <1>7, <1>10 DEF Copy
<1>12. DOMAIN list = 1 .. n /\ list \in Seq(Copy)
 <2>1. list = [k \in 1 .. n |-> list[k]] BY <1>7
 <2> QED BY <1>11, <2>1
<1>13. AreRows(list, S, rows)
 <2>1. IdsOf(list) = S BY <1>6, <1>11, <1>12 DEF IdsOf
 <2> QED BY <1>6, <1>11, <1>12, <2>1 DEF AreRows
<1>14. FoldersOf(p) \subseteq Subfolders BY RowFields
<1> QED BY <1>1, <1>9, <1>12, <1>13, <1>14 DEF View

LEMMA MarkedRows ==
    ASSUME files \in Seq(Copy), NEW f, NEW b \in BOOLEAN
    PROVE  /\ Marked(f, b) \in Seq(Copy)
           /\ \A S, rs, qs :
                 /\ AreRows(files, S, rs) /\ \A g \in S : g # f => qs[g].marked = rs[g].marked
                 /\ qs[f].marked = b
                 => AreRows(Marked(f, b), S, qs)
<1>1. PICK list : list = Marked(f, b) OBVIOUS
<1>2. /\ DOMAIN list = DOMAIN files
      /\ \A k \in DOMAIN files : list[k] = IF files[k].id = f THEN [files[k] EXCEPT !.marked = b] ELSE files[k]
  BY <1>1 DEF Marked
<1>3. \A k \in DOMAIN files : files[k] \in Copy OBVIOUS
<1>4. \A k \in DOMAIN files :
         /\ list[k] \in Copy /\ list[k].id = files[k].id
         /\ list[k].marked = IF files[k].id = f THEN b ELSE files[k].marked
  BY <1>2, <1>3 DEF Copy
<1>5. Len(files) \in Nat /\ DOMAIN files = 1 .. Len(files) OBVIOUS
<1>6. list \in Seq(Copy)
 <2>1. list = [k \in 1 .. Len(files) |-> list[k]] BY <1>1, <1>5 DEF Marked
 <2> QED BY <1>4, <1>5, <2>1
<1>7. ASSUME NEW S, NEW rs, NEW qs, AreRows(files, S, rs),
             \A g \in S : g # f => qs[g].marked = rs[g].marked, qs[f].marked = b
      PROVE  AreRows(list, S, qs)
 <2>1. IdsOf(list) = S BY <1>2, <1>4, <1>7 DEF AreRows, IdsOf
 <2>2. \A k \in DOMAIN files : files[k].id \in S BY <1>7 DEF AreRows, IdsOf
 <2> QED BY <1>2, <1>4, <1>7, <2>1, <2>2 DEF AreRows
<1> QED BY <1>1, <1>6, <1>7

-------------------------------------------------------------------------------
(* The types. *)

ServerTypes ==
    /\ DOMAIN rows \subseteq FileIds /\ blobs \subseteq FileIds /\ dirs \subseteq Subfolders
    /\ \A f \in DOMAIN rows : rows[f] \in [folder: Folders, trashed: BOOLEAN, marked: BOOLEAN]
    /\ IsFiniteSet(DOMAIN rows)

PageTypes ==
    /\ place \in Places /\ files \in Seq(Copy) /\ folders \subseteq Subfolders
    /\ placeLoad \in {"asked", "served", "done"} /\ placeAnswer \in View
    /\ chosen \subseteq Items /\ IsFiniteSet(chosen)
    /\ undo \in UndoRecord
    /\ deletions \subseteq DeletionRecord /\ changes \subseteq ChangeRecord
    /\ off \in BOOLEAN /\ spared \subseteq FileIds \cup SampleFiles
    /\ driveActs \in 0 .. MaxDriveActs

DialogRecord == [open: BOOLEAN, picked: 0 .. MaxUploads, uploading: BOOLEAN]

UploadTypes ==
    /\ storedUploads \in 0 .. MaxUploads
    /\ uploadDialog \in DialogRecord

LEMMA TypeParts ==
    /\ DriveVarTypes <=> ServerTypes /\ PageTypes /\ UploadTypes
    /\ DriveVarTypes' <=> ServerTypes' /\ PageTypes' /\ UploadTypes'
  BY DEF DriveVarTypes, DriveTypeOK, ServerTypes, PageTypes, UploadTypes, UndoRecord, DialogRecord

LEMMA DriveCounts ==
    PageTypes /\ DriveAct => /\ driveActs' \in 0 .. MaxDriveActs /\ driveActs' \in Nat
                             /\ driveActs' = driveActs + 1 /\ driveActs \in Nat
  BY ConstantsOfDrive DEF PageTypes, DriveAct

LEMMA EmptyLists ==
    /\ <<>> \in Seq(Copy) /\ Nothing \in View /\ IdsOf(<<>>) = {}
    /\ NoUndo \in UndoRecord /\ NoUndo.n = 0
  BY ConstantsOfDrive DEF Nothing, NoUndo, UndoRecord, View, IdsOf

LEMMA DialogFields ==
    /\ [open |-> FALSE, picked |-> 0, uploading |-> FALSE] \in DialogRecord
    /\ \A d \in DialogRecord, n \in 0 .. MaxUploads :
          /\ [d EXCEPT !.open = TRUE] \in DialogRecord /\ [d EXCEPT !.uploading = TRUE] \in DialogRecord
          /\ [d EXCEPT !.picked = n] \in DialogRecord
          /\ [d EXCEPT !.open = FALSE, !.picked = 0] \in DialogRecord
<1>1. 0 \in 0 .. MaxUploads BY ConstantsOfDrive
<1>2. [open |-> FALSE, picked |-> 0, uploading |-> FALSE] \in DialogRecord BY <1>1 DEF DialogRecord
<1>3. ASSUME NEW d \in DialogRecord, NEW n \in 0 .. MaxUploads
      PROVE  /\ [d EXCEPT !.open = TRUE] \in DialogRecord /\ [d EXCEPT !.uploading = TRUE] \in DialogRecord
             /\ [d EXCEPT !.picked = n] \in DialogRecord /\ [d EXCEPT !.open = FALSE] \in DialogRecord
  BY DEF DialogRecord
<1>4. ASSUME NEW d \in DialogRecord PROVE [d EXCEPT !.open = FALSE, !.picked = 0] \in DialogRecord
 <2>1. PICK e \in DialogRecord : e = [d EXCEPT !.open = FALSE] BY <1>1, <1>3
 <2>2. [e EXCEPT !.picked = 0] \in DialogRecord BY <1>1, <1>3
 <2> QED BY <2>1, <2>2
<1> QED BY <1>2, <1>3, <1>4, Zenon

LEMMA DriveTypesInit == DriveInit => DriveVarTypes
<1> SUFFICES ASSUME DriveInit PROVE DriveVarTypes OBVIOUS
<1>1. ServerTypes
 <2>1. rows = [f \in OldFiles |-> [folder |-> Root, trashed |-> FALSE, marked |-> FALSE]]
       /\ blobs = OldFiles /\ dirs \in SUBSET Subfolders
   BY DEF DriveInit
 <2>2. Root \in Folders /\ OldFiles \subseteq FileIds /\ IsFiniteSet(OldFiles) BY ConstantsOfDrive
 <2> QED BY <2>1, <2>2 DEF ServerTypes
<1>2. PageTypes
 <2>1. Root \in Places /\ MaxDriveActs \in Nat BY ConstantsOfDrive
 <2>2. IsFiniteSet({}) BY FS_EmptySet
 <2>3. place \in Places /\ files \in Seq(Copy) /\ placeAnswer \in View /\ undo \in UndoRecord
   BY <2>1, EmptyLists DEF DriveInit
 <2>4. driveActs \in 0 .. MaxDriveActs /\ IsFiniteSet(chosen) BY <2>1, <2>2 DEF DriveInit
 <2> QED BY <2>3, <2>4 DEF DriveInit, PageTypes
<1>3. UploadTypes
 <2>1. 0 \in 0 .. MaxUploads BY ConstantsOfDrive
 <2> QED BY <2>1, DialogFields, Zenon DEF DriveInit, UploadTypes
<1> QED BY <1>1, <1>2, <1>3, TypeParts

\* Uploads.
UploadStep ==
    \/ OpenUpload \/ CloseUpload \/ UploadClicked
    \/ \E n \in 0 .. MaxUploads : Pick(n) \/ DropOnPage(n) \/ DropOnDialog(n)
    \/ \E u \in uploads : FileUploaded(u) \/ UploadEnds(u)

LEMMA UploadKeepsPage ==
    UploadStep => /\ UNCHANGED <<place, placeLoad, placeAnswer, files, folders, chosen, deletions,
                                 changes, spared, dirs>>
                  /\ undo' = undo \/ undo' = NoUndo
                  /\ driveActs' = driveActs \/ DriveAct
                  /\ off' = off \/ off' = TRUE
                  /\ UNCHANGED serverVars \/ (\E u \in uploads : FileUploaded(u))
  BY DEF UploadStep, OpenUpload, CloseUpload, UploadClicked, Pick, DropOnPage, DropOnDialog,
         FileUploaded, UploadEnds, SetDialog, Uploading, loadVars, serverVars

LEMMA UploadedRow ==
    ASSUME ServerTypes, UploadTypes, NEW u, FileUploaded(u)
    PROVE  /\ storedUploads' \in 0 .. MaxUploads /\ ServerTypes' /\ off' = TRUE
           /\ \A f \in DOMAIN rows : f \in DOMAIN rows' /\ (~rows[f].trashed => ~rows'[f].trashed)
<1>1. PICK s : s = storedUploads + 1 OBVIOUS
<1>2. storedUploads' = s /\ s \in 1 .. MaxUploads /\ s \in 0 .. MaxUploads /\ s \in FileIds
  BY <1>1, ConstantsOfDrive DEF FileUploaded, UploadTypes
<1>3. PICK r : r = [folder |-> u.folder, trashed |-> FALSE, marked |-> FALSE] OBVIOUS
<1>4. r \in [folder: Folders, trashed: BOOLEAN, marked: BOOLEAN] /\ ~r.trashed
 <2>1. u.folder \in Folders BY ConstantsOfDrive DEF FileUploaded, ServerTypes
 <2> QED BY <1>3, <2>1
<1>5. rows' = [f \in DOMAIN rows \cup {s} |-> IF f # s THEN rows[f] ELSE r]
  BY <1>1, <1>2, <1>3 DEF FileUploaded
<1>6. blobs' = blobs \cup {s} /\ dirs' = dirs BY <1>2 DEF FileUploaded
<1>7. DOMAIN rows' = DOMAIN rows \cup {s}
      /\ \A f \in DOMAIN rows' : rows'[f] = IF f # s THEN rows[f] ELSE r
  BY <1>5
<1>8. IsFiniteSet(DOMAIN rows')
 <2>1. IsFiniteSet(DOMAIN rows) BY DEF ServerTypes
 <2>2. IsFiniteSet(DOMAIN rows \cup {s}) BY <2>1, FS_AddElement
 <2> QED BY <1>7, <2>2
<1>9. ServerTypes' BY <1>2, <1>4, <1>6, <1>7, <1>8 DEF ServerTypes
<1> QED BY <1>2, <1>4, <1>7, <1>9 DEF FileUploaded

LEMMA UploadTypesKept == DriveVarTypes /\ UploadStep => DriveVarTypes'
<1> SUFFICES ASSUME ServerTypes, PageTypes, UploadTypes, UploadStep
             PROVE  ServerTypes' /\ PageTypes' /\ UploadTypes'
  BY TypeParts
<1>1. PageTypes' BY UploadKeepsPage, DriveCounts, EmptyLists, ConstantsOfDrive DEF PageTypes
<1>2. ServerTypes'
 <2>1. CASE UNCHANGED serverVars BY <2>1 DEF ServerTypes, serverVars
 <2>2. CASE \E u \in uploads : FileUploaded(u) BY <2>2, UploadedRow
 <2> QED BY <2>1, <2>2, UploadKeepsPage
<1>3. UploadTypes'
 <2>1. CASE \E u \in uploads : FileUploaded(u)
  <3>1. storedUploads' \in 0 .. MaxUploads BY <2>1, UploadedRow
  <3>2. uploadDialog' = uploadDialog BY <2>1 DEF FileUploaded
  <3> QED BY <3>1, <3>2 DEF UploadTypes
 <2>2. CASE \E u \in uploads : UploadEnds(u)
   BY <2>2, DialogFields, Zenon DEF UploadEnds, UploadTypes
 <2>3. CASE OpenUpload \/ CloseUpload \/ UploadClicked
  <3>1. 0 \in 0 .. MaxUploads BY ConstantsOfDrive
  <3> QED
    BY <2>3, <3>1, DialogFields, Zenon
       DEF OpenUpload, CloseUpload, UploadClicked, Uploading, SetDialog, UploadTypes
 <2>4. CASE \E n \in 0 .. MaxUploads : Pick(n) \/ DropOnPage(n) \/ DropOnDialog(n)
   BY <2>4, DialogFields, Zenon
      DEF Pick, DropOnPage, DropOnDialog, Uploading, SetDialog, UploadTypes
 <2> QED BY <2>1, <2>2, <2>3, <2>4 DEF UploadStep
<1> QED BY <1>1, <1>2, <1>3

\* Loads.
LoadStep ==
    (\E p \in Places : Navigate(p)) \/ PlaceServed \/ PlaceAnswered \/ PlaceFails \/ ReloadPage

LEMMA LoadTypesKept == DriveVarTypes /\ LoadStep => DriveVarTypes'
<1> SUFFICES ASSUME DriveVarTypes, ServerTypes, PageTypes, UploadTypes, LoadStep
             PROVE  ServerTypes' /\ PageTypes' /\ UploadTypes'
  BY TypeParts
<1>1. ServerTypes'
  BY DEF LoadStep, Navigate, PlaceServed, PlaceAnswered, PlaceFails, ReloadPage, serverVars, ServerTypes
<1>2. UploadTypes'
  BY DialogFields, Zenon
     DEF LoadStep, Navigate, PlaceServed, PlaceAnswered, PlaceFails, ReloadPage, uploadVars, UploadTypes
<1>e. IsFiniteSet({}) /\ Root \in Places BY FS_EmptySet, ConstantsOfDrive
<1>3. CASE \E p \in Places : Navigate(p)
 <2>1. placeAnswer' \in View /\ placeLoad' \in {"asked", "served", "done"} /\ off' \in BOOLEAN
   BY <1>3, EmptyLists DEF Navigate, PageTypes, ChangesPending
 <2>2. PageTypes' BY <1>3, <1>e, <2>1, DriveCounts DEF Navigate, PageTypes
 <2> QED BY <1>1, <1>2, <2>2
<1>4. CASE PlaceServed
 <2>1. placeAnswer' \in View BY <1>4, ContentsAgree DEF PlaceServed
 <2>2. PageTypes' BY <1>4, <2>1 DEF PlaceServed, PageTypes, ChangesPending
 <2> QED BY <1>1, <1>2, <2>2
<1>5. CASE PlaceAnswered
 <2>1. placeAnswer.files \in Seq(Copy) /\ placeAnswer.folders \subseteq Subfolders BY DEF PageTypes, View
 <2>2. PageTypes' BY <1>5, <2>1, EmptyLists DEF PlaceAnswered, PageTypes
 <2> QED BY <1>1, <1>2, <2>2
<1>6. CASE PlaceFails
 <2>1. files' \in Seq(Copy)
  <3>1. PICK ids : ids = IF place = Root THEN SetToSeq(SampleFiles) ELSE <<>> OBVIOUS
  <3>2. files' = [i \in DOMAIN ids |-> [id |-> ids[i], marked |-> FALSE]] BY <1>6, <3>1 DEF PlaceFails
  <3>3. PICK n \in Nat : DOMAIN ids = 1 .. n /\ \A i \in 1 .. n : ids[i] \in SampleFiles
   <4>1. CASE place = Root
    <5>1. IsFiniteSet(SampleFiles) BY ConstantsOfDrive
    <5>2. Cardinality(SampleFiles) \in Nat
          /\ SetToSeq(SampleFiles) \in [1 .. Cardinality(SampleFiles) -> SampleFiles]
      BY <5>1, SeqOfSet
    <5> QED BY <3>1, <4>1, <5>2
   <4>2. CASE place # Root
    <5>1. ids = <<>> /\ DOMAIN ids = 1 .. 0 BY <3>1, <4>2
    <5>2. \A i \in 1 .. 0 : ids[i] \in SampleFiles OBVIOUS
    <5> QED BY <5>1, <5>2
   <4> QED BY <4>1, <4>2
  <3>4. \A i \in 1 .. n : [id |-> ids[i], marked |-> FALSE] \in Copy BY <3>3 DEF Copy
  <3>5. files' = [i \in 1 .. n |-> [id |-> ids[i], marked |-> FALSE]] BY <3>2, <3>3
  <3> QED BY <3>4, <3>5
 <2>2. PageTypes' BY <1>6, <2>1, EmptyLists DEF PlaceFails, PageTypes
 <2> QED BY <1>1, <1>2, <2>2
<1>7. CASE ReloadPage
 <2>1. PageTypes' BY <1>7, <1>e, DriveCounts, EmptyLists, ConstantsOfDrive DEF ReloadPage, PageTypes
 <2> QED BY <1>1, <1>2, <2>1
<1> QED BY <1>3, <1>4, <1>5, <1>6, <1>7 DEF LoadStep

-------------------------------------------------------------------------------
(* Requests that set the list. *)

LEMMA NothingWaits == deletions = {} => Waiting = {}
  BY DEF Waiting

\* Without a deletion or a change under way the lists are those of the place.
LEMMA AgreedNow ==
    ListsAgree /\ placeLoad = "done" /\ changes = {} /\ deletions = {} => Agreed(files, folders)
<1> SUFFICES ASSUME ListsAgree, placeLoad = "done", changes = {}, deletions = {}
             PROVE  Agreed(files, folders)
  OBVIOUS
<1>1. Waiting = {} BY NothingWaits
<1>2. FilesOf(place) \ Waiting = FilesOf(place) /\ FoldersOf(place) \ Waiting = FoldersOf(place)
  BY <1>1
<1> QED BY <1>2 DEF ListsAgree, Agreed

\* What a click asks the server for, and what it will set.
Started(c) ==
    /\ c \in ChangeRecord /\ ~c.failed /\ DriveAct
    /\ changes' = changes \cup {c}
    /\ UNCHANGED <<serverVars, loadVars, files, folders, chosen, deletions, undo, uploadVars>>
    /\ off' = (off \/ off') /\ off' \in BOOLEAN /\ spared' \subseteq spared
    /\ c.kind = "delete" => c.todo \cap spared' = {}
    /\ c.kind \in {"rmdir", "mkdir"} => c.todo \subseteq Subfolders
    /\ ~off' => /\ changes = {} /\ deletions = {} /\ placeLoad = "done"
                /\ c.todo # {} /\ (c.single => \E x : c.todo = {x})
                /\ ChangeWaits(c)

LEMMA SamePlace ==
    UNCHANGED <<rows, dirs, place>> =>
        /\ FilesOf(place)' = FilesOf(place) /\ FoldersOf(place)' = FoldersOf(place)
        /\ \A fs, ds : Agreed(fs, ds) => Agreed(fs, ds)'
<1> SUFFICES ASSUME UNCHANGED <<rows, dirs, place>>
             PROVE  /\ FilesOf(place)' = FilesOf(place) /\ FoldersOf(place)' = FoldersOf(place)
                    /\ \A fs, ds : Agreed(fs, ds) => Agreed(fs, ds)'
  OBVIOUS
<1>1. FilesOf(place)' = FilesOf(place) BY DEF FilesOf, Trashed
<1>2. FoldersOf(place)' = FoldersOf(place) BY DEF FoldersOf
<1> QED BY <1>1, <1>2 DEF Agreed, AreRows

LEMMA StartedKeeps == ASSUME DriveInv, NEW c, Started(c) PROVE DriveInv'
<1> USE DEF Started
<1>1. DriveVarTypes /\ ServerTypes /\ PageTypes /\ UploadTypes BY TypeParts DEF DriveInv
<1>2. DriveVarTypes'
 <2>1. ServerTypes' BY <1>1 DEF ServerTypes, serverVars
 <2>2. UploadTypes' BY <1>1 DEF UploadTypes, uploadVars
 <2>3. PageTypes' BY <1>1, DriveCounts DEF PageTypes, loadVars
 <2> QED BY <2>1, <2>2, <2>3, TypeParts
<1>3. DeletionsNumbered' BY <1>1, DriveCounts DEF DriveInv, DeletionsNumbered, PageTypes, UndoRecord
<1>4. SparedFiles' BY DEF DriveInv, SparedFiles, serverVars
<1>5. ASSUME ~off' PROVE ListsAgree'
 <2>1. ~off BY <1>5
 <2>2. Agreed(files, folders) BY <1>5, <2>1, AgreedNow DEF DriveInv
 <2>3. UNCHANGED <<rows, dirs, place, placeLoad, files, folders, deletions>> BY DEF serverVars, loadVars
 <2>8. FilesOf(place)' = FilesOf(place) /\ FoldersOf(place)' = FoldersOf(place) BY <2>3, SamePlace
 <2>9. \A f, b : Marked(f, b)' = Marked(f, b) BY <2>3 DEF Marked
 <2>4. Agreed(files, folders)' BY <2>2, <2>3, <2>8 DEF Agreed, AreRows
 <2>5. ChangeWaits(c)'
  <3>1. ChangeWaits(c) BY <1>5
  <3> QED BY <3>1, <2>3, <2>8, <2>9 DEF ChangeWaits, AreRows
 <2>6. ChangeOK(c)' BY <1>5, <2>4, <2>5 DEF ChangeOK
 <2>7. changes' = {c} BY <1>5
 <2> QED BY <1>5, <2>3, <2>6, <2>7 DEF ListsAgree
<1> QED BY <1>2, <1>3, <1>4, <1>5 DEF DriveInv

\* The record of the n-th click.
Asked(n, kind, ids, to, fs, ds) ==
    [n |-> n, kind |-> kind, todo |-> ids, to |-> to, files |-> fs, folders |-> ds,
     single |-> Cardinality(ids) = 1, failed |-> FALSE]

IsChange(c, kind, ids, to, fs, ds) ==
    /\ c \in ChangeRecord
    /\ c.kind = kind /\ c.todo = ids /\ c.to = to /\ c.files = fs /\ c.folders = ds
    /\ ~c.failed /\ (c.single <=> Cardinality(ids) = 1)

LEMMA ChangeIs ==
    ASSUME NEW n \in Nat, NEW kind \in Kinds, NEW ids \in SUBSET (Items \cup Places),
           NEW to \in Places \cup {NoFolder}, NEW fs \in Seq(Copy), NEW ds \in SUBSET Subfolders
    PROVE  IsChange(Asked(n, kind, ids, to, fs, ds), kind, ids, to, fs, ds)
<1>1. PICK b \in BOOLEAN : b = (Cardinality(ids) = 1) OBVIOUS
<1>2. PICK c : c = Asked(n, kind, ids, to, fs, ds) OBVIOUS
<1>3. c = [n |-> n, kind |-> kind, todo |-> ids, to |-> to, files |-> fs, folders |-> ds,
           single |-> b, failed |-> FALSE]
  BY <1>1, <1>2 DEF Asked
<1>4. c \in ChangeRecord BY <1>3 DEF ChangeRecord
<1>5. /\ c.kind = kind /\ c.todo = ids /\ c.to = to /\ c.files = fs /\ c.folders = ds
      /\ ~c.failed /\ c.single = b
  BY <1>3
<1>6. IsChange(c, kind, ids, to, fs, ds) BY <1>1, <1>4, <1>5 DEF IsChange
<1> QED BY <1>2, <1>6

LEMMA OneThing ==
    /\ \A x : Cardinality({x}) = 1
    /\ \A S : IsFiniteSet(S) /\ Cardinality(S) = 1 => \E x : S = {x}
<1>1. ASSUME NEW S, IsFiniteSet(S), Cardinality(S) = 1 PROVE \E x : S = {x} BY <1>1, FS_Singleton
<1>2. ASSUME NEW x PROVE Cardinality({x}) = 1 BY FS_Singleton
<1> QED BY <1>1, <1>2

LEMMA StartedBy ==
    ASSUME NEW c \in ChangeRecord, NEW differs \in BOOLEAN, DriveInv, DriveAct, Start(c, differs),
           ~c.failed, chosen' = chosen, spared' \subseteq spared,
           c.kind = "delete" => c.todo \cap spared' = {},
           c.kind \in {"rmdir", "mkdir"} => c.todo \subseteq Subfolders,
           ~differs /\ placeLoad = "done" /\ Agreed(files, folders) =>
              c.todo # {} /\ (c.single => \E x : c.todo = {x}) /\ ChangeWaits(c)
    PROVE  Started(c)
<1>1. off \in BOOLEAN BY DEF DriveInv, DriveVarTypes, DriveTypeOK
<1>2. off' = (off \/ ChangesPending \/ placeLoad # "done" \/ differs) BY DEF Start
<1>3. off' \in BOOLEAN /\ off' = (off \/ off') BY <1>1, <1>2
<1>4. ASSUME ~off'
      PROVE  changes = {} /\ deletions = {} /\ placeLoad = "done" /\ ~differs /\ Agreed(files, folders)
 <2>1. changes = {} /\ deletions = {} /\ placeLoad = "done" /\ ~differs /\ ~off
   BY <1>2, <1>4 DEF ChangesPending
 <2> QED BY <2>1, AgreedNow DEF DriveInv
<1> QED BY <1>3, <1>4 DEF Started, Start

LEMMA ShownNow ==
    ASSUME DriveInv, Agreed(files, folders)
    PROVE  /\ IdsOf(files) = FilesOf(place) /\ folders = FoldersOf(place)
           /\ \A i \in folders : i \in Subfolders /\ place = Root
           /\ AreRows(files, FilesOf(place), rows)
<1>1. dirs \subseteq Subfolders BY DEF DriveInv, DriveVarTypes, DriveTypeOK
<1> QED BY <1>1 DEF Agreed, AreRows, FoldersOf

LEMMA PageTypesNow == DriveInv => PageTypes /\ ServerTypes
  BY TypeParts DEF DriveInv

LEMMA MarkStarts == ASSUME DriveInv, NEW f \in FileIds \cup SampleFiles, Mark(f) PROVE \E c : Started(c)
<1>1. PageTypes /\ DriveAct /\ FileMenu(f) BY PageTypesNow DEF Mark
<1>2. PICK b \in BOOLEAN : b = \E i \in DOMAIN files : files[i].id = f /\ ~files[i].marked OBVIOUS
<1>3. PICK k \in {"mark", "unmark"} : k = (IF b THEN "mark" ELSE "unmark") OBVIOUS
<1>4. PICK d \in BOOLEAN : d = (place = StarredView) OBVIOUS
<1>5. PICK fs \in Seq(Copy) : fs = Marked(f, b) BY <1>1, MarkedRows DEF PageTypes
<1>6. PICK ds \in SUBSET Subfolders : ds = folders BY <1>1 DEF PageTypes
<1>7. Start(Change(k, {f}, NoFolder, fs, ds), d) /\ UNCHANGED <<chosen, spared>>
  BY <1>2, <1>3, <1>4, <1>5, <1>6 DEF Mark
<1>8. PICK n \in Nat : n = driveActs' BY <1>1, DriveCounts
<1>9. PICK c : c = Asked(n, k, {f}, NoFolder, fs, ds) OBVIOUS
<1>16. IsChange(c, k, {f}, NoFolder, fs, ds)
 <2>1. k \in Kinds BY DEF Kinds
 <2>2. {f} \in SUBSET (Items \cup Places) /\ NoFolder \in Places \cup {NoFolder} BY ConstantsOfDrive
 <2> QED BY <1>9, <2>1, <2>2, ChangeIs
<1>15. /\ c \in ChangeRecord
       /\ c.kind = k /\ c.todo = {f} /\ c.to = NoFolder /\ c.files = fs /\ c.folders = ds
       /\ ~c.failed /\ (c.single <=> Cardinality({f}) = 1)
  BY <1>16 DEF IsChange
<1>10. ASSUME ~d, placeLoad = "done", Agreed(files, folders)
       PROVE  c.todo # {} /\ (c.single => \E x : c.todo = {x}) /\ ChangeWaits(c)
 <2>1. place # StarredView /\ place # Trash /\ f \in FilesOf(place)
   BY <1>1, <1>4, <1>10, ShownNow DEF FileMenu, FileShown
 <2>2. b = (c.kind = "mark") BY <1>3, <1>15
 <2>3. c.single BY <1>15, OneThing
 <2>4. c.files = Marked(f, c.kind = "mark") BY <1>5, <1>15, <2>2
 <2> QED BY <1>15, <2>1, <2>3, <2>4 DEF ChangeWaits
<1>11. c.kind # "delete" /\ c.kind \notin {"rmdir", "mkdir"} BY <1>15
<1>12. Start(c, d) BY <1>7, <1>8, <1>9 DEF Change, Asked
<1>13. chosen' = chosen /\ spared' \subseteq spared BY <1>7
<1>14. Started(c) BY <1>1, <1>15, <1>10, <1>11, <1>12, <1>13, StartedBy
<1> QED BY <1>14

\* The files ids leave the list for p.
LEMMA MovingStarts ==
    ASSUME DriveInv, NEW k \in {"move", "bulk"}, NEW ids \in SUBSET Items, ids # {}, IsFiniteSet(ids),
           NEW p \in Folders, DriveAct, Moving(k, ids, p), UNCHANGED <<chosen, spared>>
    PROVE  \E c : Started(c)
<1>1. PageTypes BY PageTypesNow
<1>4. PICK d \in BOOLEAN : d = (place \notin Folders \/ p = place) OBVIOUS
<1>5. PICK fs \in Seq(Copy) : fs = Minus(files, ids) BY <1>1, MinusRows DEF PageTypes
<1>6. PICK ds \in SUBSET Subfolders : ds = folders BY <1>1 DEF PageTypes
<1>7. Start(Change(k, ids, p, fs, ds), d) BY <1>4, <1>5, <1>6 DEF Moving
<1>8. PICK n \in Nat : n = driveActs' BY <1>1, DriveCounts
<1>9. PICK c : c = Asked(n, k, ids, p, fs, ds) OBVIOUS
<1>16. IsChange(c, k, ids, p, fs, ds)
 <2>1. k \in Kinds BY DEF Kinds
 <2>2. ids \in SUBSET (Items \cup Places) /\ p \in Places \cup {NoFolder} BY ConstantsOfDrive
 <2> QED BY <1>9, <2>1, <2>2, ChangeIs
<1>15. /\ c \in ChangeRecord
       /\ c.kind = k /\ c.todo = ids /\ c.to = p /\ c.files = fs /\ c.folders = ds
       /\ ~c.failed /\ (c.single <=> Cardinality(ids) = 1)
  BY <1>16 DEF IsChange
<1>10. ASSUME ~d, placeLoad = "done", Agreed(files, folders)
       PROVE  c.todo # {} /\ (c.single => \E x : c.todo = {x}) /\ ChangeWaits(c)
 <2>1. place \in Folders /\ c.to # place BY <1>4, <1>15, <1>10
 <2>2. AreRows(files, FilesOf(place), rows) /\ folders = FoldersOf(place) BY <1>10, ShownNow
 <2>3. AreRows(Minus(files, ids), FilesOf(place) \ ids, rows) BY <1>1, <2>2, MinusRows DEF PageTypes
 <2>4. AreRows(c.files, FilesOf(place) \ c.todo, rows) BY <1>5, <1>15, <2>3
 <2>5. ASSUME c.single PROVE \E x : c.todo = {x}
  <3>1. Cardinality(ids) = 1 BY <1>15, <2>5
  <3>2. \E x : ids = {x} BY <3>1, OneThing
  <3> QED BY <1>15, <3>2
 <2> QED BY <1>15, <2>1, <2>2, <2>4, <2>5 DEF ChangeWaits
<1>11. c.kind # "delete" /\ c.kind \notin {"rmdir", "mkdir"} BY <1>15
<1>12. Start(c, d) BY <1>7, <1>8, <1>9 DEF Change, Asked
<1>14. Started(c) BY <1>1, <1>15, <1>10, <1>11, <1>12, StartedBy
<1> QED BY <1>14

LEMMA MovesStart ==
    ASSUME DriveInv, NEW f \in FileIds \cup SampleFiles, NEW p \in Folders,
           MoveFile(f, p) \/ DropOnFolder(f, p) \/ BulkMove(p)
    PROVE  \E c : Started(c)
<1>1. PageTypes BY PageTypesNow
<1>2. f \in Items /\ chosen \subseteq Items /\ IsFiniteSet(chosen) BY <1>1, ConstantsOfDrive DEF PageTypes
<1>3. CASE MoveFile(f, p)
 <2>1. {f} \in SUBSET Items /\ {f} # {} /\ IsFiniteSet({f}) BY <1>2, FS_Singleton
 <2>2. DriveAct /\ Moving("move", {f}, p) /\ UNCHANGED <<chosen, spared>> BY <1>3 DEF MoveFile
 <2> QED BY <2>1, <2>2, MovingStarts
<1>4. CASE DropOnFolder(f, p)
 <2>1. PICK ids : ids = Dragged(f) OBVIOUS
 <2>2. ids \in SUBSET Items /\ ids # {} /\ IsFiniteSet(ids) BY <1>2, <2>1, FS_Singleton DEF Dragged
 <2>3. DriveAct /\ Moving("move", ids, p) /\ UNCHANGED <<chosen, spared>> BY <1>4, <2>1 DEF DropOnFolder
 <2> QED BY <2>2, <2>3, MovingStarts
<1>5. CASE BulkMove(p)
 <2>1. PICK ids : ids = chosen \cap IdsOf(files) OBVIOUS
 <2>2. ids \in SUBSET Items /\ IsFiniteSet(ids) BY <1>2, <2>1, FS_Subset
 <2>3. ids # {} /\ DriveAct /\ Moving("bulk", ids, p) /\ UNCHANGED <<chosen, spared>>
   BY <1>5, <2>1 DEF BulkMove
 <2> QED BY <2>2, <2>3, MovingStarts
<1> QED BY <1>3, <1>4, <1>5

\* A click: the change it starts, from the lists it saw.
Clicked(kind, ids, to, fs, ds, differs) ==
    /\ DriveAct /\ Start(Change(kind, ids, to, fs, ds), differs)
    /\ chosen' = chosen /\ spared' \subseteq spared

LEMMA ClickStarts ==
    ASSUME DriveInv, NEW kind \in Kinds, NEW ids \in SUBSET (Items \cup Places),
           NEW to \in Places \cup {NoFolder}, NEW fs \in Seq(Copy), NEW ds \in SUBSET Subfolders,
           NEW differs \in BOOLEAN, Clicked(kind, ids, to, fs, ds, differs),
           kind = "delete" => ids \cap spared' = {},
           kind \in {"rmdir", "mkdir"} => ids \subseteq Subfolders,
           \A c : /\ IsChange(c, kind, ids, to, fs, ds) /\ ~differs /\ placeLoad = "done"
                  /\ Agreed(files, folders)
                  => c.todo # {} /\ (c.single => \E x : c.todo = {x}) /\ ChangeWaits(c)
    PROVE  \E c : Started(c)
<1>1. PageTypes /\ DriveAct BY PageTypesNow DEF Clicked
<1>2. PICK n \in Nat : n = driveActs' BY <1>1, DriveCounts
<1>3. PICK c : c = Asked(n, kind, ids, to, fs, ds) OBVIOUS
<1>4. IsChange(c, kind, ids, to, fs, ds) BY <1>3, ChangeIs
<1>5. /\ c \in ChangeRecord /\ ~c.failed
      /\ c.kind = "delete" => c.todo \cap spared' = {}
      /\ c.kind \in {"rmdir", "mkdir"} => c.todo \subseteq Subfolders
  BY <1>4 DEF IsChange
<1>6. Start(c, differs) BY <1>2, <1>3 DEF Change, Asked, Clicked
<1>7. chosen' = chosen /\ spared' \subseteq spared BY DEF Clicked
<1>8. Started(c) BY <1>1, <1>4, <1>5, <1>6, <1>7, StartedBy
<1> QED BY <1>8

LEMMA TrashStarts ==
    ASSUME DriveInv, NEW f \in FileIds \cup SampleFiles, Restore(f) \/ EmptyTrash
    PROVE  \E c : Started(c)
<1>1. PageTypes /\ ServerTypes BY PageTypesNow
<1>2. PICK ds \in SUBSET Subfolders : ds = folders BY <1>1 DEF PageTypes
<1>3. NoFolder \in Places \cup {NoFolder} OBVIOUS
<1>4. CASE Restore(f)
 <2>1. PICK fs \in Seq(Copy) : fs = Minus(files, {f}) BY <1>1, MinusRows DEF PageTypes
 <2>2. "restore" \in Kinds /\ {f} \in SUBSET (Items \cup Places) BY ConstantsOfDrive DEF Kinds
 <2>3. Clicked("restore", {f}, NoFolder, fs, ds, FALSE) BY <1>2, <1>4, <2>1 DEF Restore, Clicked
 <2>4. ASSUME NEW c, IsChange(c, "restore", {f}, NoFolder, fs, ds), Agreed(files, folders)
       PROVE  c.todo # {} /\ (c.single => \E x : c.todo = {x}) /\ ChangeWaits(c)
  <3>1. c.todo = {f} /\ c.kind = "restore" /\ c.files = fs /\ c.single BY <2>4, OneThing DEF IsChange
  <3>2. place = Trash BY <1>4 DEF Restore
  <3>3. AreRows(files, FilesOf(place), rows) BY <2>4, ShownNow
  <3>4. AreRows(Minus(files, {f}), FilesOf(place) \ {f}, rows)
    BY <1>1, <3>3, MinusRows DEF PageTypes
  <3>5. AreRows(c.files, FilesOf(place) \ c.todo, rows) BY <2>1, <3>1, <3>4
  <3> QED BY <3>1, <3>2, <3>5 DEF ChangeWaits
 <2> QED BY <1>3, <2>2, <2>3, <2>4, ClickStarts
<1>5. CASE EmptyTrash
 <2>1. "empty" \in Kinds /\ {place} \in SUBSET (Items \cup Places) /\ <<>> \in Seq(Copy)
   BY <1>1 DEF Kinds, PageTypes
 <2>3. Clicked("empty", {place}, NoFolder, <<>>, ds, FALSE) BY <1>2, <1>5 DEF EmptyTrash, Clicked
 <2>4. ASSUME NEW c, IsChange(c, "empty", {place}, NoFolder, <<>>, ds), Agreed(files, folders)
       PROVE  c.todo # {} /\ (c.single => \E x : c.todo = {x}) /\ ChangeWaits(c)
  <3>1. c.todo = {place} /\ c.kind = "empty" /\ c.files = <<>> /\ c.single
    BY <2>4, OneThing DEF IsChange
  <3>2. place = Trash BY <1>5 DEF EmptyTrash
  <3> QED BY <3>1, <3>2 DEF ChangeWaits
 <2> QED BY <1>3, <2>1, <2>3, <2>4, ClickStarts
<1> QED BY <1>4, <1>5

LEMMA DeleteKeyStarts == ASSUME DriveInv, DeleteKey PROVE \E c : Started(c)
<1>1. PageTypes /\ ServerTypes BY PageTypesNow
<1>2. PICK ds \in SUBSET Subfolders : ds = folders BY <1>1 DEF PageTypes
<1>3. PICK fs \in Seq(Copy) : fs = files BY <1>1 DEF PageTypes
<1>4. PICK ids \in SUBSET (Items \cup Places) : ids = chosen BY <1>1 DEF PageTypes
<1>5. "delete" \in Kinds /\ NoFolder \in Places \cup {NoFolder} BY DEF Kinds
<1>6. Clicked("delete", ids, NoFolder, fs, ds, TRUE) BY <1>2, <1>3, <1>4 DEF DeleteKey, Clicked
<1>7. ids \cap spared' = {} BY <1>4 DEF DeleteKey
<1> QED BY <1>5, <1>6, <1>7, ClickStarts

LEMMA FolderStarts ==
    ASSUME DriveInv, NEW i \in Subfolders, RenameFolder(i) \/ DeleteFolder(i) \/ CreateFolder(i)
    PROVE  \E c : Started(c)
<1>1. PageTypes /\ ServerTypes BY PageTypesNow
<1>3. PICK fs \in Seq(Copy) : fs = files BY <1>1 DEF PageTypes
<1>4. {i} \in SUBSET (Items \cup Places) /\ NoFolder \in Places \cup {NoFolder} BY ConstantsOfDrive
<1>5. CASE RenameFolder(i)
 <2>1. PICK ds \in SUBSET Subfolders : ds = folders BY <1>1 DEF PageTypes
 <2>2. "rename" \in Kinds BY DEF Kinds
 <2>3. Clicked("rename", {i}, NoFolder, fs, ds, FALSE) BY <1>3, <1>5, <2>1 DEF RenameFolder, Clicked
 <2>4. ASSUME NEW c, IsChange(c, "rename", {i}, NoFolder, fs, ds)
       PROVE  c.todo # {} /\ (c.single => \E x : c.todo = {x}) /\ ChangeWaits(c)
  <3>1. c.todo = {i} /\ c.kind = "rename" /\ c.folders = folders /\ c.single
    BY <2>1, <2>4, OneThing DEF IsChange
  <3> QED BY <3>1 DEF ChangeWaits
 <2> QED BY <1>4, <2>2, <2>3, <2>4, ClickStarts
<1>6. CASE DeleteFolder(i)
 <2>1. PICK ds \in SUBSET Subfolders : ds = folders \ {i} BY <1>1 DEF PageTypes
 <2>2. "rmdir" \in Kinds BY DEF Kinds
 <2>3. PICK b \in BOOLEAN : b = \E f \in DOMAIN rows : rows[f].folder = i OBVIOUS
 <2>4. Clicked("rmdir", {i}, NoFolder, fs, ds, b) BY <1>3, <1>6, <2>1, <2>3 DEF DeleteFolder, Clicked
 <2>5. ASSUME NEW c, IsChange(c, "rmdir", {i}, NoFolder, fs, ds), ~b, Agreed(files, folders)
       PROVE  c.todo # {} /\ (c.single => \E x : c.todo = {x}) /\ ChangeWaits(c)
  <3>1. c.todo = {i} /\ c.kind = "rmdir" /\ c.folders = folders \ {i} /\ c.single
    BY <2>1, <2>5, OneThing DEF IsChange
  <3>2. place = Root BY <1>6, <2>5, ShownNow DEF DeleteFolder, FolderShown
  <3>3. \A f \in DOMAIN rows : rows[f].folder # i BY <2>3, <2>5
  <3> QED BY <3>1, <3>2, <3>3 DEF ChangeWaits
 <2>6. {i} \subseteq Subfolders OBVIOUS
 <2> QED BY <1>4, <2>2, <2>4, <2>5, <2>6, ClickStarts
<1>7. CASE CreateFolder(i)
 <2>1. PICK ds \in SUBSET Subfolders : ds = folders \cup {i} BY <1>1 DEF PageTypes
 <2>2. "mkdir" \in Kinds BY DEF Kinds
 <2>3. PICK p \in Places \cup {NoFolder} : p = place BY <1>1 DEF PageTypes
 <2>4. Clicked("mkdir", {i}, p, fs, ds, FALSE) BY <1>3, <1>7, <2>1, <2>3 DEF CreateFolder, Clicked
 <2>5. ASSUME NEW c, IsChange(c, "mkdir", {i}, p, fs, ds)
       PROVE  c.todo # {} /\ (c.single => \E x : c.todo = {x}) /\ ChangeWaits(c)
  <3>1. c.todo = {i} /\ c.kind = "mkdir" /\ c.folders = folders \cup {i} /\ c.single /\ c.to = place
    BY <2>1, <2>3, <2>5, OneThing DEF IsChange
  <3>2. place \notin Subfolders BY <1>7 DEF CreateFolder
  <3> QED BY <3>1, <3>2 DEF ChangeWaits
 <2>6. {i} \subseteq Subfolders OBVIOUS
 <2> QED BY <1>4, <2>2, <2>4, <2>5, <2>6, ClickStarts
<1> QED BY <1>5, <1>6, <1>7

-------------------------------------------------------------------------------
(* What the server does. *)

RowsKept(ids) ==
    \A f \in DOMAIN rows : f \notin ids /\ ~rows[f].trashed => f \in DOMAIN rows' /\ ~rows'[f].trashed

LEMMA FolderRow ==
    ASSUME ServerTypes, NEW i \in Subfolders, RowDeleted(i)
    PROVE  /\ i \in dirs /\ dirs' = dirs \ {i} /\ blobs' = blobs
           /\ DOMAIN rows' = DOMAIN rows
           /\ \A f \in DOMAIN rows : /\ rows'[f] \in [folder: Folders, trashed: BOOLEAN, marked: BOOLEAN]
                                     /\ rows'[f].trashed = rows[f].trashed
                                     /\ rows[f].folder # i => rows'[f] = rows[f]
<1>1. i \in dirs /\ dirs' = dirs \ {i} /\ blobs' = blobs
      /\ rows' = [f \in DOMAIN rows |-> IF rows[f].folder = i
                                        THEN [rows[f] EXCEPT !.folder = Root] ELSE rows[f]]
  BY DEF RowDeleted
<1>2. \A f \in DOMAIN rows : rows[f] \in [folder: Folders, trashed: BOOLEAN, marked: BOOLEAN]
  BY DEF ServerTypes
<1>3. \A r \in [folder: Folders, trashed: BOOLEAN, marked: BOOLEAN] :
         /\ [r EXCEPT !.folder = Root] \in [folder: Folders, trashed: BOOLEAN, marked: BOOLEAN]
         /\ [r EXCEPT !.folder = Root].trashed = r.trashed
  BY ConstantsOfDrive
<1>4. \A f \in DOMAIN rows : /\ rows'[f] \in [folder: Folders, trashed: BOOLEAN, marked: BOOLEAN]
                             /\ rows'[f].trashed = rows[f].trashed
                             /\ rows[f].folder # i => rows'[f] = rows[f]
  BY <1>1, <1>2, <1>3
<1> QED BY <1>1, <1>4

LEMMA FileRow ==
    ASSUME ServerTypes, NEW i, i \notin Subfolders, RowDeleted(i)
    PROVE  /\ i \in DOMAIN rows /\ ~rows[i].trashed /\ dirs' = dirs /\ blobs' \subseteq blobs
           /\ DOMAIN rows' = DOMAIN rows
           /\ \A f \in DOMAIN rows : f # i => rows'[f] = rows[f]
           /\ rows'[i] = [rows[i] EXCEPT !.trashed = TRUE]
<1>1. i \in DOMAIN rows /\ ~rows[i].trashed /\ rows' = [rows EXCEPT ![i].trashed = TRUE]
      /\ blobs' = blobs \ {i} /\ dirs' = dirs
  BY DEF RowDeleted
<1> QED BY <1>1

LEMMA RowDeletedTypes ==
    ASSUME ServerTypes, NEW i, RowDeleted(i)
    PROVE  ServerTypes' /\ RowsKept({i})
<1>1. \A r \in [folder: Folders, trashed: BOOLEAN, marked: BOOLEAN] :
         [r EXCEPT !.trashed = TRUE] \in [folder: Folders, trashed: BOOLEAN, marked: BOOLEAN]
  OBVIOUS
<1>2. CASE i \in Subfolders
 <2>1. /\ dirs' = dirs \ {i} /\ blobs' = blobs
       /\ DOMAIN rows' = DOMAIN rows
       /\ \A f \in DOMAIN rows : /\ rows'[f] \in [folder: Folders, trashed: BOOLEAN, marked: BOOLEAN]
                                 /\ rows'[f].trashed = rows[f].trashed
   BY <1>2, FolderRow
 <2>2. ServerTypes' BY <1>1, <2>1 DEF ServerTypes
 <2>3. RowsKept({i}) BY <2>1 DEF RowsKept
 <2> QED BY <2>2, <2>3
<1>3. CASE i \notin Subfolders
 <2>1. /\ i \in DOMAIN rows /\ dirs' = dirs /\ blobs' \subseteq blobs
       /\ DOMAIN rows' = DOMAIN rows
       /\ \A f \in DOMAIN rows : f # i => rows'[f] = rows[f]
       /\ rows'[i] = [rows[i] EXCEPT !.trashed = TRUE]
   BY <1>3, FileRow
 <2>2. \A f \in DOMAIN rows : rows'[f] \in [folder: Folders, trashed: BOOLEAN, marked: BOOLEAN]
  <3>1. SUFFICES ASSUME NEW f \in DOMAIN rows
                 PROVE  rows'[f] \in [folder: Folders, trashed: BOOLEAN, marked: BOOLEAN]
    OBVIOUS
  <3>2. rows[f] \in [folder: Folders, trashed: BOOLEAN, marked: BOOLEAN] BY DEF ServerTypes
  <3>3. CASE f = i BY <1>1, <2>1, <3>2, <3>3
  <3>4. CASE f # i BY <2>1, <3>2, <3>4
  <3> QED BY <3>3, <3>4
 <2>3. ServerTypes' BY <2>1, <2>2 DEF ServerTypes
 <2>4. RowsKept({i}) BY <2>1 DEF RowsKept
 <2> QED BY <2>3, <2>4
<1> QED BY <1>2, <1>3

\* The rows a change may trash.
MayTrash(c) == IF c.kind = "delete" THEN c.todo ELSE Subfolders

LEMMA AppliedTypes ==
    ASSUME ServerTypes, NEW c \in ChangeRecord, NEW i \in c.todo, Applied(c, i),
           c.kind \in {"rmdir", "mkdir"} => c.todo \subseteq Subfolders
    PROVE  ServerTypes' /\ RowsKept(MayTrash(c))
<1> DEFINE Row == [folder: Folders, trashed: BOOLEAN, marked: BOOLEAN]
<1>1. \A f \in DOMAIN rows : rows[f] \in Row BY DEF ServerTypes
<1>2. \A r \in Row, b \in BOOLEAN, p \in Folders :
         /\ [r EXCEPT !.folder = p] \in Row /\ [r EXCEPT !.folder = p].trashed = r.trashed
         /\ [r EXCEPT !.trashed = FALSE] \in Row /\ [r EXCEPT !.trashed = FALSE].trashed = FALSE
         /\ [r EXCEPT !.marked = b] \in Row /\ [r EXCEPT !.marked = b].trashed = r.trashed
  OBVIOUS
<1> HIDE DEF Row
<1>3. ASSUME NEW r \in Row, i \in DOMAIN rows, rows' = [rows EXCEPT ![i] = r], r.trashed => rows[i].trashed,
             dirs' = dirs, blobs' = blobs
      PROVE  ServerTypes' /\ RowsKept(MayTrash(c))
 <2>1. DOMAIN rows' = DOMAIN rows /\ \A f \in DOMAIN rows : rows'[f] = IF f = i THEN r ELSE rows[f]
   BY <1>3
 <2>2. \A f \in DOMAIN rows : rows'[f] \in Row BY <1>1, <2>1
 <2>3. RowsKept(MayTrash(c)) BY <1>3, <2>1 DEF RowsKept
 <2>4. ServerTypes' BY <1>3, <2>1, <2>2 DEF ServerTypes, Row
 <2> QED BY <2>3, <2>4
<1>4. CASE c.kind \in {"mark", "unmark"}
 <2>1. PICK b \in BOOLEAN : b = (c.kind = "mark") OBVIOUS
 <2>2. i \in DOMAIN rows /\ dirs' = dirs /\ blobs' = blobs
       /\ rows' = IF rows[i].trashed THEN rows ELSE [rows EXCEPT ![i].marked = b]
   BY <1>4, <2>1 DEF Applied
 <2>3. CASE rows[i].trashed
  <3>1. rows' = rows BY <2>2, <2>3
  <3> QED BY <2>2, <3>1 DEF ServerTypes, RowsKept
 <2>4. CASE ~rows[i].trashed
  <3>1. PICK r : r = [rows[i] EXCEPT !.marked = b] OBVIOUS
  <3>2. r \in Row /\ r.trashed = rows[i].trashed BY <1>1, <1>2, <2>2, <3>1, ConstantsOfDrive
  <3>3. rows' = [rows EXCEPT ![i] = r] BY <2>2, <2>4, <3>1
  <3> QED BY <1>3, <2>2, <3>2, <3>3
 <2> QED BY <2>3, <2>4
<1>5. CASE c.kind \in {"move", "bulk"}
 <2>1. i \in DOMAIN rows /\ dirs' = dirs /\ blobs' = blobs /\ c.to \in {Root} \cup dirs
       /\ rows' = [rows EXCEPT ![i].folder = c.to]
   BY <1>5 DEF Applied
 <2>2. c.to \in Folders BY <2>1, ConstantsOfDrive DEF ServerTypes
 <2>3. PICK r : r = [rows[i] EXCEPT !.folder = c.to] OBVIOUS
 <2>4. r \in Row /\ r.trashed = rows[i].trashed BY <1>1, <1>2, <2>1, <2>2, <2>3
 <2>5. rows' = [rows EXCEPT ![i] = r] BY <2>1, <2>3
 <2> QED BY <1>3, <2>1, <2>4, <2>5
<1>6. CASE c.kind = "restore"
 <2>1. i \in DOMAIN rows /\ dirs' = dirs /\ blobs' = blobs
       /\ rows' = [rows EXCEPT ![i].trashed = FALSE]
   BY <1>6 DEF Applied
 <2>3. PICK r : r = [rows[i] EXCEPT !.trashed = FALSE] OBVIOUS
 <2>4. r \in Row /\ r.trashed = FALSE BY <1>1, <1>2, <2>1, <2>3, ConstantsOfDrive
 <2>5. rows' = [rows EXCEPT ![i] = r] BY <2>1, <2>3
 <2> QED BY <1>3, <2>1, <2>4, <2>5
<1>7. CASE c.kind = "empty"
 <2>1. rows' = [f \in DOMAIN rows \ Trashed |-> rows[f]] /\ dirs' = dirs /\ blobs' = blobs
   BY <1>7 DEF Applied
 <2>2. DOMAIN rows' = DOMAIN rows \ Trashed /\ \A f \in DOMAIN rows' : rows'[f] = rows[f] BY <2>1
 <2>3. IsFiniteSet(DOMAIN rows')
  <3>1. IsFiniteSet(DOMAIN rows) /\ DOMAIN rows' \subseteq DOMAIN rows BY <2>2 DEF ServerTypes
  <3> QED BY <3>1, FS_Subset
 <2>4. ServerTypes' BY <2>1, <2>2, <2>3 DEF ServerTypes
 <2>5. RowsKept(MayTrash(c)) BY <2>2 DEF RowsKept, Trashed
 <2> QED BY <2>4, <2>5
<1>8. CASE c.kind = "delete"
 <2>1. RowDeleted(i) BY <1>8 DEF Applied
 <2>2. ServerTypes' /\ RowsKept({i}) BY <2>1, RowDeletedTypes
 <2>3. i \in MayTrash(c) BY <1>8 DEF MayTrash
 <2> QED BY <2>2, <2>3 DEF RowsKept
<1>9. CASE c.kind = "rmdir"
 <2>1. RowDeleted(i) BY <1>9 DEF Applied
 <2>2. ServerTypes' /\ RowsKept({i}) BY <2>1, RowDeletedTypes
 <2>3. i \in MayTrash(c) BY <1>9 DEF MayTrash
 <2> QED BY <2>2, <2>3 DEF RowsKept
<1>10. CASE c.kind = "rename" BY <1>10 DEF Applied, serverVars, ServerTypes, RowsKept
<1>11. CASE c.kind = "mkdir"
 <2>1. dirs' = dirs \cup {i} /\ UNCHANGED <<rows, blobs>> BY <1>11 DEF Applied
 <2>2. i \in Subfolders BY <1>11
 <2> QED BY <2>1, <2>2 DEF ServerTypes, RowsKept
<1>12. c.kind \in Kinds BY DEF ChangeRecord
<1> QED BY <1>4, <1>5, <1>6, <1>7, <1>8, <1>9, <1>10, <1>11, <1>12 DEF Kinds

\* Whether a row is shown in a place.
InPlace(p, r) ==
    IF p = Trash THEN r.trashed
    ELSE /\ ~r.trashed
         /\ IF p = StarredView THEN r.marked
            ELSE IF p = Recent THEN r.folder = Root ELSE r.folder = p

LEMMA PlaceHas ==
    /\ \A p, f : f \in FilesOf(p) <=> f \in DOMAIN rows /\ InPlace(p, rows[f])
    /\ \A p, f : f \in FilesOf(p)' <=> f \in DOMAIN rows' /\ InPlace(p, rows'[f])
<1>1. ASSUME NEW p, NEW f PROVE f \in FilesOf(p) <=> f \in DOMAIN rows /\ InPlace(p, rows[f])
  BY ConstantsOfDrive DEF FilesOf, Trashed, InPlace
<1>2. ASSUME NEW p, NEW f PROVE f \in FilesOf(p)' <=> f \in DOMAIN rows' /\ InPlace(p, rows'[f])
  BY ConstantsOfDrive DEF FilesOf, Trashed, InPlace
<1> QED BY <1>1, <1>2

\* Row i leaves place p, and the other rows of p stay as they are.
Leaves(i, p) ==
    /\ FilesOf(p)' = FilesOf(p) \ {i}
    /\ \A f \in FilesOf(p) \ {i} : rows'[f].marked = rows[f].marked

LEMMA LeavesByRows ==
    ASSUME NEW i, NEW p, \A f \in DOMAIN rows : f # i => f \in DOMAIN rows' /\ rows'[f] = rows[f],
           DOMAIN rows' \subseteq DOMAIN rows,
           i \in DOMAIN rows' => ~InPlace(p, rows'[i])
    PROVE  Leaves(i, p)
<1>1. ASSUME NEW f PROVE f \in FilesOf(p)' <=> f \in FilesOf(p) \ {i} BY PlaceHas
<1>2. ASSUME NEW f \in FilesOf(p) \ {i} PROVE rows'[f].marked = rows[f].marked BY PlaceHas
<1> QED BY <1>1, <1>2 DEF Leaves

LEMMA FileLeaves ==
    ASSUME DriveVarTypes, NEW i, NEW p \in Places, i \in FilesOf(p), RowDeleted(i)
    PROVE  p # Trash /\ Leaves(i, p) /\ dirs' = dirs
<1>1. i \notin Subfolders /\ i \in DOMAIN rows /\ InPlace(p, rows[i])
      /\ rows[i] \in [folder: Folders, trashed: BOOLEAN, marked: BOOLEAN]
  BY PlaceHas, RowFields
<1>2. ServerTypes BY TypeParts
<1>3. /\ ~rows[i].trashed /\ dirs' = dirs /\ DOMAIN rows' = DOMAIN rows
      /\ \A f \in DOMAIN rows : f # i => rows'[f] = rows[f]
      /\ rows'[i] = [rows[i] EXCEPT !.trashed = TRUE]
  BY <1>1, <1>2, FileRow
<1>4. p # Trash BY <1>1, <1>3 DEF InPlace
<1>5. rows'[i].trashed BY <1>1, <1>3
<1>6. ~InPlace(p, rows'[i]) BY <1>4, <1>5 DEF InPlace
<1> QED BY <1>3, <1>4, <1>6, LeavesByRows

\* A folder without files.
LEMMA FolderLeaves ==
    ASSUME DriveVarTypes, NEW i \in Subfolders, RowDeleted(i),
           \A f \in DOMAIN rows : rows[f].folder # i
    PROVE  /\ i \in dirs /\ dirs' = dirs \ {i}
           /\ \A p : FilesOf(p)' = FilesOf(p)
           /\ \A p : \A f \in FilesOf(p) : rows'[f].marked = rows[f].marked
<1>1. ServerTypes BY TypeParts
<1>2. i \in dirs /\ dirs' = dirs \ {i} /\ DOMAIN rows' = DOMAIN rows
      /\ \A f \in DOMAIN rows : rows'[f] = rows[f]
  BY <1>1, FolderRow
<1>3. ASSUME NEW p PROVE FilesOf(p)' = FilesOf(p) BY <1>2, PlaceHas
<1>4. ASSUME NEW p, NEW f \in FilesOf(p) PROVE rows'[f].marked = rows[f].marked BY <1>2, PlaceHas
<1> QED BY <1>2, <1>3, <1>4

\* The list that the last answer of a change sets is what there is then.
LEMMA AppliedMoves ==
    ASSUME DriveVarTypes, NEW c \in ChangeRecord, NEW i \in c.todo, Applied(c, i), ChangeWaits(c),
           NEW p, p = place,
           c.kind \in {"move", "bulk"}
    PROVE  Leaves(i, p) /\ dirs' = dirs
<1>1. i \in DOMAIN rows /\ dirs' = dirs /\ rows' = [rows EXCEPT ![i].folder = c.to] BY DEF Applied
<1>2. place \in Folders /\ c.to # place BY DEF ChangeWaits
<1>3. rows[i] \in [folder: Folders, trashed: BOOLEAN, marked: BOOLEAN] BY <1>1, RowFields
<1>4. DOMAIN rows' = DOMAIN rows /\ (\A f \in DOMAIN rows : f # i => rows'[f] = rows[f])
      /\ rows'[i] = [rows[i] EXCEPT !.folder = c.to]
  BY <1>1
<1>5. rows'[i].folder = c.to BY <1>3, <1>4
<1>6. ~InPlace(p, rows'[i]) BY <1>2, <1>5, ConstantsOfDrive DEF InPlace
<1> QED BY <1>1, <1>4, <1>6, LeavesByRows

LEMMA AppliedInTrash ==
    ASSUME DriveVarTypes, NEW c \in ChangeRecord, NEW i \in c.todo, Applied(c, i), ChangeWaits(c),
           NEW p, p = place,
           c.kind = "restore" \/ c.kind = "empty"
    PROVE  /\ dirs' = dirs
           /\ c.kind = "restore" => Leaves(i, p)
           /\ c.kind = "empty" => FilesOf(p)' = {}
<1>1. place = Trash BY DEF ChangeWaits
<1>2. CASE c.kind = "restore"
 <2>1. i \in DOMAIN rows /\ dirs' = dirs /\ rows' = [rows EXCEPT ![i].trashed = FALSE]
   BY <1>2 DEF Applied
 <2>2. rows[i] \in [folder: Folders, trashed: BOOLEAN, marked: BOOLEAN] BY <2>1, RowFields
 <2>3. DOMAIN rows' = DOMAIN rows /\ (\A f \in DOMAIN rows : f # i => rows'[f] = rows[f])
       /\ rows'[i] = [rows[i] EXCEPT !.trashed = FALSE]
   BY <2>1
 <2>4. ~rows'[i].trashed BY <2>2, <2>3
 <2>5. ~InPlace(p, rows'[i]) BY <1>1, <2>4 DEF InPlace
 <2>6. Leaves(i, p) BY <2>1, <2>3, <2>5, LeavesByRows
 <2> QED BY <1>2, <2>1, <2>6
<1>3. CASE c.kind = "empty"
 <2>1. rows' = [f \in DOMAIN rows \ Trashed |-> rows[f]] /\ dirs' = dirs BY <1>3 DEF Applied
 <2>2. \A f \in DOMAIN rows' : ~rows'[f].trashed BY <2>1 DEF Trashed
 <2>3. ASSUME NEW f PROVE f \notin FilesOf(p)'
  <3>1. ASSUME f \in DOMAIN rows' PROVE ~InPlace(p, rows'[f]) BY <1>1, <2>2, <3>1 DEF InPlace
  <3> QED BY <3>1, PlaceHas
 <2>4. FilesOf(p)' = {} BY <2>3
 <2> QED BY <1>3, <2>1, <2>4
<1> QED BY <1>2, <1>3

LEMMA AgreedThen ==
    ASSUME NEW p, place' = p, NEW fs, NEW ds, AreRows(fs, FilesOf(p)', rows'), ds = FoldersOf(p)'
    PROVE  Agreed(fs, ds)'
<1>1. FilesOf(place)' = FilesOf(p)' BY DEF FilesOf, Trashed
<1>2. FoldersOf(place)' = FoldersOf(p)' BY DEF FoldersOf
<1>3. AreRows(fs, FilesOf(place)', rows') BY <1>1
<1> QED BY <1>2, <1>3 DEF Agreed, AreRows

LEMMA LeftRows ==
    ASSUME NEW i, NEW p, Leaves(i, p), NEW fs, AreRows(fs, FilesOf(p) \ {i}, rows)
    PROVE  AreRows(fs, FilesOf(p)', rows')
<1>1. FilesOf(p)' = FilesOf(p) \ {i} BY DEF Leaves
<1>2. \A f \in FilesOf(p) \ {i} : rows'[f].marked = rows[f].marked BY DEF Leaves
<1>3. AreRows(fs, FilesOf(p) \ {i}, rows') BY <1>2, SameRows
<1> QED BY <1>1, <1>3

LEMMA AppliedMark ==
    ASSUME DriveVarTypes, NEW c \in ChangeRecord, NEW i \in c.todo, Applied(c, i), ChangeWaits(c),
           NEW p, p = place, c.kind \in {"mark", "unmark"}, Agreed(files, folders)
    PROVE  AreRows(c.files, FilesOf(p)', rows') /\ dirs' = dirs
<1>1. PICK b \in BOOLEAN : b = (c.kind = "mark") OBVIOUS
<1>2. p \notin {StarredView, Trash} /\ i \in FilesOf(p) /\ c.files = Marked(i, b)
  BY <1>1 DEF ChangeWaits
<1>3. i \in DOMAIN rows /\ InPlace(p, rows[i]) BY <1>2, PlaceHas
<1>4. ~rows[i].trashed BY <1>2, <1>3 DEF InPlace
<1>5. dirs' = dirs /\ rows' = [rows EXCEPT ![i].marked = b] BY <1>1, <1>4 DEF Applied
<1>6. rows[i] \in [folder: Folders, trashed: BOOLEAN, marked: BOOLEAN] BY <1>3, RowFields
<1>7. /\ DOMAIN rows' = DOMAIN rows /\ (\A f \in DOMAIN rows : f # i => rows'[f] = rows[f])
      /\ rows'[i] = [rows[i] EXCEPT !.marked = b]
  BY <1>3, <1>5
<1>8. rows'[i].marked = b /\ rows'[i].trashed = rows[i].trashed /\ rows'[i].folder = rows[i].folder
  BY <1>6, <1>7
<1>9. InPlace(p, rows'[i]) BY <1>2, <1>3, <1>8 DEF InPlace
<1>10. FilesOf(p)' = FilesOf(p)
 <2>1. ASSUME NEW f PROVE f \in FilesOf(p)' <=> f \in FilesOf(p) BY <1>3, <1>7, <1>9, PlaceHas
 <2> QED BY <2>1
<1>11. AreRows(files, FilesOf(p), rows) BY DEF Agreed
<1>12. \A g \in FilesOf(p) : g # i => rows'[g].marked = rows[g].marked BY <1>7, PlaceHas
<1>13. files \in Seq(Copy) BY TypeParts DEF PageTypes
<1>14. AreRows(Marked(i, b), FilesOf(p), rows') BY <1>8, <1>11, <1>12, <1>13, MarkedRows
<1> QED BY <1>2, <1>5, <1>10, <1>14

LEMMA AppliedFolder ==
    ASSUME DriveVarTypes, NEW c \in ChangeRecord, NEW i \in c.todo, Applied(c, i), ChangeWaits(c),
           NEW p, p = place, c.kind \in {"rename", "rmdir", "mkdir"}, Agreed(files, folders)
    PROVE  AreRows(files, FilesOf(p)', rows') /\ c.folders = FoldersOf(p)'
<1>1. AreRows(files, FilesOf(p), rows) /\ folders = FoldersOf(p) BY DEF Agreed
<1>2. CASE c.kind = "rename"
 <2>1. UNCHANGED <<rows, dirs>> BY <1>2 DEF Applied, serverVars
 <2>2. c.folders = folders BY <1>2 DEF ChangeWaits
 <2>3. FilesOf(p)' = FilesOf(p) BY <2>1 DEF FilesOf, Trashed
 <2>4. FoldersOf(p)' = FoldersOf(p) BY <2>1 DEF FoldersOf
 <2> QED BY <1>1, <2>1, <2>2, <2>3, <2>4
<1>3. CASE c.kind = "rmdir"
 <2>1. p = Root /\ i \in Subfolders /\ c.folders = folders \ {i}
       /\ \A f \in DOMAIN rows : rows[f].folder # i
   BY <1>3 DEF ChangeWaits
 <2>2. RowDeleted(i) BY <1>3 DEF Applied
 <2>3. /\ dirs' = dirs \ {i} /\ FilesOf(p)' = FilesOf(p)
       /\ \A f \in FilesOf(p) : rows'[f].marked = rows[f].marked
   BY <2>1, <2>2, FolderLeaves
 <2>4. AreRows(files, FilesOf(p), rows') BY <1>1, <2>3, SameRows
 <2>5. FoldersOf(p)' = FoldersOf(p) \ {i} BY <2>1, <2>3 DEF FoldersOf
 <2> QED BY <1>1, <2>1, <2>3, <2>4, <2>5
<1>4. CASE c.kind = "mkdir"
 <2>1. c.to = Root /\ dirs' = dirs \cup {i} /\ rows' = rows BY <1>4 DEF Applied
 <2>2. c.to = p /\ c.folders = folders \cup {i} BY <1>4 DEF ChangeWaits
 <2>3. FilesOf(p)' = FilesOf(p) BY <2>1 DEF FilesOf, Trashed
 <2>4. FoldersOf(p)' = FoldersOf(p) \cup {i} BY <2>1, <2>2 DEF FoldersOf
 <2> QED BY <1>1, <2>1, <2>2, <2>3, <2>4
<1> QED BY <1>2, <1>3, <1>4

LEMMA AnsweredAgrees ==
    ASSUME DriveVarTypes, NEW c \in ChangeRecord, NEW i, c.todo = {i}, Applied(c, i), ChangeWaits(c),
           c.single => Agreed(files, folders), place' = place,
           NEW fs, fs = SetFiles(c), NEW ds, ds = SetFolders(c)
    PROVE  Agreed(fs, ds)'
<1>1. PICK p \in Places : p = place BY TypeParts DEF PageTypes
<1>2. SUFFICES AreRows(fs, FilesOf(p)', rows') /\ ds = FoldersOf(p)' BY <1>1, AgreedThen
<1>3. i \in c.todo OBVIOUS
<1>4. ASSUME dirs' = dirs PROVE FoldersOf(p)' = FoldersOf(p) BY <1>4 DEF FoldersOf
<1>5. ASSUME c.single PROVE folders = FoldersOf(p) /\ AreRows(files, FilesOf(p), rows)
  BY <1>1, <1>5 DEF Agreed
<1>6. CASE c.kind \in {"mark", "unmark"}
 <2>1. c.single BY <1>6 DEF ChangeWaits
 <2>2. Agreed(files, folders) BY <2>1
 <2>3. AreRows(c.files, FilesOf(p)', rows') /\ dirs' = dirs BY <1>1, <1>3, <1>6, <2>2, AppliedMark
 <2>4. fs = c.files /\ ds = folders BY <1>6 DEF SetFiles, SetFolders
 <2> QED BY <1>4, <1>5, <2>1, <2>3, <2>4
<1>7. CASE c.kind \in {"move", "bulk"}
 <2>1. Leaves(i, p) /\ dirs' = dirs BY <1>1, <1>3, <1>7, AppliedMoves
 <2>2. AreRows(c.files, FilesOf(p) \ {i}, rows) /\ folders = FoldersOf(p)
   BY <1>1, <1>7 DEF ChangeWaits
 <2>3. AreRows(c.files, FilesOf(p)', rows') BY <2>1, <2>2, LeftRows
 <2>4. fs = c.files /\ ds = folders BY <1>7 DEF SetFiles, SetFolders
 <2> QED BY <1>4, <2>1, <2>2, <2>3, <2>4
<1>8. CASE c.kind = "restore"
 <2>1. Leaves(i, p) /\ dirs' = dirs BY <1>1, <1>3, <1>8, AppliedInTrash
 <2>2. AreRows(c.files, FilesOf(p) \ {i}, rows) /\ c.single BY <1>1, <1>8 DEF ChangeWaits
 <2>3. AreRows(c.files, FilesOf(p)', rows') BY <2>1, <2>2, LeftRows
 <2>4. fs = c.files /\ ds = folders BY <1>8 DEF SetFiles, SetFolders
 <2> QED BY <1>4, <1>5, <2>1, <2>2, <2>3, <2>4
<1>9. CASE c.kind = "empty"
 <2>1. FilesOf(p)' = {} /\ dirs' = dirs BY <1>1, <1>3, <1>9, AppliedInTrash
 <2>2. c.files = <<>> /\ c.single BY <1>9 DEF ChangeWaits
 <2>3. AreRows(<<>>, {}, rows') BY EmptyLists DEF AreRows
 <2>4. fs = c.files /\ ds = folders BY <1>9 DEF SetFiles, SetFolders
 <2> QED BY <1>4, <1>5, <2>1, <2>2, <2>3, <2>4
<1>10. CASE c.kind \in {"rename", "rmdir", "mkdir"}
 <2>1. c.single BY <1>10 DEF ChangeWaits
 <2>2. Agreed(files, folders) BY <2>1
 <2>3. AreRows(files, FilesOf(p)', rows') /\ c.folders = FoldersOf(p)'
   BY <1>1, <1>3, <1>10, <2>2, AppliedFolder
 <2>4. fs = files /\ ds = c.folders BY <1>10 DEF SetFiles, SetFolders
 <2> QED BY <2>3, <2>4
<1>11. c.kind # "delete" BY DEF ChangeWaits
<1>12. c.kind \in Kinds BY DEF ChangeRecord
<1> QED BY <1>6, <1>7, <1>8, <1>9, <1>10, <1>11, <1>12 DEF Kinds

\* A change with fewer items left.
Answering(e, c, ids) ==
    /\ e \in ChangeRecord
    /\ e.kind = c.kind /\ e.to = c.to /\ e.files = c.files /\ e.folders = c.folders
    /\ (e.single <=> c.single) /\ e.todo = ids

LEMMA AnsweringIs ==
    ASSUME NEW c \in ChangeRecord, NEW ids \in SUBSET c.todo
    PROVE  /\ Answering([c EXCEPT !.todo = ids], c, ids)
           /\ [c EXCEPT !.todo = ids].failed <=> c.failed
           /\ Answering([c EXCEPT !.todo = ids, !.failed = TRUE], c, ids)
           /\ [c EXCEPT !.todo = ids, !.failed = TRUE].failed
<1>1. ids \in SUBSET (Items \cup Places) BY DEF ChangeRecord
<1>2. PICK e : e = [c EXCEPT !.todo = ids] OBVIOUS
<1>3. Answering(e, c, ids) /\ (e.failed <=> c.failed) BY <1>1, <1>2 DEF Answering, ChangeRecord
<1>4. PICK g : g = [c EXCEPT !.todo = ids, !.failed = TRUE] OBVIOUS
<1>5. g = [e EXCEPT !.failed = TRUE] BY <1>2, <1>4 DEF ChangeRecord
<1>6. e \in ChangeRecord BY <1>3 DEF Answering
<1>7. /\ g \in ChangeRecord /\ g.kind = e.kind /\ g.to = e.to /\ g.files = e.files
      /\ g.folders = e.folders /\ (g.single <=> e.single) /\ g.todo = e.todo /\ g.failed
  BY <1>5, <1>6 DEF ChangeRecord
<1>8. Answering(g, c, ids) BY <1>3, <1>7 DEF Answering
<1> QED BY <1>2, <1>3, <1>4, <1>7, <1>8

LEMMA ChangeFacts ==
    ASSUME DriveInv, NEW c \in changes
    PROVE  /\ DriveVarTypes /\ ServerTypes /\ PageTypes /\ UploadTypes /\ c \in ChangeRecord
           /\ c.kind \in {"rmdir", "mkdir"} => c.todo \subseteq Subfolders
           /\ c.kind = "delete" => c.todo \cap spared = {}
           /\ \A f \in spared : f \notin MayTrash(c) /\ f \in DOMAIN rows /\ ~rows[f].trashed
           /\ ~off => changes = {c} /\ deletions = {} /\ ChangeOK(c) /\ placeLoad = "done"
<1>1. DriveVarTypes /\ ServerTypes /\ PageTypes /\ UploadTypes BY TypeParts DEF DriveInv
<1>2. c \in ChangeRecord BY <1>1 DEF PageTypes
<1>3. \A f \in DOMAIN rows : f \notin Subfolders BY <1>1, RowFields
<1>4. /\ c.kind \in {"rmdir", "mkdir"} => c.todo \subseteq Subfolders
      /\ c.kind = "delete" => c.todo \cap spared = {}
      /\ \A f \in spared : f \in DOMAIN rows /\ ~rows[f].trashed
  BY DEF DriveInv, SparedFiles
<1>5. \A f \in spared : f \notin MayTrash(c) BY <1>3, <1>4 DEF MayTrash
<1>6. ~off => changes = {c} /\ deletions = {} /\ ChangeOK(c) /\ placeLoad = "done"
 <2>1. SUFFICES ASSUME ListsAgree PROVE changes = {c} /\ deletions = {} /\ ChangeOK(c) /\ placeLoad = "done"
   BY DEF DriveInv
 <2>2. changes # {} OBVIOUS
 <2> QED BY <2>1, <2>2 DEF ListsAgree
<1> QED BY <1>1, <1>2, <1>4, <1>5, <1>6

\* The types and the files spared, when the server answers for a change.
LEMMA AnswerKeeps ==
    ASSUME DriveInv, NEW c \in changes, NEW e, NEW ids \in SUBSET c.todo, Answering(e, c, ids),
           changes' = (changes \ {c}) \cup {e},
           ServerTypes', RowsKept(MayTrash(c)) \/ UNCHANGED serverVars,
           UNCHANGED <<loadVars, files, folders, chosen, deletions, uploadVars, driveActs, spared>>,
           undo' = undo \/ undo' = NoUndo, off' \in BOOLEAN
    PROVE  DriveVarTypes' /\ DeletionsNumbered' /\ SparedFiles'
<1>1. PageTypes /\ UploadTypes /\ c \in ChangeRecord BY ChangeFacts
<1>2. e \in ChangeRecord /\ e.kind = c.kind /\ e.todo \subseteq c.todo BY DEF Answering
<1>3. PageTypes' BY <1>1, <1>2, EmptyLists DEF PageTypes, loadVars
<1>4. UploadTypes' BY <1>1 DEF UploadTypes, uploadVars
<1>5. DeletionsNumbered'
 <2>1. deletions' = deletions /\ driveActs' = driveActs OBVIOUS
 <2>2. driveActs \in Nat /\ (undo' = NoUndo => undo'.n = 0)
   BY <1>1, EmptyLists, ConstantsOfDrive DEF PageTypes
 <2> QED BY <2>1, <2>2 DEF DriveInv, DeletionsNumbered
<1>6. SparedFiles'
 <2>1. ASSUME NEW f \in spared' PROVE f \in DOMAIN rows' /\ ~rows'[f].trashed
  <3>1. f \notin MayTrash(c) /\ f \in DOMAIN rows /\ ~rows[f].trashed BY <2>1, ChangeFacts
  <3> QED BY <3>1 DEF RowsKept, serverVars
 <2>2. ASSUME NEW g \in changes'
       PROVE  /\ g.kind = "delete" => g.todo \cap spared = {}
              /\ g.kind \in {"rmdir", "mkdir"} => g.todo \subseteq Subfolders
  <3>1. PICK h \in changes : g.kind = h.kind /\ g.todo \subseteq h.todo BY <1>2, <2>2
  <3> QED BY <3>1 DEF DriveInv, SparedFiles
 <2>3. \A d \in deletions' : d.todo \cap spared' = {} BY DEF DriveInv, SparedFiles
 <2> QED BY <2>1, <2>2, <2>3 DEF SparedFiles
<1>7. ServerTypes' OBVIOUS
<1> QED BY <1>3, <1>4, <1>5, <1>6, <1>7, TypeParts

LEMMA ChangeStays ==
    ASSUME NEW e, changes' = {e}, deletions' = {}, placeLoad' = "done", ChangeOK(e)'
    PROVE  ListsAgree'
  BY DEF ListsAgree

LEMMA TakenKeeps == ASSUME DriveInv, NEW c \in changes, NEW i \in c.todo, Taken(c, i) PROVE DriveInv'
<1>1. /\ DriveVarTypes /\ ServerTypes /\ PageTypes /\ c \in ChangeRecord
      /\ c.kind \in {"rmdir", "mkdir"} => c.todo \subseteq Subfolders
  BY ChangeFacts
<1>2. PICK ids \in SUBSET c.todo : ids = c.todo \ {i} OBVIOUS
<1>3. PICK e : e = [c EXCEPT !.todo = ids] OBVIOUS
<1>4. Answering(e, c, ids) /\ (e.failed <=> c.failed) BY <1>1, <1>3, AnsweringIs, Zenon
<1>5. Applied(c, i) BY DEF Taken
<1>6. changes' = (changes \ {c}) \cup {e} /\ undo' = undo /\ off' = off
      /\ UNCHANGED <<loadVars, files, folders, chosen, deletions, uploadVars, driveActs, spared>>
  BY <1>2, <1>3 DEF Taken
<1>7. ServerTypes' /\ RowsKept(MayTrash(c)) BY <1>1, <1>5, AppliedTypes
<1>8. off' \in BOOLEAN BY <1>1, <1>6 DEF PageTypes
<1>9. DriveVarTypes' /\ DeletionsNumbered' /\ SparedFiles' BY <1>4, <1>6, <1>7, <1>8, AnswerKeeps
<1>10. ASSUME ~off' PROVE ListsAgree'
 <2>1. changes = {c} /\ deletions = {} /\ ChangeOK(c) /\ placeLoad = "done"
   BY <1>6, <1>10, ChangeFacts
 <2>2. changes' = {e} /\ deletions' = {} /\ placeLoad' = "done" /\ place' = place
       /\ files' = files /\ folders' = folders
   BY <1>6, <2>1 DEF loadVars
 <2>3. ChangeWaits(c) /\ ~c.failed /\ (c.single => c.todo = {i} /\ Agreed(files, folders))
   BY <2>1 DEF ChangeOK
 <2>4. /\ e.kind = c.kind /\ e.to = c.to /\ e.files = c.files /\ e.folders = c.folders
       /\ (e.single <=> c.single) /\ e.todo = c.todo \ {i} /\ ~e.failed
   BY <1>2, <1>4, <2>3 DEF Answering
 <2>5. CASE c.todo = {i}
  <3>1. PICK fs, ds : fs = SetFiles(c) /\ ds = SetFolders(c) OBVIOUS
  <3>2. Agreed(fs, ds)' BY <1>1, <1>5, <2>2, <2>3, <2>5, <3>1, AnsweredAgrees
  <3>3. SetFiles(e)' = fs /\ SetFolders(e)' = ds BY <2>2, <2>4, <3>1 DEF SetFiles, SetFolders
  <3>4. Agreed(SetFiles(e), SetFolders(e))' BY <3>2, <3>3 DEF Agreed
  <3>5. e.todo = {} /\ \E x : e.todo \subseteq {x} BY <2>4, <2>5
  <3>6. ChangeOK(e)' BY <2>4, <3>4, <3>5 DEF ChangeOK
  <3> QED BY <2>2, <3>6, ChangeStays
 <2>6. CASE c.todo # {i}
  <3>1. ~c.single BY <2>3, <2>6
  <3>2. c.kind \in {"move", "bulk"} BY <2>3, <3>1 DEF ChangeWaits
  <3>3. PICK p \in Places : p = place BY <1>1 DEF PageTypes
  <3>4. Leaves(i, p) /\ dirs' = dirs BY <1>1, <1>5, <2>3, <3>2, <3>3, AppliedMoves
  <3>5. /\ p \in Folders /\ c.to # p /\ folders = FoldersOf(p)
        /\ AreRows(c.files, FilesOf(p) \ c.todo, rows)
    BY <2>3, <3>2, <3>3 DEF ChangeWaits
  <3>6. FilesOf(p) \ c.todo = FilesOf(p)' \ e.todo
        /\ \A f \in FilesOf(p) \ c.todo : rows'[f].marked = rows[f].marked
    BY <2>4, <3>4 DEF Leaves
  <3>7. AreRows(c.files, FilesOf(p) \ c.todo, rows') BY <3>5, <3>6, SameRows
  <3>8. AreRows(e.files, FilesOf(p)' \ e.todo, rows') BY <2>4, <3>6, <3>7
  <3>9. folders' = FoldersOf(place)' BY <2>2, <3>3, <3>4, <3>5 DEF FoldersOf
  <3>10. FilesOf(place)' = FilesOf(p)' /\ place' = p BY <2>2, <3>3 DEF FilesOf, Trashed
  <3>11. AreRows(e.files, FilesOf(place)' \ e.todo, rows') BY <3>8, <3>10
  <3>12. ChangeWaits(e)' BY <2>4, <3>2, <3>5, <3>9, <3>10, <3>11 DEF ChangeWaits, AreRows
  <3>13. e.todo # {} BY <2>4, <2>6
  <3>14. ChangeOK(e)' BY <2>4, <3>1, <3>12, <3>13 DEF ChangeOK
  <3> QED BY <2>2, <3>14, ChangeStays
 <2> QED BY <2>5, <2>6
<1> QED BY <1>9, <1>10 DEF DriveInv

LEMMA RefusedKeeps == ASSUME DriveInv, NEW c \in changes, NEW i \in c.todo, Refused(c, i) PROVE DriveInv'
<1>1. /\ DriveVarTypes /\ ServerTypes /\ PageTypes /\ c \in ChangeRecord
      /\ c.kind \in {"rmdir", "mkdir"} => c.todo \subseteq Subfolders
  BY ChangeFacts
<1>2. PICK ids \in SUBSET c.todo : ids = IF c.kind = "delete" THEN {} ELSE c.todo \ {i} OBVIOUS
<1>3. PICK e : e = [c EXCEPT !.todo = ids, !.failed = TRUE] OBVIOUS
<1>4. Answering(e, c, ids) /\ e.failed BY <1>1, <1>3, AnsweringIs, Zenon
<1>5. UNCHANGED serverVars \/ Applied(c, i) BY DEF Refused
<1>6. changes' = (changes \ {c}) \cup {e} /\ undo' = NoUndo
      /\ off' = (off \/ ~c.single \/ rows' # rows \/ dirs' # dirs)
      /\ UNCHANGED <<loadVars, files, folders, chosen, deletions, uploadVars, driveActs, spared>>
  BY <1>2, <1>3 DEF Refused
<1>7. ServerTypes' /\ (RowsKept(MayTrash(c)) \/ UNCHANGED serverVars)
 <2>1. CASE UNCHANGED serverVars BY <1>1, <2>1 DEF serverVars, ServerTypes
 <2>2. CASE Applied(c, i) BY <1>1, <2>2, AppliedTypes
 <2> QED BY <1>5, <2>1, <2>2
<1>8. off' \in BOOLEAN BY <1>1, <1>6 DEF PageTypes
<1>9. DriveVarTypes' /\ DeletionsNumbered' /\ SparedFiles' BY <1>4, <1>6, <1>7, <1>8, AnswerKeeps
<1>10. ASSUME ~off' PROVE ListsAgree'
 <2>0. ~off /\ c.single /\ rows' = rows /\ dirs' = dirs BY <1>6, <1>10
 <2>1. changes = {c} /\ deletions = {} /\ ChangeOK(c) /\ placeLoad = "done" BY <2>0, ChangeFacts
 <2>2. changes' = {e} /\ deletions' = {} /\ placeLoad' = "done" /\ place' = place
       /\ files' = files /\ folders' = folders
   BY <1>6, <2>1 DEF loadVars
 <2>3. c.todo = {i} /\ Agreed(files, folders) BY <2>0, <2>1 DEF ChangeOK
 <2>4. e.single /\ e.todo = {} /\ e.failed BY <1>2, <1>4, <2>0, <2>3 DEF Answering
 <2>5. Agreed(files, folders)'
  <3>1. FilesOf(place)' = FilesOf(place) /\ FoldersOf(place)' = FoldersOf(place)
    BY <2>0, <2>2, SamePlace
  <3> QED BY <2>0, <2>2, <2>3, <3>1 DEF Agreed, AreRows
 <2>6. \E x : e.todo \subseteq {x} BY <2>4
 <2>7. ChangeOK(e)' BY <2>4, <2>5, <2>6 DEF ChangeOK
 <2> QED BY <2>2, <2>7, ChangeStays
<1> QED BY <1>9, <1>10 DEF DriveInv

\* Nothing is under way any more.
LEMMA SettledLists ==
    ASSUME changes' = {}, deletions' = {}, Agreed(files, folders)', placeLoad' = "done"
    PROVE  ListsAgree'
<1>1. Waiting' = {} BY DEF Waiting
<1>2. (FilesOf(place) \ Waiting)' = FilesOf(place)' /\ (FoldersOf(place) \ Waiting)' = FoldersOf(place)'
  BY <1>1
<1> QED BY <1>2 DEF ListsAgree, Agreed, AreRows

LEMMA ChangeDoneKeeps == ASSUME DriveInv, NEW c \in changes, ChangeDone(c) PROVE DriveInv'
<1>1. DriveVarTypes /\ ServerTypes /\ PageTypes /\ UploadTypes /\ c \in ChangeRecord BY ChangeFacts
<1>2. PICK fs, ds : /\ fs = (IF c.failed THEN files ELSE SetFiles(c))
                    /\ ds = (IF c.failed THEN folders ELSE SetFolders(c))
  OBVIOUS
<1>3. /\ changes' = changes \ {c} /\ files' = fs /\ folders' = ds /\ off' = off
      /\ chosen' = chosen \/ chosen' = {}
      /\ undo' = undo \/ undo' = NoUndo
      /\ UNCHANGED <<serverVars, loadVars, deletions, uploadVars, driveActs, spared>>
  BY <1>2 DEF ChangeDone, SetFiles, SetFolders
<1>4. fs \in Seq(Copy) /\ ds \subseteq Subfolders
 <2>1. c.files \in Seq(Copy) /\ c.folders \subseteq Subfolders BY <1>1 DEF ChangeRecord
 <2> QED BY <1>1, <1>2, <2>1 DEF PageTypes, SetFiles, SetFolders
<1>5. DriveVarTypes'
 <2>1. IsFiniteSet({}) BY FS_EmptySet
 <2>2. PageTypes' BY <1>1, <1>3, <1>4, <2>1, EmptyLists DEF PageTypes, loadVars
 <2>3. ServerTypes' BY <1>1, <1>3 DEF ServerTypes, serverVars
 <2>4. UploadTypes' BY <1>1, <1>3 DEF UploadTypes, uploadVars
 <2> QED BY <2>2, <2>3, <2>4, TypeParts
<1>6. DeletionsNumbered'
 <2>2. driveActs \in Nat /\ (undo' = NoUndo => undo'.n = 0)
   BY <1>1, EmptyLists, ConstantsOfDrive DEF PageTypes
 <2> QED BY <1>3, <2>2 DEF DriveInv, DeletionsNumbered
<1>7. SparedFiles' BY <1>3 DEF DriveInv, SparedFiles, serverVars
<1>8. ASSUME ~off' PROVE ListsAgree'
 <2>1. changes = {c} /\ deletions = {} /\ ChangeOK(c) /\ placeLoad = "done"
   BY <1>3, <1>8, ChangeFacts
 <2>2. c.todo = {} BY DEF ChangeDone
 <2>3. Agreed(fs, ds)
  <3>1. CASE c.failed BY <1>2, <2>1, <3>1 DEF ChangeOK
  <3>2. CASE ~c.failed BY <1>2, <2>1, <2>2, <3>2 DEF ChangeOK
  <3> QED BY <3>1, <3>2
 <2>4. Agreed(files, folders)'
  <3>1. UNCHANGED <<rows, dirs, place>> BY <1>3 DEF serverVars, loadVars
  <3>2. FilesOf(place)' = FilesOf(place) /\ FoldersOf(place)' = FoldersOf(place)
    BY <3>1, SamePlace
  <3> QED BY <1>3, <2>3, <3>1, <3>2 DEF Agreed, AreRows
 <2>5. changes' = {} /\ deletions' = {} /\ placeLoad' = "done" BY <1>3, <2>1 DEF loadVars
 <2> QED BY <2>4, <2>5, SettledLists
<1> QED BY <1>5, <1>6, <1>7, <1>8 DEF DriveInv

-------------------------------------------------------------------------------
(* Deletions. *)

LEMMA DeletionFacts ==
    ASSUME DriveInv
    PROVE  /\ DriveVarTypes /\ ServerTypes /\ PageTypes /\ UploadTypes
           /\ \A d \in deletions : /\ d \in DeletionRecord /\ d.todo \cap spared = {}
                                   /\ d.files \in Seq(Copy) /\ d.folders \subseteq Subfolders
                                   /\ d.todo \subseteq Items /\ d.n \in Nat
           /\ ~off /\ placeLoad = "done" /\ changes = {} =>
                 /\ AreRows(files, FilesOf(place) \ Waiting, rows)
                 /\ folders = FoldersOf(place) \ Waiting
                 /\ \A d \in deletions : DeletionOK(d) /\ d.todo \subseteq Waiting
           /\ ~off /\ deletions # {} => placeLoad = "done" /\ changes = {}
<1>1. DriveVarTypes /\ ServerTypes /\ PageTypes /\ UploadTypes BY TypeParts DEF DriveInv
<1>2. ASSUME NEW d \in deletions
      PROVE  /\ d \in DeletionRecord /\ d.todo \cap spared = {}
             /\ d.files \in Seq(Copy) /\ d.folders \subseteq Subfolders /\ d.todo \subseteq Items
             /\ d.n \in Nat
 <2>1. d \in DeletionRecord BY <1>1 DEF PageTypes
 <2> QED BY <2>1 DEF DriveInv, SparedFiles, DeletionRecord
<1>3. ~off => ListsAgree BY DEF DriveInv
<1>4. \A d \in deletions : d.todo \subseteq Waiting BY DEF Waiting
<1> QED BY <1>1, <1>2, <1>3, <1>4 DEF ListsAgree

\* What is left of a deletion.
Less(e, d) ==
    /\ e \in DeletionRecord
    /\ e.n = d.n /\ e.files = d.files /\ e.folders = d.folders /\ e.todo \subseteq d.todo

LEMMA AskedIs ==
    ASSUME NEW d \in DeletionRecord, NEW e, e = [d EXCEPT !.asked = TRUE]
    PROVE  Less(e, d) /\ e.todo = d.todo /\ e.asked /\ (e.failed <=> d.failed)
  BY DEF Less, DeletionRecord

IsHandled(e, d, ids, b) == e = [d EXCEPT !.todo = ids, !.failed = b]

LEMMA LessIs ==
    ASSUME NEW d \in DeletionRecord, NEW ids \in SUBSET d.todo, NEW b \in BOOLEAN,
           NEW e, IsHandled(e, d, ids, b)
    PROVE  Less(e, d) /\ e.todo = ids /\ (e.asked <=> d.asked) /\ (e.failed <=> b)
<1>1. ids \in SUBSET Items BY DEF DeletionRecord
<1>4. PICK f : f = [d EXCEPT !.todo = ids] OBVIOUS
<1>5. Less(f, d) /\ f.todo = ids /\ (f.asked <=> d.asked) BY <1>1, <1>4 DEF Less, DeletionRecord
<1>7. e = [f EXCEPT !.failed = b] BY <1>4 DEF DeletionRecord, IsHandled
<1>8. f \in DeletionRecord BY <1>5 DEF Less
<1>9. e \in DeletionRecord /\ e.n = f.n /\ e.files = f.files /\ e.folders = f.folders /\ e.todo = f.todo
      /\ (e.asked <=> f.asked) /\ (e.failed <=> b)
  BY <1>7, <1>8 DEF DeletionRecord
<1>10. Less(e, d) BY <1>5, <1>9 DEF Less
<1> QED BY <1>5, <1>9, <1>10

\* The types, the numbers and the files spared, when a deletion goes on.
LEMMA GoesOnKeeps ==
    ASSUME DriveInv, NEW d \in deletions, NEW e, Less(e, d),
           deletions' = deletions \ {d} \/ deletions' = (deletions \ {d}) \cup {e},
           ServerTypes', RowsKept(d.todo) \/ UNCHANGED serverVars,
           files' \in Seq(Copy), folders' \subseteq Subfolders,
           UNCHANGED <<loadVars, chosen, changes, uploadVars, driveActs, spared>>,
           undo' = undo \/ undo' = NoUndo, off' \in BOOLEAN
    PROVE  DriveVarTypes' /\ DeletionsNumbered' /\ SparedFiles'
<1>1. ServerTypes /\ PageTypes /\ UploadTypes BY DeletionFacts
<1>2. PageTypes' BY <1>1, EmptyLists DEF PageTypes, loadVars, Less
<1>3. UploadTypes' BY <1>1 DEF UploadTypes, uploadVars
<1>4. DeletionsNumbered'
 <2>1. driveActs \in Nat /\ (undo' = NoUndo => undo'.n = 0)
   BY <1>1, EmptyLists, ConstantsOfDrive DEF PageTypes
 <2>2. \A g \in deletions' : \E h \in deletions : /\ g.n = h.n /\ g.files = h.files
                                                  /\ g.folders = h.folders
   BY DEF Less
 <2>3. \A h \in deletions : /\ h.n \in 1 .. driveActs
                            /\ h.n = undo.n => undo.files = h.files /\ undo.folders = h.folders
                            /\ \A g \in deletions : g.n = h.n => g = h
   BY DEF DriveInv, DeletionsNumbered
 <2>4. undo'.n <= driveActs BY <2>1 DEF DriveInv, DeletionsNumbered
 <2>5. ASSUME NEW g \in deletions'
       PROVE  /\ g.n \in 1 .. driveActs
              /\ g.n = undo'.n => undo'.files = g.files /\ undo'.folders = g.folders
   BY <2>1, <2>2, <2>3
 <2>6. ASSUME NEW g \in deletions', NEW h \in deletions', g.n = h.n PROVE g = h
  <3>1. (g \in deletions /\ g # d) \/ g = e OBVIOUS
  <3>2. (h \in deletions /\ h # d) \/ h = e OBVIOUS
  <3>3. e.n = d.n BY DEF Less
  <3> QED BY <2>3, <2>6, <3>1, <3>2, <3>3
 <2> QED BY <2>4, <2>5, <2>6 DEF DeletionsNumbered
<1>5. SparedFiles'
 <2>1. ASSUME NEW f \in spared' PROVE f \in DOMAIN rows' /\ ~rows'[f].trashed
  <3>1. f \notin d.todo /\ f \in DOMAIN rows /\ ~rows[f].trashed BY <2>1 DEF DriveInv, SparedFiles
  <3> QED BY <3>1 DEF RowsKept, serverVars
 <2>2. ASSUME NEW g \in deletions' PROVE g.todo \cap spared' = {}
  <3>1. \E h \in deletions : g.todo \subseteq h.todo BY DEF Less
  <3> QED BY <3>1 DEF DriveInv, SparedFiles
 <2>3. changes' = changes /\ spared' = spared OBVIOUS
 <2> QED BY <2>1, <2>2, <2>3 DEF DriveInv, SparedFiles
<1>6. ServerTypes' OBVIOUS
<1> QED BY <1>2, <1>3, <1>4, <1>5, <1>6, TypeParts

LEMMA WaitingLess ==
    ASSUME DriveInv, ~off, NEW d \in deletions, NEW e, Less(e, d),
           \/ e.todo = {} /\ deletions' = deletions \ {d}
           \/ deletions' = (deletions \ {d}) \cup {e}
    PROVE  Waiting' = Waiting \ (d.todo \ e.todo)
<1>1. \A g \in deletions : DeletionOK(g) BY DeletionFacts
<1>2. \A g \in deletions : g # d => g.todo \cap d.todo = {} BY <1>1 DEF DeletionOK
<1>3. e.todo \subseteq d.todo BY DEF Less
<1>4. ASSUME NEW x PROVE x \in Waiting' <=> x \in Waiting \ (d.todo \ e.todo)
 <2>1. x \in Waiting <=> \E g \in deletions : x \in g.todo BY DEF Waiting
 <2>2. x \in Waiting' <=> \E g \in deletions' : x \in g.todo BY DEF Waiting
 <2>3. x \in Waiting' => x \in Waiting \ (d.todo \ e.todo) BY <1>2, <1>3, <2>1, <2>2
 <2>4. x \in Waiting \ (d.todo \ e.todo) => x \in Waiting' BY <2>1, <2>2
 <2> QED BY <2>3, <2>4
<1> QED BY <1>4

\* The toast or a refused request brings back all of a deletion.
LEMMA BroughtBack ==
    ASSUME DriveInv, ~off, NEW d \in deletions, IdsOf(d.files) \cup d.folders = d.todo,
           deletions' = deletions \ {d}, files' = files \o d.files, folders' = folders \cup d.folders,
           UNCHANGED <<rows, dirs, loadVars, changes>>
    PROVE  ListsAgree'
<1>1. /\ ServerTypes /\ PageTypes /\ DriveVarTypes /\ placeLoad = "done" /\ changes = {}
      /\ AreRows(files, FilesOf(place) \ Waiting, rows) /\ folders = FoldersOf(place) \ Waiting
      /\ \A g \in deletions : DeletionOK(g) /\ g.todo \subseteq Waiting
      /\ d \in DeletionRecord /\ d.files \in Seq(Copy) /\ d.folders \subseteq Subfolders
  BY DeletionFacts
<1>2. PICK F, D : F = FilesOf(place) /\ D = FoldersOf(place) OBVIOUS
<1>3. PICK W : W = Waiting OBVIOUS
<1>4. F \cap Subfolders = {} /\ D \subseteq Subfolders BY <1>1, <1>2, RowFields
<1>5. IdsOf(d.files) \cap Subfolders = {} BY <1>1, CopyFields DEF IdsOf
<1>6. /\ d.todo \subseteq F \cup D /\ d.todo \subseteq W
      /\ \A k, l \in DOMAIN d.files : d.files[k].id = d.files[l].id => k = l
      /\ \A k \in DOMAIN d.files :
            d.files[k].id \in d.todo => d.files[k].marked = rows[d.files[k].id].marked
  BY <1>1, <1>2, <1>3 DEF DeletionOK
<1>7. AreRows(d.files, IdsOf(d.files), rows) BY <1>6 DEF AreRows, IdsOf
<1>8. (F \ W) \cap IdsOf(d.files) = {} BY <1>6
<1>9. AreRows(files \o d.files, (F \ W) \cup IdsOf(d.files), rows)
  BY <1>1, <1>2, <1>3, <1>7, <1>8, JoinedRows DEF PageTypes
<1>10. Waiting' = W \ d.todo
 <2>1. PICK b \in BOOLEAN : b = FALSE OBVIOUS
 <2>2. PICK e : IsHandled(e, d, {}, b) BY DEF IsHandled
 <2>3. Less(e, d) /\ e.todo = {} BY <1>1, <2>2, LessIs
 <2>4. Waiting' = Waiting \ (d.todo \ e.todo) BY <2>3, WaitingLess
 <2> QED BY <1>3, <2>3, <2>4
<1>11. (F \ W) \cup IdsOf(d.files) = F \ Waiting' /\ (D \ W) \cup d.folders = D \ Waiting'
 <2>1. PICK I, E : I = IdsOf(d.files) /\ E = d.folders OBVIOUS
 <2>2. d.todo = I \cup E /\ E \subseteq Subfolders BY <1>1, <2>1
 <2>3. I \subseteq F /\ E \subseteq D BY <1>4, <1>5, <1>6, <2>1, <2>2
 <2>4. F \ (W \ d.todo) = (F \ W) \cup I BY <1>4, <2>2, <2>3
 <2>5. D \ (W \ d.todo) = (D \ W) \cup E BY <1>4, <1>5, <2>1, <2>2, <2>3
 <2> QED BY <1>10, <2>1, <2>4, <2>5
<1>12. UNCHANGED <<rows, dirs, place>> /\ placeLoad' = "done" /\ changes' = {} BY <1>1 DEF loadVars
<1>13. FilesOf(place)' = F /\ FoldersOf(place)' = D BY <1>2, <1>12, SamePlace
<1>14. AreRows(files, FilesOf(place) \ Waiting, rows)'
 <2>1. AreRows(files', F \ Waiting', rows') BY <1>9, <1>11, <1>12
 <2> QED BY <1>13, <2>1 DEF AreRows
<1>15. folders' = FoldersOf(place)' \ Waiting' BY <1>1, <1>2, <1>3, <1>11, <1>13
<1>16. ASSUME NEW g \in deletions' PROVE DeletionOK(g)'
 <2>1. DeletionOK(g) BY <1>1
 <2> QED BY <2>1, <1>12, <1>13, <1>2 DEF DeletionOK
<1> QED BY <1>12, <1>14, <1>15, <1>16 DEF ListsAgree

LEMMA TimerKeeps == ASSUME DriveInv, NEW d \in deletions, DeletionStarts(d) PROVE DriveInv'
<1>1. ServerTypes /\ PageTypes /\ d \in DeletionRecord BY DeletionFacts
<1>2. PICK e : e = [d EXCEPT !.asked = TRUE] OBVIOUS
<1>3. Less(e, d) /\ e.todo = d.todo /\ e.asked /\ (e.failed <=> d.failed) BY <1>1, <1>2, AskedIs
<1>4. \/ e.todo = {} /\ deletions' = deletions \ {d}
      \/ deletions' = (deletions \ {d}) \cup {e}
  BY <1>2, <1>3 DEF DeletionStarts
<1>5. UNCHANGED <<serverVars, loadVars, files, folders, chosen, undo, changes, uploadVars,
                  driveActs, off, spared>>
  BY DEF DeletionStarts
<1>6. ServerTypes' BY <1>1, <1>5 DEF ServerTypes, serverVars
<1>7. files' \in Seq(Copy) /\ folders' \subseteq Subfolders /\ off' \in BOOLEAN BY <1>1, <1>5 DEF PageTypes
<1>8. DriveVarTypes' /\ DeletionsNumbered' /\ SparedFiles'
  BY <1>3, <1>4, <1>5, <1>6, <1>7, GoesOnKeeps
<1>9. ASSUME ~off' PROVE ListsAgree'
 <2>1. ~off BY <1>5, <1>9
 <2>2. /\ placeLoad = "done" /\ changes = {}
       /\ AreRows(files, FilesOf(place) \ Waiting, rows) /\ folders = FoldersOf(place) \ Waiting
       /\ \A g \in deletions : DeletionOK(g)
   BY <2>1, DeletionFacts
 <2>3. Waiting' = Waiting
  <3>1. Waiting' = Waiting \ (d.todo \ e.todo) BY <1>3, <1>4, <2>1, WaitingLess
  <3> QED BY <1>3, <3>1
 <2>4. UNCHANGED <<rows, dirs, place, placeLoad, files, folders, changes>>
   BY <1>5 DEF serverVars, loadVars
 <2>5. FilesOf(place)' = FilesOf(place) /\ FoldersOf(place)' = FoldersOf(place) BY <2>4, SamePlace
 <2>6. ASSUME NEW g \in deletions' PROVE DeletionOK(g)'
  <3>1. \A h \in deletions' : h \in deletions \/ h = e BY <1>4
  <3>2. CASE g = e
   <4>1. DeletionOK(d) BY <2>2
   <4>2. e.files = d.files /\ e.folders = d.folders BY <1>3 DEF Less
   <4>3. \A h \in deletions' : h # e => h \in deletions /\ h # d BY <1>4
   <4> QED BY <1>3, <2>4, <2>5, <3>2, <4>1, <4>2, <4>3 DEF DeletionOK
  <3>3. CASE g # e
   <4>1. g \in deletions /\ g # d /\ DeletionOK(g) BY <1>4, <2>2, <3>3
   <4>2. \A h \in deletions' : h # g => h.todo \cap g.todo = {}
     BY <1>3, <3>1, <4>1 DEF DeletionOK
   <4> QED BY <2>4, <2>5, <4>1, <4>2 DEF DeletionOK
  <3> QED BY <3>2, <3>3
 <2>7. AreRows(files, FilesOf(place) \ Waiting, rows)' BY <2>2, <2>3, <2>4, <2>5 DEF AreRows
 <2>8. folders' = FoldersOf(place)' \ Waiting' BY <2>2, <2>3, <2>4, <2>5
 <2> QED BY <2>2, <2>4, <2>6, <2>7, <2>8 DEF ListsAgree
<1> QED BY <1>8, <1>9 DEF DriveInv

\* The server has deleted an item of the place that is shown.
Gone(i, p) ==
    /\ FilesOf(p)' = FilesOf(p) \ {i} /\ FoldersOf(p)' = FoldersOf(p) \ {i}
    /\ \A f \in FilesOf(p) \ {i} : rows'[f].marked = rows[f].marked

LEMMA ItemGone ==
    ASSUME DriveVarTypes, NEW p \in Places, NEW i \in FilesOf(p) \cup FoldersOf(p), RowDeleted(i),
           p = Root => \A f \in DOMAIN rows : rows[f].folder # i
    PROVE  Gone(i, p)
<1>1. FilesOf(p) \cap Subfolders = {} /\ FoldersOf(p) \subseteq Subfolders BY RowFields
<1>2. CASE i \in FilesOf(p)
 <2>1. Leaves(i, p) /\ dirs' = dirs BY <1>2, FileLeaves
 <2>2. FoldersOf(p)' = FoldersOf(p) \ {i} BY <1>1, <1>2, <2>1 DEF FoldersOf
 <2> QED BY <2>1, <2>2 DEF Leaves, Gone
<1>3. CASE i \in FoldersOf(p)
 <2>1. p = Root /\ i \in Subfolders BY <1>1, <1>3 DEF FoldersOf
 <2>2. /\ dirs' = dirs \ {i} /\ FilesOf(p)' = FilesOf(p)
       /\ \A f \in FilesOf(p) : rows'[f].marked = rows[f].marked
   BY <2>1, FolderLeaves
 <2>3. FoldersOf(p)' = FoldersOf(p) \ {i} BY <2>1, <2>2 DEF FoldersOf
 <2>4. i \notin FilesOf(p) BY <1>1, <2>1
 <2> QED BY <2>2, <2>3, <2>4 DEF Gone
<1> QED BY <1>2, <1>3

LEMMA ItemDeletedKeeps ==
    ASSUME DriveInv, NEW d \in deletions, NEW i \in d.todo, ItemDeleted(d, i) PROVE DriveInv'
<1>1. DriveVarTypes /\ ServerTypes /\ PageTypes /\ d \in DeletionRecord BY DeletionFacts
<1>2. PICK b \in BOOLEAN : b = d.failed BY <1>1 DEF DeletionRecord
<1>3. PICK ids \in SUBSET d.todo : ids = d.todo \ {i} OBVIOUS
<1>4. PICK e : e = [d EXCEPT !.todo = ids, !.failed = b] OBVIOUS
<1>5. Less(e, d) /\ e.todo = ids /\ (e.asked <=> d.asked) /\ (e.failed <=> b)
 <2>1. IsHandled(e, d, ids, b) BY <1>4 DEF IsHandled
 <2> QED BY <1>1, <2>1, LessIs
<1>6. \/ e.todo = {} /\ deletions' = deletions \ {d}
      \/ deletions' = (deletions \ {d}) \cup {e}
  BY <1>2, <1>3, <1>4, <1>5 DEF ItemDeleted, Handled
<1>7. /\ RowDeleted(i) /\ d.asked
      /\ off' = (off \/ (place = Root /\ \E f \in DOMAIN rows : rows[f].folder = i))
      /\ UNCHANGED <<loadVars, files, folders, chosen, undo, changes, uploadVars, driveActs, spared>>
  BY DEF ItemDeleted
<1>8. ServerTypes' /\ RowsKept(d.todo)
 <2>1. ServerTypes' /\ RowsKept({i}) BY <1>1, <1>7, RowDeletedTypes
 <2> QED BY <2>1 DEF RowsKept
<1>9. files' \in Seq(Copy) /\ folders' \subseteq Subfolders /\ off' \in BOOLEAN BY <1>1, <1>7 DEF PageTypes
<1>10. DriveVarTypes' /\ DeletionsNumbered' /\ SparedFiles'
  BY <1>5, <1>6, <1>7, <1>8, <1>9, GoesOnKeeps
<1>11. ASSUME ~off' PROVE ListsAgree'
 <2>1. ~off /\ (place = Root => \A f \in DOMAIN rows : rows[f].folder # i) BY <1>7, <1>11
 <2>2. /\ placeLoad = "done" /\ changes = {}
       /\ AreRows(files, FilesOf(place) \ Waiting, rows) /\ folders = FoldersOf(place) \ Waiting
       /\ \A g \in deletions : DeletionOK(g) /\ g.todo \subseteq Waiting
   BY <2>1, DeletionFacts
 <2>3. PICK p \in Places : p = place BY <1>1 DEF PageTypes
 <2>4. i \in FilesOf(p) \cup FoldersOf(p) BY <2>2, <2>3 DEF DeletionOK
 <2>5. Gone(i, p) BY <1>1, <1>7, <2>1, <2>3, <2>4, ItemGone
 <2>6. UNCHANGED <<place, placeLoad, files, folders, changes>> BY <1>7 DEF loadVars
 <2>7. FilesOf(place)' = FilesOf(p)' /\ FoldersOf(place)' = FoldersOf(p)'
   BY <2>3, <2>6 DEF FilesOf, Trashed, FoldersOf
 <2>8. Waiting' = Waiting \ {i}
  <3>1. Waiting' = Waiting \ (d.todo \ e.todo) BY <1>5, <1>6, <2>1, WaitingLess
  <3> QED BY <1>3, <1>5, <3>1
 <2>9. i \in Waiting BY <2>2
 <2>10. /\ FilesOf(p)' \ Waiting' = FilesOf(p) \ Waiting
        /\ FoldersOf(p)' \ Waiting' = FoldersOf(p) \ Waiting
   BY <2>5, <2>8, <2>9 DEF Gone
 <2>11. AreRows(files, FilesOf(place) \ Waiting, rows)'
  <3>1. \A f \in FilesOf(p) \ Waiting : rows'[f].marked = rows[f].marked BY <2>5, <2>9 DEF Gone
  <3>2. AreRows(files, FilesOf(p) \ Waiting, rows) BY <2>2, <2>3
  <3>3. AreRows(files, FilesOf(p) \ Waiting, rows') BY <3>1, <3>2, SameRows
  <3>4. FilesOf(place)' \ Waiting' = FilesOf(p) \ Waiting BY <2>7, <2>10
  <3> QED BY <2>6, <3>3, <3>4 DEF AreRows
 <2>12. folders' = FoldersOf(place)' \ Waiting' BY <2>2, <2>3, <2>6, <2>7, <2>10
 <2>13. ASSUME NEW g \in deletions' PROVE DeletionOK(g)'
  <3>1. PICK h \in deletions : (g = h /\ h # d) \/ (g = e /\ h = d) BY <1>6
  <3>2. DeletionOK(h) BY <2>2
  <3>3. /\ g.files = h.files /\ g.folders = h.folders /\ g.todo = h.todo \ {i}
        /\ (g.failed <=> h.failed) /\ (g.asked <=> h.asked)
   <4>1. CASE g = h /\ h # d
    <5>1. h.todo \cap d.todo = {} BY <3>2, <4>1 DEF DeletionOK
    <5> QED BY <4>1, <5>1
   <4>2. CASE g = e /\ h = d BY <1>2, <1>3, <1>5, <4>2 DEF Less
   <4> QED BY <3>1, <4>1, <4>2
  <3>4. g.todo \subseteq FilesOf(place)' \cup FoldersOf(place)'
    BY <2>3, <2>5, <2>7, <3>2, <3>3 DEF DeletionOK, Gone
  <3>5. g.asked \/ h # d BY <1>5, <1>7, <3>1
  <3>6. ~g.asked => IdsOf(g.files) \cup g.folders \subseteq g.todo
   <4>1. CASE h = d BY <3>5, <4>1
   <4>2. CASE h # d BY <3>1, <3>2, <4>2 DEF DeletionOK
   <4> QED BY <4>1, <4>2
  <3>7. ASSUME NEW k \in DOMAIN g.files, g.files[k].id \in g.todo
        PROVE  g.files[k].marked = rows'[g.files[k].id].marked
   <4>1. PICK x : x = g.files[k].id OBVIOUS
   <4>2. x \in h.todo /\ x # i /\ g.files[k].marked = rows[x].marked
     BY <3>2, <3>3, <3>7, <4>1 DEF DeletionOK
   <4>3. h.files \in Seq(Copy) BY DeletionFacts
   <4>4. x \notin Subfolders BY <3>3, <4>1, <4>3, CopyFields
   <4>5. x \in FilesOf(p) BY <1>1, <2>3, <3>2, <4>2, <4>4, RowFields DEF DeletionOK
   <4> QED BY <2>5, <4>1, <4>2, <4>5 DEF Gone
  <3>8. ASSUME NEW u \in deletions', u # g PROVE u.todo \cap g.todo = {}
   <4>1. PICK v \in deletions : (u = v /\ v # d) \/ (u = e /\ v = d) BY <1>6
   <4>2. v # h BY <3>1, <3>8, <4>1
   <4>3. u.todo \subseteq v.todo BY <4>1, <1>3, <1>5
   <4>4. v.todo \cap h.todo = {} BY <3>2, <4>2 DEF DeletionOK
   <4> QED BY <3>3, <4>3, <4>4
  <3>9. ~g.failed /\ g.todo \subseteq IdsOf(g.files) \cup g.folders
        /\ \A k, l \in DOMAIN g.files : g.files[k].id = g.files[l].id => k = l
    BY <3>2, <3>3 DEF DeletionOK
  <3> QED BY <3>4, <3>6, <3>7, <3>8, <3>9 DEF DeletionOK
 <2> QED BY <2>2, <2>6, <2>11, <2>12, <2>13 DEF ListsAgree
<1> QED BY <1>10, <1>11 DEF DriveInv

LEMMA ItemRefusedKeeps ==
    ASSUME DriveInv, NEW d \in deletions, NEW i \in d.todo, ItemRefused(d, i) PROVE DriveInv'
<1>1. DriveVarTypes /\ ServerTypes /\ PageTypes /\ d \in DeletionRecord
      /\ d.files \in Seq(Copy) /\ d.folders \subseteq Subfolders
  BY DeletionFacts
<1>3. PICK ids \in SUBSET d.todo : ids = d.todo \ {i} OBVIOUS
<1>4. PICK e : e = [d EXCEPT !.todo = ids, !.failed = TRUE] OBVIOUS
<1>5. Less(e, d) /\ e.todo = ids
 <2>1. PICK b \in BOOLEAN : b = TRUE OBVIOUS
 <2>2. IsHandled(e, d, ids, b) BY <1>4, <2>1 DEF IsHandled
 <2> QED BY <1>1, <2>2, LessIs
<1>6. deletions' = (deletions \ {d}) \cup (IF d.todo = {i} THEN {} ELSE {e})
  BY <1>3, <1>4 DEF ItemRefused, Handled
<1>7. /\ UNCHANGED serverVars \/ RowDeleted(i)
      /\ off' = (off \/ placeLoad # "done" \/ changes # {} \/ IdsOf(d.files) \cup d.folders # {i}
                     \/ rows' # rows \/ dirs' # dirs)
      /\ UNCHANGED <<loadVars, chosen, changes, uploadVars, driveActs, spared>>
      /\ undo' = undo \/ undo' = NoUndo
      /\ d.failed => files' = files /\ folders' = folders
      /\ ~d.failed => files' = files \o d.files /\ folders' = folders \cup d.folders
  BY DEF ItemRefused
<1>8. ServerTypes' /\ (RowsKept(d.todo) \/ UNCHANGED serverVars)
 <2>1. CASE UNCHANGED serverVars BY <1>1, <2>1 DEF serverVars, ServerTypes
 <2>2. CASE RowDeleted(i)
  <3>1. ServerTypes' /\ RowsKept({i}) BY <1>1, <2>2, RowDeletedTypes
  <3> QED BY <3>1 DEF RowsKept
 <2> QED BY <1>7, <2>1, <2>2
<1>9. files' \in Seq(Copy) /\ folders' \subseteq Subfolders
 <2>1. files \o d.files \in Seq(Copy) BY <1>1, JoinedRows DEF PageTypes
 <2> QED BY <1>1, <1>7, <2>1 DEF PageTypes
<1>10. off' \in BOOLEAN BY <1>1, <1>7 DEF PageTypes
<1>11. deletions' = deletions \ {d} \/ deletions' = (deletions \ {d}) \cup {e} BY <1>6
<1>12. DriveVarTypes' /\ DeletionsNumbered' /\ SparedFiles'
  BY <1>5, <1>7, <1>8, <1>9, <1>10, <1>11, GoesOnKeeps
<1>13. ASSUME ~off' PROVE ListsAgree'
 <2>1. ~off /\ IdsOf(d.files) \cup d.folders = {i} /\ rows' = rows /\ dirs' = dirs BY <1>7, <1>13
 <2>2. DeletionOK(d) BY <2>1, DeletionFacts
 <2>3. d.todo = {i} /\ ~d.failed BY <2>1, <2>2 DEF DeletionOK
 <2>4. deletions' = deletions \ {d} BY <1>6, <2>3
 <2>5. UNCHANGED <<rows, dirs, loadVars, changes>> BY <1>7, <2>1
 <2> QED BY <1>7, <2>1, <2>3, <2>4, <2>5, BroughtBack
<1> QED BY <1>12, <1>13 DEF DriveInv

LEMMA ShownRows ==
    ASSUME DriveInv, Rendered, ~off, changes = {}
    PROVE  /\ AreRows(files, FilesOf(place) \ Waiting, rows) /\ folders = FoldersOf(place) \ Waiting
           /\ \A d \in deletions : DeletionOK(d) /\ d.todo \subseteq Waiting
  BY DeletionFacts DEF Rendered

LEMMA DeleteKeeps ==
    ASSUME DriveInv, NEW ids \in SUBSET Items, Delete(ids), Rendered,
           chosen' = chosen \/ chosen' = {}
    PROVE  DriveInv'
<1>1. DriveVarTypes /\ ServerTypes /\ PageTypes /\ UploadTypes BY DeletionFacts
<1>2. PICK n \in 0 .. MaxDriveActs : n = driveActs' /\ n = driveActs + 1 /\ driveActs \in Nat
  BY <1>1, DriveCounts DEF Delete
<1>3. PICK fs : fs = Only(files, ids) OBVIOUS
<1>4. PICK ds : ds = folders \cap ids OBVIOUS
<1>5. PICK gs : gs = Minus(files, ids) OBVIOUS
<1>6. PICK T : T = IdsOf(fs) \cup ds OBVIOUS
<1>7. PICK d : d = [n |-> n, asked |-> FALSE, failed |-> FALSE, files |-> fs, folders |-> ds, todo |-> T]
  OBVIOUS
<1>8. /\ DriveAct /\ deletions' = deletions \cup {d}
      /\ undo' = [n |-> d.n, files |-> d.files, folders |-> d.folders]
      /\ files' = gs /\ folders' = folders \ ids
      /\ off' = (off \/ changes # {}) /\ spared' = spared \ ids
      /\ UNCHANGED <<serverVars, loadVars, changes, uploadVars>>
  BY <1>2, <1>3, <1>4, <1>5, <1>6, <1>7 DEF Delete, Deletion
<1>9. /\ fs \in Seq(Copy) /\ IdsOf(fs) = IdsOf(files) \cap ids /\ gs \in Seq(Copy)
      /\ \A S, rs : AreRows(files, S, rs) => AreRows(fs, S \cap ids, rs) /\ AreRows(gs, S \ ids, rs)
  BY <1>1, <1>3, <1>5, OnlyRows, MinusRows DEF PageTypes
<1>10. ds \in SUBSET Subfolders /\ T \in SUBSET Items /\ T \subseteq ids /\ n \in Nat
  BY <1>1, <1>2, <1>4, <1>6, <1>9, ConstantsOfDrive DEF PageTypes
<1>11. /\ d \in DeletionRecord /\ d.n = n /\ ~d.asked /\ ~d.failed
       /\ d.files = fs /\ d.folders = ds /\ d.todo = T
  BY <1>7, <1>9, <1>10 DEF DeletionRecord
<1>12. undo' \in UndoRecord /\ undo'.n = n /\ undo'.files = fs /\ undo'.folders = ds
  BY <1>2, <1>8, <1>9, <1>10, <1>11 DEF UndoRecord
<1>13. DriveVarTypes'
 <2>1. IsFiniteSet({}) BY FS_EmptySet
 <2>2. PageTypes' BY <1>1, <1>2, <1>8, <1>9, <1>11, <1>12, <2>1 DEF PageTypes, loadVars
 <2>3. ServerTypes' BY <1>1, <1>8 DEF ServerTypes, serverVars
 <2>4. UploadTypes' BY <1>1, <1>8 DEF UploadTypes, uploadVars
 <2> QED BY <2>2, <2>3, <2>4, TypeParts
<1>14. DeletionsNumbered'
 <2>1. \A e \in deletions : e.n \in 1 .. driveActs /\ e.n # n
   BY <1>2 DEF DriveInv, DeletionsNumbered
 <2>2. \A e, g \in deletions : g.n = e.n => g = e BY DEF DriveInv, DeletionsNumbered
 <2>3. undo'.n <= driveActs' BY <1>2, <1>12
 <2>4. \A e \in deletions' : e \in deletions \/ e = d BY <1>8
 <2>5. ASSUME NEW e \in deletions'
       PROVE  /\ e.n \in 1 .. driveActs'
              /\ e.n = undo'.n => undo'.files = e.files /\ undo'.folders = e.folders
              /\ \A g \in deletions' : g.n = e.n => g = e
  <3>1. CASE e \in deletions BY <1>2, <1>11, <1>12, <2>1, <2>2, <2>4, <3>1
  <3>2. CASE e = d BY <1>2, <1>11, <1>12, <2>1, <2>4, <3>2
  <3> QED BY <2>4, <3>1, <3>2
 <2> QED BY <2>3, <2>5 DEF DeletionsNumbered
<1>15. SparedFiles'
 <2>1. d.todo \cap spared' = {} BY <1>8, <1>10, <1>11
 <2>2. spared' \subseteq spared /\ rows' = rows /\ changes' = changes BY <1>8 DEF serverVars
 <2> QED BY <1>8, <2>1, <2>2 DEF DriveInv, SparedFiles
<1>16. ASSUME ~off' PROVE ListsAgree'
 <2>1. ~off /\ changes = {} /\ changes' = {} /\ placeLoad' = "done"
   BY <1>8, <1>16 DEF Rendered, loadVars
 <2>2. PICK F, D, W : F = FilesOf(place) /\ D = FoldersOf(place) /\ W = Waiting OBVIOUS
 <2>3. /\ AreRows(files, F \ W, rows) /\ folders = D \ W
       /\ \A e \in deletions : DeletionOK(e) /\ e.todo \subseteq W
   BY <2>1, <2>2, ShownRows
 <2>4. F \cap Subfolders = {} /\ D \subseteq Subfolders BY <1>1, <2>2, RowFields
 <2>5. IdsOf(fs) = (F \ W) \cap ids /\ ds = (D \ W) \cap ids BY <1>4, <1>9, <2>3 DEF AreRows
 <2>6. Waiting' = W \cup T
  <3>1. ASSUME NEW x PROVE x \in Waiting' <=> x \in W \cup T BY <1>8, <1>11, <2>2 DEF Waiting
  <3> QED BY <3>1
 <2>7. (F \ W) \ ids = F \ (W \cup T) /\ (D \ W) \ ids = D \ (W \cup T) BY <1>6, <2>4, <2>5
 <2>8. UNCHANGED <<rows, dirs, place>> BY <1>8 DEF serverVars, loadVars
 <2>9. FilesOf(place)' = F /\ FoldersOf(place)' = D BY <2>2, <2>8, SamePlace
 <2>10. AreRows(files, FilesOf(place) \ Waiting, rows)'
  <3>1. AreRows(gs, (F \ W) \ ids, rows) BY <1>9, <2>3
  <3>2. AreRows(gs, F \ (W \cup T), rows) BY <2>7, <3>1
  <3> QED BY <1>8, <2>6, <2>8, <2>9, <3>2 DEF AreRows
 <2>11. folders' = FoldersOf(place)' \ Waiting' BY <1>8, <2>3, <2>6, <2>7, <2>9
 <2>12. T \cap W = {} /\ T \subseteq F \cup D BY <1>6, <2>5
 <2>13. DeletionOK(d)'
  <3>1. AreRows(fs, (F \ W) \cap ids, rows) BY <1>9, <2>3
  <3>2. \A e \in deletions' : e # d => e.todo \cap d.todo = {} BY <1>8, <1>11, <2>3, <2>12
  <3>3. d.todo \subseteq FilesOf(place)' \cup FoldersOf(place)' BY <1>11, <2>9, <2>12
  <3>4. d.todo = IdsOf(d.files) \cup d.folders BY <1>6, <1>11
  <3>5. /\ \A k, l \in DOMAIN d.files : d.files[k].id = d.files[l].id => k = l
        /\ \A k \in DOMAIN d.files : d.files[k].marked = rows'[d.files[k].id].marked
    BY <1>11, <2>8, <3>1 DEF AreRows
  <3> QED BY <1>11, <3>2, <3>3, <3>4, <3>5 DEF DeletionOK
 <2>14. ASSUME NEW e \in deletions PROVE DeletionOK(e)'
  <3>1. DeletionOK(e) /\ e.todo \subseteq W BY <2>3
  <3>2. \A g \in deletions' : g # e => g.todo \cap e.todo = {}
    BY <1>8, <1>11, <2>12, <3>1 DEF DeletionOK
  <3> QED BY <2>2, <2>8, <2>9, <3>1, <3>2 DEF DeletionOK
 <2>15. \A e \in deletions' : DeletionOK(e)' BY <1>8, <2>13, <2>14
 <2> QED BY <2>1, <2>10, <2>11, <2>15 DEF ListsAgree
<1> QED BY <1>13, <1>14, <1>15, <1>16 DEF DriveInv

LEMMA UndoKeeps == ASSUME DriveInv, Undo PROVE DriveInv'
<1>1. DriveVarTypes /\ ServerTypes /\ PageTypes /\ UploadTypes BY DeletionFacts
<1>2. PICK inTime : inTime = {d \in deletions : d.n = undo.n /\ ~d.asked} OBVIOUS
<1>3. PICK others :
         others = UNION ({d.todo : d \in deletions \ inTime} \cup {c.todo : c \in changes})
  OBVIOUS
<1>4. PICK back : back = UNION {{f \in d.todo \ others : f \in DOMAIN rows /\ ~rows[f].trashed} : d \in inTime}
  OBVIOUS
<1>5. /\ DriveAct /\ deletions' = deletions \ inTime
      /\ files' = files \o undo.files /\ folders' = folders \cup undo.folders
      /\ spared' = spared \cup back
      /\ off' = (off \/ inTime = {} \/ placeLoad # "done" \/ changes # {})
      /\ UNCHANGED <<serverVars, loadVars, chosen, undo, changes, uploadVars>>
  BY <1>2, <1>3, <1>4 DEF Undo
<1>6. /\ driveActs' = driveActs + 1 /\ driveActs \in Nat /\ driveActs' \in 0 .. MaxDriveActs
  BY <1>1, <1>5, DriveCounts
<1>7. \A f \in back : f \notin others /\ f \in DOMAIN rows /\ ~rows[f].trashed BY <1>4
<1>8. undo.files \in Seq(Copy) /\ undo.folders \subseteq Subfolders BY <1>1 DEF PageTypes, UndoRecord
<1>9. DriveVarTypes'
 <2>1. files \o undo.files \in Seq(Copy) BY <1>1, <1>8, JoinedRows DEF PageTypes
 <2>2. back \subseteq FileIds BY <1>1, <1>7 DEF ServerTypes
 <2>3. PageTypes' BY <1>1, <1>5, <1>6, <1>8, <2>1, <2>2 DEF PageTypes, loadVars
 <2>4. ServerTypes' BY <1>1, <1>5 DEF ServerTypes, serverVars
 <2>5. UploadTypes' BY <1>1, <1>5 DEF UploadTypes, uploadVars
 <2> QED BY <2>3, <2>4, <2>5, TypeParts
<1>10. DeletionsNumbered' BY <1>1, <1>5, <1>6 DEF DriveInv, DeletionsNumbered, PageTypes, UndoRecord
<1>11. SparedFiles'
 <2>1. rows' = rows /\ changes' = changes BY <1>5 DEF serverVars
 <2>2. \A f \in spared' : f \in DOMAIN rows' /\ ~rows'[f].trashed
   BY <1>5, <1>7, <2>1 DEF DriveInv, SparedFiles
 <2>3. \A d \in deletions' : d.todo \cap spared' = {}
  <3>1. \A d \in deletions' : d \in deletions /\ d.todo \subseteq others BY <1>3, <1>5
  <3> QED BY <1>5, <1>7, <3>1 DEF DriveInv, SparedFiles
 <2>4. \A c \in changes' : /\ c.kind = "delete" => c.todo \cap spared' = {}
                           /\ c.kind \in {"rmdir", "mkdir"} => c.todo \subseteq Subfolders
  <3>1. \A c \in changes : c.todo \subseteq others BY <1>3
  <3> QED BY <1>5, <1>7, <2>1, <3>1 DEF DriveInv, SparedFiles
 <2> QED BY <2>2, <2>3, <2>4 DEF SparedFiles
<1>12. ASSUME ~off' PROVE ListsAgree'
 <2>1. ~off /\ inTime # {} /\ placeLoad = "done" /\ changes = {} BY <1>5, <1>12
 <2>2. PICK d \in deletions : d \in inTime /\ d.n = undo.n /\ ~d.asked BY <1>2, <2>1
 <2>3. inTime = {d} /\ undo.files = d.files /\ undo.folders = d.folders
   BY <1>2, <2>2 DEF DriveInv, DeletionsNumbered
 <2>4. DeletionOK(d) BY <2>1, DeletionFacts
 <2>5. IdsOf(d.files) \cup d.folders = d.todo BY <2>2, <2>4 DEF DeletionOK
 <2>6. UNCHANGED <<rows, dirs, loadVars, changes>> BY <1>5 DEF serverVars
 <2>7. deletions' = deletions \ {d} /\ files' = files \o d.files /\ folders' = folders \cup d.folders
   BY <1>5, <2>3
 <2> QED BY <2>1, <2>5, <2>6, <2>7, BroughtBack
<1> QED BY <1>9, <1>10, <1>11, <1>12 DEF DriveInv

-------------------------------------------------------------------------------
(* Loads, selections and uploads. *)

LEMMA ListsUntouched ==
    ASSUME ListsAgree,
           UNCHANGED <<rows, dirs, place, placeLoad, placeAnswer, files, folders, deletions, changes>>
    PROVE  ListsAgree'
<1>1. /\ FilesOf(place)' = FilesOf(place) /\ FoldersOf(place)' = FoldersOf(place)
      /\ \A fs, ds : Agreed(fs, ds) => Agreed(fs, ds)'
  BY SamePlace
<1>2. Waiting' = Waiting BY DEF Waiting
<1>3. \A d : DeletionOK(d) => DeletionOK(d)' BY <1>1 DEF DeletionOK
<1>4. \A c : ChangeOK(c) => ChangeOK(c)'
 <2>1. \A f, b : Marked(f, b)' = Marked(f, b) BY DEF Marked
 <2>2. \A c : ChangeWaits(c) => ChangeWaits(c)' BY <1>1, <2>1 DEF ChangeWaits, AreRows
 <2>3. \A c : SetFiles(c)' = SetFiles(c) /\ SetFolders(c)' = SetFolders(c)
   BY DEF SetFiles, SetFolders
 <2>4. Agreed(files, folders) => Agreed(files, folders)' BY <1>1 DEF Agreed, AreRows
 <2>5. ASSUME NEW c, Agreed(SetFiles(c), SetFolders(c)) PROVE Agreed(SetFiles(c), SetFolders(c))'
   BY <1>1, <2>3, <2>5 DEF Agreed, AreRows
 <2> QED BY <2>2, <2>4, <2>5 DEF ChangeOK
<1>5. AreRows(files, FilesOf(place) \ Waiting, rows) => AreRows(files, FilesOf(place) \ Waiting, rows)'
  BY <1>1, <1>2 DEF AreRows
<1>6. Agreed(placeAnswer.files, placeAnswer.folders) => Agreed(placeAnswer.files, placeAnswer.folders)'
  BY <1>1 DEF Agreed, AreRows
<1> QED BY <1>1, <1>2, <1>3, <1>4, <1>5, <1>6 DEF ListsAgree

\* A step that leaves what is under way alone keeps its numbers and the files spared.
LEMMA OthersKept ==
    ASSUME DriveInv, DriveVarTypes', deletions' = deletions \/ deletions' = {},
           changes' = changes \/ changes' = {}, spared' = spared,
           undo' = undo \/ undo' = NoUndo, driveActs' = driveActs \/ DriveAct,
           RowsKept({})
    PROVE  DeletionsNumbered' /\ SparedFiles'
<1>1. PageTypes BY PageTypesNow
<1>2. driveActs \in Nat /\ driveActs <= driveActs' /\ driveActs' \in Nat
  BY <1>1, DriveCounts, ConstantsOfDrive DEF PageTypes
<1>3. NoUndo.n = 0 /\ undo.n \in Nat BY <1>1, EmptyLists DEF PageTypes, UndoRecord
<1>4. DeletionsNumbered'
 <2>1. undo'.n <= driveActs' BY <1>2, <1>3 DEF DriveInv, DeletionsNumbered
 <2>2. ASSUME NEW d \in deletions'
       PROVE  /\ d.n \in 1 .. driveActs'
              /\ d.n = undo'.n => undo'.files = d.files /\ undo'.folders = d.folders
              /\ \A e \in deletions' : e.n = d.n => e = d
   BY <1>2, <1>3 DEF DriveInv, DeletionsNumbered
 <2> QED BY <2>1, <2>2 DEF DeletionsNumbered
<1>5. SparedFiles' BY DEF DriveInv, SparedFiles, RowsKept
<1> QED BY <1>4, <1>5

LEMMA LoadKeeps == ASSUME DriveInv, LoadStep PROVE DriveInv'
<1>1. DriveVarTypes /\ ServerTypes /\ PageTypes BY DeletionFacts
<1>2. DriveVarTypes' BY <1>1, LoadTypesKept
<1>3. DeletionsNumbered' /\ SparedFiles'
 <2>1. /\ deletions' = deletions \/ deletions' = {}
       /\ changes' = changes \/ changes' = {}
       /\ spared' = spared
       /\ undo' = undo \/ undo' = NoUndo
       /\ driveActs' = driveActs \/ DriveAct
       /\ UNCHANGED serverVars
   BY DEF LoadStep, Navigate, PlaceServed, PlaceAnswered, PlaceFails, ReloadPage
 <2>2. RowsKept({}) BY <2>1 DEF RowsKept, serverVars
 <2> QED BY <1>2, <2>1, <2>2, OthersKept
<1>4. ASSUME ~off' PROVE ListsAgree'
 <2>1. CASE \E p \in Places : Navigate(p)
  <3>1. PICK p \in Places : Navigate(p) BY <2>1
  <3>2. CASE p = place
   <4>1. ~off BY <1>4, <3>1, <3>2 DEF Navigate
   <4>2. ListsAgree BY <4>1 DEF DriveInv
   <4>3. UNCHANGED <<rows, dirs, place, placeLoad, placeAnswer, files, folders, deletions, changes>>
     BY <3>1, <3>2 DEF Navigate, serverVars
   <4> QED BY <4>2, <4>3, ListsUntouched
  <3>3. CASE p # place
   <4>1. deletions' = {} /\ changes' = {} /\ placeLoad' = "asked"
     BY <1>4, <3>1, <3>3 DEF Navigate, ChangesPending
   <4> QED BY <4>1 DEF ListsAgree
  <3> QED BY <3>2, <3>3
 <2>2. CASE PlaceServed
  <3>1. /\ changes' = {} /\ deletions' = {} /\ placeLoad' = "served" /\ place' = place
        /\ placeAnswer' = Contents(place) /\ UNCHANGED <<rows, dirs>>
    BY <1>4, <2>2 DEF PlaceServed, ChangesPending, serverVars
  <3>2. PICK fs, ds : fs = Contents(place).files /\ ds = Contents(place).folders OBVIOUS
  <3>3. Agreed(fs, ds)
   <4>1. AreRows(Contents(place).files, FilesOf(place), rows) /\ Contents(place).folders = FoldersOf(place)
     BY <1>1, ContentsAgree
   <4> QED BY <3>2, <4>1 DEF Agreed
  <3>4. Agreed(fs, ds)' BY <3>1, <3>3, SamePlace
  <3>5. Agreed(placeAnswer.files, placeAnswer.folders)' BY <3>1, <3>2, <3>4 DEF Agreed, AreRows
  <3> QED BY <3>1, <3>5 DEF ListsAgree
 <2>3. CASE PlaceAnswered
  <3>1. ~off /\ placeLoad = "served" BY <1>4, <2>3 DEF PlaceAnswered
  <3>2. changes = {} /\ deletions = {} /\ Agreed(placeAnswer.files, placeAnswer.folders)
    BY <3>1 DEF DriveInv, ListsAgree
  <3>3. /\ changes' = {} /\ deletions' = {} /\ placeLoad' = "done" /\ UNCHANGED <<rows, dirs, place>>
        /\ files' = placeAnswer.files /\ folders' = placeAnswer.folders
    BY <2>3, <3>2 DEF PlaceAnswered, serverVars
  <3>4. PICK fs, ds : fs = placeAnswer.files /\ ds = placeAnswer.folders OBVIOUS
  <3>5. Agreed(fs, ds)' BY <3>2, <3>3, <3>4, SamePlace
  <3>6. Agreed(files, folders)' BY <3>3, <3>4, <3>5 DEF Agreed, AreRows
  <3> QED BY <3>3, <3>6, SettledLists
 <2>4. CASE PlaceFails BY <1>4, <2>4 DEF PlaceFails
 <2>5. CASE ReloadPage BY <2>5 DEF ReloadPage, ListsAgree
 <2> QED BY <2>1, <2>2, <2>3, <2>4, <2>5 DEF LoadStep
<1> QED BY <1>2, <1>3, <1>4 DEF DriveInv

LEMMA ChoiceKeeps ==
    ASSUME DriveInv, NEW i \in Items, ToggleSelected(i) \/ ClearSelection PROVE DriveInv'
<1>1. DriveVarTypes /\ ServerTypes /\ PageTypes /\ UploadTypes BY DeletionFacts
<1>2. /\ DriveAct
      /\ UNCHANGED <<serverVars, loadVars, files, folders, deletions, undo, changes, uploadVars, off, spared>>
      /\ chosen' = {} \/ chosen' = chosen \ {i} \/ chosen' = chosen \cup {i}
  BY DEF ToggleSelected, ClearSelection
<1>3. chosen' \subseteq Items /\ IsFiniteSet(chosen')
 <2>1. IsFiniteSet({}) /\ IsFiniteSet(chosen \ {i}) /\ IsFiniteSet(chosen \cup {i})
  <3>1. IsFiniteSet(chosen) /\ chosen \ {i} \subseteq chosen BY <1>1 DEF PageTypes
  <3> QED BY <3>1, FS_EmptySet, FS_AddElement, FS_Subset
 <2> QED BY <1>1, <1>2, <2>1 DEF PageTypes
<1>4. DriveVarTypes'
 <2>1. PageTypes' BY <1>1, <1>2, <1>3, DriveCounts DEF PageTypes, loadVars
 <2>2. ServerTypes' BY <1>1, <1>2 DEF ServerTypes, serverVars
 <2>3. UploadTypes' BY <1>1, <1>2 DEF UploadTypes, uploadVars
 <2> QED BY <2>1, <2>2, <2>3, TypeParts
<1>5. DeletionsNumbered' /\ SparedFiles'
 <2>1. RowsKept({}) BY <1>2 DEF RowsKept, serverVars
 <2> QED BY <1>2, <1>4, <2>1, OthersKept
<1>6. ASSUME ~off' PROVE ListsAgree'
 <2>1. ListsAgree BY <1>2, <1>6 DEF DriveInv
 <2>2. UNCHANGED <<rows, dirs, place, placeLoad, placeAnswer, files, folders, deletions, changes>>
   BY <1>2 DEF serverVars, loadVars
 <2> QED BY <2>1, <2>2, ListsUntouched
<1> QED BY <1>4, <1>5, <1>6 DEF DriveInv

LEMMA UploadKeeps == ASSUME DriveInv, UploadStep PROVE DriveInv'
<1>1. DriveVarTypes /\ ServerTypes /\ PageTypes /\ UploadTypes BY DeletionFacts
<1>2. DriveVarTypes' BY <1>1, UploadTypesKept
<1>3. /\ UNCHANGED <<place, placeLoad, placeAnswer, files, folders, chosen, deletions, changes,
                     spared, dirs>>
      /\ undo' = undo \/ undo' = NoUndo
      /\ driveActs' = driveActs \/ DriveAct
      /\ off' = off \/ off' = TRUE
      /\ UNCHANGED serverVars \/ (\E u \in uploads : FileUploaded(u))
  BY UploadKeepsPage
<1>4. DeletionsNumbered' /\ SparedFiles'
 <2>1. RowsKept({})
  <3>1. CASE UNCHANGED serverVars BY <3>1 DEF RowsKept, serverVars
  <3>2. CASE \E u \in uploads : FileUploaded(u) BY <1>1, <3>2, UploadedRow DEF RowsKept
  <3> QED BY <1>3, <3>1, <3>2
 <2> QED BY <1>2, <1>3, <2>1, OthersKept
<1>5. ASSUME ~off' PROVE ListsAgree'
 <2>1. ~off BY <1>3, <1>5
 <2>2. ListsAgree BY <2>1 DEF DriveInv
 <2>3. UNCHANGED serverVars
  <3>1. ~\E u \in uploads : FileUploaded(u) BY <1>1, <1>5, UploadedRow
  <3> QED BY <1>3, <3>1
 <2>4. UNCHANGED <<rows, dirs, place, placeLoad, placeAnswer, files, folders, deletions, changes>>
   BY <1>3, <2>3 DEF serverVars
 <2> QED BY <2>2, <2>4, ListsUntouched
<1> QED BY <1>2, <1>4, <1>5 DEF DriveInv

-------------------------------------------------------------------------------
(* The invariant. *)

LEMMA DriveInitOK == DriveInit => DriveInv
<1> SUFFICES ASSUME DriveInit PROVE DriveInv OBVIOUS
<1>1. DriveVarTypes BY DriveTypesInit
<1>2. DeletionsNumbered BY EmptyLists DEF DriveInit, DeletionsNumbered
<1>3. SparedFiles BY DEF DriveInit, SparedFiles
<1>4. ListsAgree BY DEF DriveInit, ListsAgree
<1> QED BY <1>1, <1>2, <1>3, <1>4 DEF DriveInv

ChangeStep ==
    \/ EmptyTrash \/ DeleteKey
    \/ \E f \in FileIds \cup SampleFiles :
          \/ Mark(f) \/ Restore(f)
          \/ \E p \in Folders : MoveFile(f, p) \/ DropOnFolder(f, p)
    \/ \E p \in Folders : BulkMove(p)
    \/ \E i \in Subfolders : RenameFolder(i) \/ DeleteFolder(i) \/ CreateFolder(i)

DeletionStep ==
    \/ BulkDelete \/ Undo
    \/ \E f \in FileIds \cup SampleFiles : DeleteFile(f)
    \/ \E d \in deletions :
          \/ DeletionStarts(d)
          \/ \E i \in d.todo : ItemDeleted(d, i) \/ ItemRefused(d, i)

LEMMA ChangeStepKeeps == ASSUME DriveInv, ChangeStep PROVE DriveInv'
<1>1. SUFFICES \E c : Started(c) BY StartedKeeps
<1>2. CASE EmptyTrash
 <2>1. PageTypes BY PageTypesNow
 <2>2. files # <<>> /\ files \in Seq(Copy) BY <1>2, <2>1 DEF EmptyTrash, PageTypes
 <2>3. \E f : f \in FileIds \cup SampleFiles
  <3>1. 1 \in DOMAIN files BY <2>2
  <3> QED BY <2>2, <3>1, CopyFields
 <2> QED BY <1>2, <2>3, TrashStarts
<1>3. CASE DeleteKey BY <1>3, DeleteKeyStarts
<1>4. CASE \E f \in FileIds \cup SampleFiles : Mark(f) BY <1>4, MarkStarts
<1>5. CASE \E f \in FileIds \cup SampleFiles : Restore(f) BY <1>5, TrashStarts
<1>6. CASE \E f \in FileIds \cup SampleFiles : \E p \in Folders : MoveFile(f, p) \/ DropOnFolder(f, p)
  BY <1>6, MovesStart
<1>7. CASE \E p \in Folders : BulkMove(p)
 <2>1. PICK p \in Folders : BulkMove(p) BY <1>7
 <2>2. \E f : f \in FileIds \cup SampleFiles
  <3>1. PageTypes BY PageTypesNow
  <3>2. \E k \in DOMAIN files : TRUE BY <2>1 DEF BulkMove, IdsOf
  <3> QED BY <3>1, <3>2, CopyFields DEF PageTypes
 <2> QED BY <2>1, <2>2, MovesStart
<1>8. CASE \E i \in Subfolders : RenameFolder(i) \/ DeleteFolder(i) \/ CreateFolder(i)
  BY <1>8, FolderStarts
<1> QED BY <1>2, <1>3, <1>4, <1>5, <1>6, <1>7, <1>8 DEF ChangeStep

LEMMA DeletionStepKeeps == ASSUME DriveInv, DeletionStep PROVE DriveInv'
<1>1. PageTypes BY PageTypesNow
<1>2. CASE BulkDelete
 <2>1. PICK ids \in SUBSET Items : ids = chosen BY <1>1 DEF PageTypes
 <2>2. Delete(ids) /\ Rendered /\ chosen' = {} BY <1>2, <2>1 DEF BulkDelete, BarShown
 <2> QED BY <2>2, DeleteKeeps
<1>3. CASE Undo BY <1>3, UndoKeeps
<1>4. CASE \E f \in FileIds \cup SampleFiles : DeleteFile(f)
 <2>1. PICK f \in FileIds \cup SampleFiles : DeleteFile(f) BY <1>4
 <2>2. {f} \in SUBSET Items BY ConstantsOfDrive
 <2>3. Delete({f}) /\ Rendered /\ chosen' = chosen BY <2>1 DEF DeleteFile, FileMenu, FileShown
 <2> QED BY <2>2, <2>3, DeleteKeeps
<1>5. CASE \E d \in deletions : DeletionStarts(d) BY <1>5, TimerKeeps
<1>6. CASE \E d \in deletions : \E i \in d.todo : ItemDeleted(d, i) \/ ItemRefused(d, i)
  BY <1>6, ItemDeletedKeeps, ItemRefusedKeeps
<1> QED BY <1>2, <1>3, <1>4, <1>5, <1>6 DEF DeletionStep

LEMMA DriveNextOK == DriveInv /\ [DriveNext]_driveVars => DriveInv'
<1> SUFFICES ASSUME DriveInv, [DriveNext]_driveVars PROVE DriveInv' OBVIOUS
<1>1. CASE LoadStep BY <1>1, LoadKeeps
<1>2. CASE ChangeStep BY <1>2, ChangeStepKeeps
<1>3. CASE DeletionStep BY <1>3, DeletionStepKeeps
<1>4. CASE UploadStep BY <1>4, UploadKeeps
<1>5. CASE (\E i \in Items : ToggleSelected(i)) \/ ClearSelection
 <2>1. CASE \E i \in Items : ToggleSelected(i) BY <2>1, ChoiceKeeps
 <2>2. CASE ClearSelection
  <3>1. PageTypes BY PageTypesNow
  <3>2. \E i : i \in Items BY <2>2, <3>1 DEF ClearSelection, PageTypes
  <3> QED BY <2>2, <3>2, ChoiceKeeps
 <2> QED BY <1>5, <2>1, <2>2
<1>6. CASE \E c \in changes : ChangeDone(c) \/ \E i \in c.todo : Taken(c, i) \/ Refused(c, i)
  BY <1>6, ChangeDoneKeeps, TakenKeeps, RefusedKeeps
<1>7. CASE UNCHANGED driveVars
 <2>1. UNCHANGED <<serverVars, loadVars, uploadVars, files, folders, chosen, deletions, undo, changes,
                   driveActs, off, spared>>
   BY <1>7 DEF driveVars, serverVars, loadVars, uploadVars
 <2>2. DriveVarTypes /\ ServerTypes /\ PageTypes /\ UploadTypes BY DeletionFacts
 <2>3. PageTypes' BY <2>1, <2>2 DEF PageTypes, loadVars
 <2>4. ServerTypes' BY <2>1, <2>2 DEF ServerTypes, serverVars
 <2>5. UploadTypes' BY <2>1, <2>2 DEF UploadTypes, uploadVars
 <2>6. DriveVarTypes' BY <2>3, <2>4, <2>5, TypeParts
 <2>7. RowsKept({}) BY <2>1 DEF RowsKept, serverVars
 <2>8. DeletionsNumbered' /\ SparedFiles' BY <2>1, <2>6, <2>7, OthersKept
 <2>9. UNCHANGED <<rows, dirs, place, placeLoad, placeAnswer, files, folders, deletions, changes>>
   BY <2>1 DEF serverVars, loadVars
 <2>10. ASSUME ~off' PROVE ListsAgree'
  <3>1. ListsAgree BY <2>1, <2>10 DEF DriveInv
  <3> QED BY <2>9, <3>1, ListsUntouched
 <2> QED BY <2>6, <2>8, <2>10 DEF DriveInv
<1>8. DriveNext => \/ LoadStep \/ ChangeStep \/ DeletionStep \/ UploadStep
                   \/ (\E i \in Items : ToggleSelected(i)) \/ ClearSelection
                   \/ \E c \in changes : ChangeDone(c) \/ \E i \in c.todo : Taken(c, i) \/ Refused(c, i)
  BY DEF DriveNext, LoadStep, ChangeStep, DeletionStep, UploadStep
<1> QED BY <1>1, <1>2, <1>3, <1>4, <1>5, <1>6, <1>7, <1>8

LEMMA InvSettlesDrive == DriveInv => FolderSettles /\ UndoneIsKept
<1> SUFFICES ASSUME DriveInv PROVE FolderSettles /\ UndoneIsKept OBVIOUS
<1>1. UndoneIsKept BY DEF DriveInv, SparedFiles, UndoneIsKept
<1>2. ASSUME placeLoad = "done", ~ChangesPending, ~off
      PROVE  /\ Len(files) = Cardinality(IdsOf(files))
             /\ IdsOf(files) = FilesOf(place)
             /\ \A i \in DOMAIN files : files[i].marked = rows[files[i].id].marked
             /\ folders = Contents(place).folders
 <2>1. Agreed(files, folders) BY <1>2, AgreedNow DEF DriveInv, ChangesPending
 <2>2. AreRows(files, FilesOf(place), rows) /\ folders = FoldersOf(place) BY <2>1 DEF Agreed
 <2>3. files \in Seq(Copy) BY PageTypesNow DEF PageTypes
 <2>4. Len(files) = Cardinality(IdsOf(files)) BY <2>2, <2>3, RowsCounted
 <2>5. Contents(place).folders = FoldersOf(place) BY DEF Contents, FoldersOf
 <2> QED BY <2>2, <2>4, <2>5 DEF AreRows
<1> QED BY <1>1, <1>2 DEF FolderSettles
-------------------------------------------------------------------------------
(* VI. The applications side by side. *)

\* What the applications may do in a step, each by itself.
EachStep ==
    /\ [ViewsNext]_viewVars
    /\ [CalendarNext]_calVars
    /\ [ContactsNext]_conVars
    /\ [DriveNext]_driveVars
    /\ [AccountsNext]_accountVars
    /\ [ConsoleNext]_consoleVars
    /\ [LookupsNext]_lookVars
    /\ [ExportNext]_exportVars
    /\ [OverlaysNext]_overlayVars
    /\ [WidgetsNext]_widgetVars
    /\ [KeyRingNext]_ringVars
    /\ [FormsNext]_formVars
    /\ [DomainsNext]_domainVars
    /\ [ReaderNext]_readerVars

EachInit ==
    /\ ViewsInit /\ CalendarInit /\ ContactsInit /\ DriveInit
    /\ AccountsInit /\ ConsoleInit /\ LookupsInit /\ ExportInit
    /\ OverlaysInit /\ WidgetsInit /\ KeyRingInit /\ FormsInit
    /\ DomainsInit /\ ReaderInit

\* What one of the modules does leaves the variables of the others alone: a step is
\* one of theirs, or none, for each of them.
LEMMA StepsAreTheirOwn == [Next]_vars => EachStep
<1> SUFFICES ASSUME [Next]_vars PROVE EachStep OBVIOUS
<1>s. ASSUME UNCHANGED vars
      PROVE  UNCHANGED <<viewVars, calVars, conVars, driveVars, accountVars, consoleVars, lookVars, exportVars,
                         overlayVars, widgetVars, ringVars, formVars, domainVars, readerVars>>
  BY <1>s DEF vars, unmountedVars
<1>1. CASE /\ app = "views" /\ ViewsNext
           /\ UNCHANGED <<calVars, conVars, driveVars, accountVars, consoleVars, lookVars,
                          exportVars, overlayVars, widgetVars, ringVars, formVars, unmountedVars>>
  BY <1>1 DEF EachStep, unmountedVars
<1>2. CASE /\ app = "calendar" /\ CalendarNext
           /\ UNCHANGED <<viewVars, conVars, driveVars, accountVars, consoleVars, lookVars,
                          exportVars, overlayVars, widgetVars, ringVars, formVars, unmountedVars>>
  BY <1>2 DEF EachStep, unmountedVars
<1>3. CASE /\ app = "contacts" /\ ContactsNext
           /\ UNCHANGED <<viewVars, calVars, driveVars, accountVars, consoleVars, lookVars,
                          exportVars, overlayVars, widgetVars, ringVars, formVars, unmountedVars>>
  BY <1>3 DEF EachStep, unmountedVars
<1>4. CASE /\ app = "drive" /\ DriveNext
           /\ UNCHANGED <<viewVars, calVars, conVars, accountVars, consoleVars, lookVars,
                          exportVars, overlayVars, widgetVars, ringVars, formVars, unmountedVars>>
  BY <1>4 DEF EachStep, unmountedVars
<1>5. CASE /\ app = "accounts" /\ AccountsNext
           /\ UNCHANGED <<viewVars, calVars, conVars, driveVars, consoleVars, lookVars,
                          exportVars, overlayVars, widgetVars, ringVars, formVars, unmountedVars>>
  BY <1>5 DEF EachStep, unmountedVars
<1>6. CASE /\ app = "console" /\ ConsoleNext
           /\ UNCHANGED <<viewVars, calVars, conVars, driveVars, accountVars, lookVars,
                          exportVars, overlayVars, widgetVars, ringVars, formVars, unmountedVars>>
  BY <1>6 DEF EachStep, unmountedVars
<1>7. CASE /\ app = "lookups" /\ LookupsNext
           /\ UNCHANGED <<viewVars, calVars, conVars, driveVars, accountVars, consoleVars,
                          exportVars, overlayVars, widgetVars, ringVars, formVars, unmountedVars>>
  BY <1>7 DEF EachStep, unmountedVars
<1>8. CASE /\ app = "export" /\ ExportNext
           /\ UNCHANGED <<viewVars, calVars, conVars, driveVars, accountVars, consoleVars,
                          lookVars, overlayVars, widgetVars, ringVars, formVars, unmountedVars>>
  BY <1>8 DEF EachStep, unmountedVars
<1>9. CASE /\ app = "overlays" /\ OverlaysNext
           /\ UNCHANGED <<viewVars, calVars, conVars, driveVars, accountVars, consoleVars,
                          lookVars, exportVars, widgetVars, ringVars, formVars, unmountedVars>>
  BY <1>9 DEF EachStep, unmountedVars
<1>10. CASE /\ app = "widgets" /\ WidgetsNext
           /\ UNCHANGED <<viewVars, calVars, conVars, driveVars, accountVars, consoleVars,
                          lookVars, exportVars, overlayVars, ringVars, formVars, unmountedVars>>
  BY <1>10 DEF EachStep, unmountedVars
<1>11. CASE /\ app = "keys" /\ KeyRingNext
           /\ UNCHANGED <<viewVars, calVars, conVars, driveVars, accountVars, consoleVars,
                          lookVars, exportVars, overlayVars, widgetVars, formVars, unmountedVars>>
  BY <1>11 DEF EachStep, unmountedVars
<1>12. CASE /\ app = "forms" /\ FormsNext
           /\ UNCHANGED <<viewVars, calVars, conVars, driveVars, accountVars, consoleVars,
                          lookVars, exportVars, overlayVars, widgetVars, ringVars, unmountedVars>>
  BY <1>12 DEF EachStep, unmountedVars
<1>13. CASE /\ app = "domains" /\ DomainsNext
           /\ UNCHANGED <<viewVars, calVars, conVars, driveVars, accountVars, consoleVars,
                          lookVars, exportVars, overlayVars, widgetVars, ringVars, formVars, readerVars>>
  BY <1>13 DEF EachStep
<1>14. CASE /\ app = "reader" /\ ReaderNext
           /\ UNCHANGED <<viewVars, calVars, conVars, driveVars, accountVars, consoleVars,
                          lookVars, exportVars, overlayVars, widgetVars, ringVars, formVars, domainVars>>
  BY <1>14 DEF EachStep
<1>15. CASE UNCHANGED vars BY <1>s, <1>15 DEF EachStep
<1> QED
  BY <1>1, <1>2, <1>3, <1>4, <1>5, <1>6, <1>7, <1>8, <1>9, <1>10, <1>11, <1>12, <1>13, <1>14, <1>15 DEF Next

LEMMA InitOfEach == Init => EachInit
  BY DEF Init, EachInit

\* The invariants hold in every behaviour, whatever the other modules do in it.
LEMMA KeyRingAlways == Spec => []KeyRingInv
<1>1. EachInit => KeyRingInv BY KeyRingInitOK DEF EachInit
<1>2. KeyRingInv /\ EachStep => KeyRingInv' BY KeyRingNextOK DEF EachStep
<1> QED BY <1>1, <1>2, InitOfEach, StepsAreTheirOwn, PTL DEF Spec

LEMMA AccountsAlways == Spec => []AccountsInv
<1>1. EachInit => AccountsInv BY AccountsInitOK DEF EachInit
<1>2. AccountsInv /\ EachStep => AccountsInv' BY AccountsNextOK DEF EachStep
<1> QED BY <1>1, <1>2, InitOfEach, StepsAreTheirOwn, PTL DEF Spec

LEMMA ContactsAlways == Spec => [](ContactsInv /\ OrphansOK)
<1>1. EachInit => ContactsInv /\ OrphansOK BY OrphansInitOK, ContactsInitOK DEF EachInit
<1>2. ContactsInv /\ OrphansOK /\ EachStep => ContactsInv' /\ OrphansOK'
  BY ContactsNextOK DEF EachStep
<1> QED BY <1>1, <1>2, InitOfEach, StepsAreTheirOwn, PTL DEF Spec

LEMMA CalendarAlways == Spec => []CalendarInv
<1>1. EachInit => CalendarInv BY CalendarInitOK DEF EachInit
<1>2. CalendarInv /\ EachStep => CalendarInv' BY CalendarNextOK DEF EachStep
<1> QED BY <1>1, <1>2, InitOfEach, StepsAreTheirOwn, PTL DEF Spec

LEMMA ViewsAlways == Spec => []ViewsInv
<1>1. EachInit => ViewsInv BY ViewsInitOK DEF EachInit
<1>2. ViewsInv /\ EachStep => ViewsInv' BY ViewsNextOK DEF EachStep
<1> QED BY <1>1, <1>2, InitOfEach, StepsAreTheirOwn, PTL DEF Spec

LEMMA DriveAlways == Spec => []DriveInv
<1>1. EachInit => DriveInv BY DriveInitOK DEF EachInit
<1>2. DriveInv /\ EachStep => DriveInv' BY DriveNextOK DEF EachStep
<1> QED BY <1>1, <1>2, InitOfEach, StepsAreTheirOwn, PTL DEF Spec

LEMMA LookupsAlways == Spec => []LookupsInv
<1>1. EachInit => LookupsInv BY LookupsInitOK DEF EachInit
<1>2. LookupsInv /\ EachStep => LookupsInv' BY LookupsNextOK DEF EachStep
<1> QED BY <1>1, <1>2, InitOfEach, StepsAreTheirOwn, PTL DEF Spec

LEMMA ConsoleAlways == Spec => []ConsoleInv
<1>1. EachInit => ConsoleInv BY ConsoleInitOK DEF EachInit
<1>2. ConsoleInv /\ EachStep => ConsoleInv' BY ConsoleNextOK DEF EachStep
<1> QED BY <1>1, <1>2, InitOfEach, StepsAreTheirOwn, PTL DEF Spec

LEMMA ExportAlways == Spec => []ExportInv
<1>1. EachInit => ExportInv BY ExportInitOK DEF EachInit
<1>2. ExportInv /\ EachStep => ExportInv' BY ExportStepOK DEF EachStep
<1> QED BY <1>1, <1>2, InitOfEach, StepsAreTheirOwn, PTL DEF Spec

LEMMA OverlaysAlways == Spec => []OverlaysInv
<1>1. EachInit => OverlaysInv BY OverlaysInitOK DEF EachInit
<1>2. OverlaysInv /\ EachStep => OverlaysInv' BY OverlaysStepOK DEF EachStep
<1> QED BY <1>1, <1>2, InitOfEach, StepsAreTheirOwn, PTL DEF Spec

LEMMA WidgetsAlways == Spec => []WidgetsInv
<1>1. EachInit => WidgetsInv BY WidgetsInitOK DEF EachInit
<1>2. WidgetsInv /\ EachStep => WidgetsInv' BY WidgetsStepOK DEF EachStep
<1> QED BY <1>1, <1>2, InitOfEach, StepsAreTheirOwn, PTL DEF Spec

LEMMA FormsAlways == Spec => []FormsInv
<1>1. EachInit => FormsInv BY FormsInitOK DEF EachInit
<1>2. FormsInv /\ EachStep => FormsInv' BY FormsStepOK DEF EachStep
<1> QED BY <1>1, <1>2, InitOfEach, StepsAreTheirOwn, PTL DEF Spec

LEMMA DomainsAlways == Spec => []DomainsInv
<1>1. EachInit => DomainsInv BY DomainsInitOK DEF EachInit
<1>2. DomainsInv /\ EachStep => DomainsInv' BY DomainsStepOK DEF EachStep
<1> QED BY <1>1, <1>2, InitOfEach, StepsAreTheirOwn, PTL DEF Spec

LEMMA ReaderAlways == Spec => []ReaderInv
<1>1. EachInit => ReaderInv BY ReaderInitOK DEF EachInit
<1>2. ReaderInv /\ EachStep => ReaderInv' BY ReaderStepOK DEF EachStep
<1> QED BY <1>1, <1>2, InitOfEach, StepsAreTheirOwn, PTL DEF Spec

LEMMA NumbersAlways == Spec => []NumbersInv
<1>1. EachInit => NumbersInv BY NumbersInitOK DEF EachInit
<1>2. NumbersInv /\ EachStep => NumbersInv' BY NumbersNextOK DEF EachStep
<1> QED BY <1>1, <1>2, InitOfEach, StepsAreTheirOwn, PTL DEF Spec

LEMMA OneOfTheApps == Spec => [](app \in Apps)
<1>1. Init => app \in Apps BY DEF Init
<1>2. app \in Apps /\ [Next]_vars => (app \in Apps)' BY DEF Next, vars
<1> QED BY <1>1, <1>2, PTL DEF Spec

\* The user a page shows is that of the session, the recovery key it shows is the account's,
\* and the keys its storage keeps open with the user's password; a pair of keys that is
\* published, or opens something sealed, is in the browser that made it until its user
\* signs out there.
THEOREM AccountsKeep == Spec => []AccountsKeepKeys
<1>1. KeyRingInv /\ AccountsInv => AccountsKeepKeys
  BY KeysAreHeld, EnvelopesOpen, InvSettles DEF AccountsKeepKeys, KeyRingInv
<1> QED BY <1>1, KeyRingAlways, AccountsAlways, PTL

\* The lists of the calendar, of the contacts and of the drive are what the server has when
\* nothing is under way, each contact and each event as it was saved, and a file whose
\* deletion was undone in time is not in the trash.
THEOREM ListsSettleAlways == Spec => []ListsSettle
<1>1. CalendarInv /\ ContactsInv /\ DriveInv => ListsSettle
  BY InvSettlesCalendar, InvSettlesContacts, InvSettlesDrive DEF ListsSettle
<1> QED BY <1>1, CalendarAlways, ContactsAlways, DriveAlways, PTL

\* No step replaces or deletes a contact of a key that no request carries, no event changes but
\* by a save or a move that was asked for, and the arrows leave the page that is shown.
THEOREM AskedAlways == Spec => StepsAreAsked
<1> DEFINE AskedContact == \A r \in stored :
            r.key \notin {key} \cup {w.key : w \in orphans} => r \in stored'
           AskedEvent ==
               \A r \in server :
                 \/ r \in server'
                 \/ \E g \in drags \cup oldDrags :
                        g.old.id = r.id /\ [r EXCEPT !.time = g.time] \in server'
                 \/ \E j \in saves \cup oldSaves :
                        /\ j.id = r.id
                        /\ \E p \in j.form.people :
                              [r EXCEPT !.people = @ \cup {p}] \in server'
<1>1. ContactsInv /\ OrphansOK /\ EachStep => AskedContact BY ForeignStays DEF EachStep
<1>2. CalendarInv /\ EachStep => AskedEvent BY AskedChanges DEF EachStep
<1>3. ViewsInv => PagesTurned BY ArrowsTurn
<1>4. Spec => [][AskedContact /\ AskedEvent /\ PagesTurned]_vars
 <2> HIDE DEF AskedContact, AskedEvent
 <2> QED
   BY <1>1, <1>2, <1>3, StepsAreTheirOwn, ContactsAlways, CalendarAlways, ViewsAlways, PTL DEF Spec
<1>5. UNCHANGED vars => UNCHANGED conVars /\ UNCHANGED calVars /\ UNCHANGED viewVars BY DEF vars
<1>6. [AskedContact /\ AskedEvent /\ PagesTurned]_vars => [AskedContact]_conVars /\ [AskedEvent]_calVars /\ [PagesTurned]_viewVars
  BY <1>5
<1> QED
 <2> HIDE DEF AskedContact, AskedEvent
 <2>1. Spec => [][AskedContact]_conVars /\ [][AskedEvent]_calVars /\ [][PagesTurned]_viewVars
   BY <1>4, <1>6, PTL
 <2> QED
   BY <2>1 DEF StepsAreAsked, ForeignUntouched, OnlyAskedChanges, ArrowsTurnPages, PagesTurned, AskedContact, AskedEvent

\* What the screens show when nothing is under way is what is selected, entered, sent or
\* stored: every day of a month once, the answer to the query, the detail of the row, the
\* file that was asked for, the keyboard inside what is open, the code as it is typed, the
\* shares that were granted, the active domain, and the conversations of the label.
THEOREM ScreensSettleAlways == Spec => []ScreensSettle
<1>1. ViewsInv /\ LookupsInv /\ ConsoleInv => ViewsWhole /\ DetailIsOfSelection /\ ResultsOfQuery
  BY InvSettlesViews, InvSettlesLookups, InvSettlesConsole
<1>2. ExportInv => ExportIsShown BY InvSettlesExport
<1>3. OverlaysInv => FocusIsKept /\ NothingBarredChosen BY InvSettlesOverlays
<1>4. WidgetsInv => CodeIsShown /\ MessageGoes /\ ThemeIsStored BY InvSettlesWidgets
<1>5. FormsInv => ShareListsGrants /\ FormsCanBeSent /\ ListIsComplete BY InvSettlesForms
<1>6. DomainsInv /\ ReaderInv =>
        ActiveDomainWhole /\ FlagsHaveRequests /\ RowsAreOfLabel /\ LabelsAreListed
  BY InvSettlesDomains, InvSettlesReader
<1>7. /\ ViewsInv /\ LookupsInv /\ ConsoleInv /\ ExportInv /\ OverlaysInv /\ WidgetsInv
      /\ FormsInv /\ DomainsInv /\ ReaderInv
      => ScreensSettle
  BY <1>1, <1>2, <1>3, <1>4, <1>5, <1>6 DEF ScreensSettle
<1> QED
  BY <1>7, ViewsAlways, LookupsAlways, ConsoleAlways, ExportAlways, OverlaysAlways, WidgetsAlways,
     FormsAlways, DomainsAlways, ReaderAlways, PTL

\* Every variable of the applications is of its type, the requests and the numbers in them
\* within the bounds.
THEOREM TypesAlways == Spec => []TypeOK
<1>1. ViewsInv /\ CalendarInv /\ ContactsInv /\ DriveInv =>
        ViewsTypeOK /\ CalendarTypeOK /\ ContactsTypeOK /\ DriveTypeOK
  BY InvTypesContacts DEF ViewsInv, CalendarInv, DriveInv, DriveVarTypes
<1>2. NumbersInv /\ ConsoleInv /\ LookupsInv /\ ExportInv =>
        AccountsTypeOK /\ ConsoleTypeOK /\ LookupsTypeOK /\ ExportTypeOK
  BY InvTypesAccounts, InvSettlesConsole, LookupsAreTyped, InvSettlesExport
<1>3. OverlaysInv /\ WidgetsInv /\ KeyRingInv =>
        OverlaysTypeOK /\ WidgetsTypeOK /\ KeyRingTypeOK
  BY InvSettlesOverlays, InvSettlesWidgets DEF KeyRingInv
<1>4. FormsInv /\ DomainsInv /\ ReaderInv => FormsTypeOK /\ DomainsTypeOK /\ ReaderTypeOK
  BY InvSettlesForms, InvSettlesDomains, InvSettlesReader
<1>5. /\ app \in Apps /\ ViewsInv /\ CalendarInv /\ ContactsInv /\ DriveInv
      /\ NumbersInv /\ ConsoleInv /\ LookupsInv /\ ExportInv
      /\ OverlaysInv /\ WidgetsInv /\ KeyRingInv /\ FormsInv /\ DomainsInv /\ ReaderInv
      => TypeOK
  BY <1>1, <1>2, <1>3, <1>4, Zenon DEF TypeOK, Apps
<1> QED
  BY <1>5, OneOfTheApps, ViewsAlways, CalendarAlways, ContactsAlways, DriveAlways, NumbersAlways,
     ConsoleAlways, LookupsAlways, ExportAlways, OverlaysAlways, WidgetsAlways, KeyRingAlways,
     FormsAlways, DomainsAlways, ReaderAlways, PTL
===============================================================================
