--------------------------- MODULE MailSend_proofs ----------------------------
(***************************************************************************)
(* The safety of writing and sending a message. Part I is the sending of   *)
(* the mail service, for any messages, addresses, forms, number of         *)
(* requests and of faults. Part II is the compose panel: what is posted is *)
(* what was composed, for any words, people, threads, and any numbers of   *)
(* sends, drafts and edits.                                                *)
(***************************************************************************)
EXTENDS MailSend, MailCompose, FiniteSetTheorems, SequenceTheorems, TLAPS

-----------------------------------------------------------------------------
(* Recipients and places. *)

Forms == Envelopes \cup {NoEnvelope}

\* The recipients of a form are a sequence of addresses, those of To first.
LEMMA RecipientsType ==
    ASSUME NEW e \in Forms
    PROVE  /\ Recipients(e) \in Seq(Addresses)
           /\ Len(Recipients(e)) \in Nat
           /\ DOMAIN Recipients(e) = 1..Len(Recipients(e))
           /\ \A i \in DOMAIN Recipients(e) : Recipients(e)[i] \in Addresses
           /\ e.to \in Seq(Addresses) /\ e.cc \in Seq(Addresses) /\ e.bcc \in Seq(Addresses)
<1>1. /\ e.to \in Seq(Addresses) /\ e.cc \in Seq(Addresses) /\ e.bcc \in Seq(Addresses)
  <2>1. CASE e \in Envelopes BY <2>1, MailSendAssumption
  <2>2. CASE e = NoEnvelope
    <3>1. e.to = <<>> /\ e.cc = <<>> /\ e.bcc = <<>> /\ <<>> \in Seq(Addresses)
      BY <2>2 DEF NoEnvelope
    <3> QED BY <3>1
  <2> QED BY <2>1, <2>2 DEF Forms
<1> DEFINE s == Recipients(e)
<1>2. s \in Seq(Addresses) BY <1>1 DEF Recipients
<1> HIDE DEF s
<1>3. Len(s) \in Nat /\ DOMAIN s = 1..Len(s) /\ \A i \in DOMAIN s : s[i] \in Addresses BY <1>2
<1> QED BY <1>1, <1>2, <1>3 DEF s

\* An address that is in To only is where To has it.
LEMMA PlacesOfTo ==
    ASSUME NEW e \in Forms, NEW a \in Addresses \ (ToSet(e.cc) \cup ToSet(e.bcc))
    PROVE  Occurrences(a, Recipients(e)) = Occurrences(a, e.to)
<1>1. /\ e.to \in Seq(Addresses) /\ e.cc \in Seq(Addresses) /\ e.bcc \in Seq(Addresses)
  BY RecipientsType
<1> DEFINE t == e.to
           c == e.cc
           b == e.bcc
           s == Recipients(e)
<1>2. /\ Len(t) \in Nat /\ Len(c) \in Nat /\ Len(b) \in Nat
      /\ DOMAIN t = 1..Len(t) /\ DOMAIN c = 1..Len(c) /\ DOMAIN b = 1..Len(b)
      /\ \A i \in 1..Len(c) : c[i] # a
      /\ \A i \in 1..Len(b) : b[i] # a
  BY <1>1 DEF ToSet
<1>3. /\ DOMAIN s = 1..(Len(t) + Len(c) + Len(b))
      /\ \A i \in 1..(Len(t) + Len(c) + Len(b)) :
            s[i] = IF i <= Len(t) THEN t[i]
                   ELSE IF i <= Len(t) + Len(c) THEN c[i - Len(t)]
                   ELSE b[i - Len(t) - Len(c)]
  <2> DEFINE f == t \o c
  <2>1. /\ f \in Seq(Addresses) /\ Len(f) = Len(t) + Len(c)
        /\ \A i \in 1..(Len(t) + Len(c)) :
              f[i] = IF i <= Len(t) THEN t[i] ELSE c[i - Len(t)]
    BY <1>1, ConcatProperties
  <2>2. f \in Seq(Addresses) /\ b \in Seq(Addresses) BY <1>1, <2>1
  <2> HIDE DEF f, b
  <2>3. /\ f \o b \in Seq(Addresses) /\ Len(f \o b) = Len(f) + Len(b)
        /\ \A i \in 1..(Len(f) + Len(b)) :
              (f \o b)[i] = IF i <= Len(f) THEN f[i] ELSE b[i - Len(f)]
    BY <2>2, ConcatProperties
  <2>4. s = f \o b BY DEF f, b, Recipients
  <2>5. DOMAIN (f \o b) = 1..Len(f \o b) BY <2>3
  <2> QED
    <3>1. DOMAIN s = 1..(Len(t) + Len(c) + Len(b)) BY <2>1, <2>3, <2>4, <2>5
    <3>2. ASSUME NEW i \in 1..(Len(t) + Len(c) + Len(b))
          PROVE  s[i] = IF i <= Len(t) THEN t[i]
                        ELSE IF i <= Len(t) + Len(c) THEN c[i - Len(t)]
                        ELSE b[i - Len(t) - Len(c)]
      <4>1. Len(f) = Len(t) + Len(c) /\ Len(t) \in Nat /\ Len(c) \in Nat /\ Len(b) \in Nat
        BY <1>2, <2>1 DEF b
      <4>2. s[i] = IF i <= Len(f) THEN f[i] ELSE b[i - Len(f)] BY <2>3, <2>4, <4>1
      <4>3. i <= Len(f) => f[i] = IF i <= Len(t) THEN t[i] ELSE c[i - Len(t)]
        <5>1. i \in 1..(Len(t) + Len(c) + Len(b)) OBVIOUS
        <5> HIDE DEF t, c, b, f
        <5>2. i <= Len(f) => i \in 1..(Len(t) + Len(c)) BY <4>1, <5>1
        <5> QED BY <2>1, <5>2
      <4>4. i - Len(f) = i - Len(t) - Len(c) BY <4>1
      <4> HIDE DEF f, s, t, c
      <4> QED BY <4>1, <4>2, <4>3, <4>4
    <3> QED BY <3>1, <3>2
<1> HIDE DEF t, c, b, s
<1>4. {i \in DOMAIN s : s[i] = a} = {i \in DOMAIN t : t[i] = a}
  <2>1. ASSUME NEW i \in DOMAIN s, s[i] = a PROVE i \in DOMAIN t /\ t[i] = a
    <3>1. i \in 1..(Len(t) + Len(c) + Len(b)) BY <1>3, <2>1
    <3>2. CASE i <= Len(t) BY <1>2, <1>3, <2>1, <3>1, <3>2
    <3>3. CASE i > Len(t) /\ i <= Len(t) + Len(c)
      <4>1. i - Len(t) \in 1..Len(c) /\ s[i] = c[i - Len(t)] BY <1>2, <1>3, <3>1, <3>3
      <4> QED BY <1>2, <2>1, <4>1
    <3>4. CASE i > Len(t) + Len(c)
      <4>1. i - Len(t) - Len(c) \in 1..Len(b) /\ s[i] = b[i - Len(t) - Len(c)]
        BY <1>2, <1>3, <3>1, <3>4
      <4> QED BY <1>2, <2>1, <4>1
    <3> QED BY <1>2, <3>1, <3>2, <3>3, <3>4
  <2>2. ASSUME NEW i \in DOMAIN t, t[i] = a PROVE i \in DOMAIN s /\ s[i] = a BY <1>2, <1>3, <2>2
  <2> QED BY <2>1, <2>2
<1> QED BY <1>4 DEF Occurrences, s, t

\* The places before the n-th of a sequence whose elements are of a set.
Places(s, n, set) == {i \in DOMAIN s : i < n /\ s[i] \in set}

LEMMA PlacesBounded ==
    ASSUME NEW e \in Forms, NEW n \in Nat, NEW set
    PROVE  /\ IsFiniteSet(Places(Recipients(e), n, set))
           /\ Cardinality(Places(Recipients(e), n, set)) \in Nat
           /\ Cardinality(Places(Recipients(e), n, set)) <= Len(Recipients(e))
<1> DEFINE P == Places(Recipients(e), n, set)
           D == 1..Len(Recipients(e))
<1>1. Len(Recipients(e)) \in Nat /\ P \in SUBSET D BY RecipientsType DEF Places
<1>2. IsFiniteSet(D) /\ Cardinality(D) = Len(Recipients(e))
  <2> DEFINE n0 == Len(Recipients(e))
  <2>1. n0 \in Nat BY <1>1
  <2> HIDE DEF n0
  <2>2. IsFiniteSet(1..n0) /\ Cardinality(1..n0) = n0 BY <2>1, FS_Interval
  <2> QED BY <2>2 DEF n0
<1> HIDE DEF P, D
<1>3. IsFiniteSet(P) /\ Cardinality(P) <= Cardinality(D) /\ Cardinality(P) \in Nat
  BY <1>1, <1>2, FS_Subset, FS_CardinalityType
<1> QED BY <1>2, <1>3 DEF P

\* None is passed before the first; passing one counts it when it is of the set.
LEMMA NextPlace ==
    ASSUME NEW e \in Forms, NEW n \in Nat, NEW set
    PROVE  /\ n <= 1 => Cardinality(Places(Recipients(e), n, set)) = 0
           /\ n \in DOMAIN Recipients(e) =>
                Cardinality(Places(Recipients(e), n + 1, set)) =
                    Cardinality(Places(Recipients(e), n, set)) + (IF Recipients(e)[n] \in set THEN 1 ELSE 0)
           /\ n > Len(Recipients(e)) =>
                Places(Recipients(e), n, set) = {i \in DOMAIN Recipients(e) : Recipients(e)[i] \in set}
<1> DEFINE s == Recipients(e)
           P == Places(s, n, set)
           Q == Places(s, n + 1, set)
<1>1. DOMAIN s = 1..Len(s) /\ Len(s) \in Nat BY RecipientsType
<1>2. IsFiniteSet(P) /\ Cardinality(P) \in Nat BY PlacesBounded
<1>3. n <= 1 => P = {} BY <1>1 DEF Places
<1>4. n \in DOMAIN s => Q = IF s[n] \in set THEN P \cup {n} ELSE P BY <1>1 DEF Places
<1>5. n \notin P BY DEF Places
<1>6. n > Len(s) => P = {i \in DOMAIN s : s[i] \in set} BY <1>1 DEF Places
<1> HIDE DEF s, P, Q
<1>7. n <= 1 => Cardinality(P) = 0 BY <1>3, FS_EmptySet
<1>8. Cardinality(P \cup {n}) = Cardinality(P) + 1 BY <1>2, <1>5, FS_AddElement
<1>9. n \in DOMAIN s => Cardinality(Q) = Cardinality(P) + (IF s[n] \in set THEN 1 ELSE 0)
  <2>1. CASE s[n] \in set BY <1>2, <1>4, <1>8, <2>1
  <2>2. CASE s[n] \notin set BY <1>2, <1>4, <2>2
  <2> QED BY <2>1, <2>2
<1> QED BY <1>6, <1>7, <1>9 DEF s, P, Q

-----------------------------------------------------------------------------
(* What one send has given away. *)

Count(e, n, set) == Cardinality(Places(Recipients(e), n, set))

LEMMA CountsPlaces ==
    ASSUME NEW e \in Forms, NEW n \in Nat, NEW set
    PROVE  /\ Count(e, n, set) \in Nat
           /\ Count(e, n, set) <= Len(Recipients(e))
           /\ n <= 1 => Count(e, n, set) = 0
           /\ n \in DOMAIN Recipients(e) =>
                Count(e, n + 1, set) = Count(e, n, set) + (IF Recipients(e)[n] \in set THEN 1 ELSE 0)
<1>1. Count(e, n, set) \in Nat /\ Count(e, n, set) <= Len(Recipients(e)) BY PlacesBounded DEF Count
<1>2. n <= 1 => Count(e, n, set) = 0 BY NextPlace DEF Count
<1>3. n \in DOMAIN Recipients(e) =>
        Count(e, n + 1, set) = Count(e, n, set) + (IF Recipients(e)[n] \in set THEN 1 ELSE 0)
  BY NextPlace DEF Count
<1> QED BY <1>1, <1>2, <1>3

One(e, n, a) == Count(e, n, {a})
All(e, n)    == Count(e, n, Addresses)
Outer(e, n)  == Count(e, n, External)

LEMMA CountsNext ==
    ASSUME NEW e \in Forms, NEW n \in Nat
    PROVE  /\ All(e, n) \in Nat /\ Outer(e, n) \in Nat
           /\ \A a : One(e, n, a) \in Nat
           /\ n <= 1 => All(e, n) = 0 /\ Outer(e, n) = 0 /\ \A a : One(e, n, a) = 0
           /\ n \in DOMAIN Recipients(e) =>
                /\ All(e, n + 1) = All(e, n) + 1
                /\ Outer(e, n + 1) = Outer(e, n) + (IF Recipients(e)[n] \in External THEN 1 ELSE 0)
                /\ \A a : One(e, n + 1, a) = One(e, n, a) + (IF Recipients(e)[n] = a THEN 1 ELSE 0)
<1>1. All(e, n) \in Nat /\ Outer(e, n) \in Nat BY CountsPlaces DEF All, Outer
<1>2. \A a : One(e, n, a) \in Nat BY CountsPlaces DEF One
<1>3. n <= 1 => All(e, n) = 0 /\ Outer(e, n) = 0 BY CountsPlaces DEF All, Outer
<1>4. n <= 1 => \A a : One(e, n, a) = 0 BY CountsPlaces DEF One
<1>5. n \in DOMAIN Recipients(e) => All(e, n + 1) = All(e, n) + 1
  <2>1. n \in DOMAIN Recipients(e) => Recipients(e)[n] \in Addresses BY RecipientsType
  <2> QED BY <2>1, CountsPlaces DEF All
<1>6. n \in DOMAIN Recipients(e) =>
        Outer(e, n + 1) = Outer(e, n) + (IF Recipients(e)[n] \in External THEN 1 ELSE 0)
  BY CountsPlaces DEF Outer
<1>7. ASSUME NEW a, n \in DOMAIN Recipients(e)
      PROVE  One(e, n + 1, a) = One(e, n, a) + (IF Recipients(e)[n] = a THEN 1 ELSE 0)
  <2>1. Count(e, n + 1, {a}) = Count(e, n, {a}) + (IF Recipients(e)[n] \in {a} THEN 1 ELSE 0)
    BY <1>7, CountsPlaces
  <2> QED BY <2>1 DEF One
<1> QED BY <1>1, <1>2, <1>3, <1>4, <1>5, <1>6, <1>7

CopiedTo(e, a) == a \in ToSet(e.cc) \cup ToSet(e.bcc)

\* What an address has of one send: of its form e, its place n, its copies in, its rows
\* out, and k faults.
GivenTo(e, n, in, out, k, a) ==
    /\ a \in Local => in[a] <= One(e, n, a)
    /\ CopiedTo(e, a) => out[a] <= All(e, n)
    /\ ~CopiedTo(e, a) /\ a \in Local => out[a] + in[a] <= One(e, n, a)
    /\ ~CopiedTo(e, a) /\ a \notin Local => out[a] <= One(e, n, a)
    /\ k = 0 /\ a \in Local => in[a] = One(e, n, a)
    /\ k = 0 /\ CopiedTo(e, a) => out[a] = Outer(e, n)
    /\ k = 0 /\ ~CopiedTo(e, a) /\ a \in External => out[a] = One(e, n, a)
    /\ k = 0 /\ ~CopiedTo(e, a) /\ a \notin External => out[a] = 0

Given(e, n, in, out, k) == \A a \in Addresses : GivenTo(e, n, in, out, k, a)

GivenBy(r) == Given(req[r].env, req[r].next, inbox[r], listed[r], faults)

\* The invariant says this of every send.
LEMMA CountsOfSends ==
    TypeOK => (CountsOK <=> \A r \in Requests : GivenBy(r))
<1> SUFFICES ASSUME TypeOK, NEW r \in Requests
             PROVE  (/\ \A a \in Local : inbox[r][a] <= Passed(r, {a})
                     /\ \A a \in Addresses :
                          IF Copied(r, a) THEN listed[r][a] <= Passed(r, Addresses)
                          ELSE listed[r][a] + (IF a \in Local THEN inbox[r][a] ELSE 0) <= Passed(r, {a})
                     /\ faults = 0 =>
                          /\ \A a \in Local : inbox[r][a] = Passed(r, {a})
                          /\ \A a \in Addresses :
                               listed[r][a] = IF Copied(r, a) THEN Passed(r, External)
                                              ELSE IF a \in External THEN Passed(r, {a}) ELSE 0)
                    <=> GivenBy(r)
  BY Zenon DEF CountsOK
<1>1. \A a : Passed(r, {a}) = One(req[r].env, req[r].next, a)
  BY Zenon DEF Passed, One, Count, Places
<1>2. Passed(r, Addresses) = All(req[r].env, req[r].next) BY Zenon DEF Passed, All, Count, Places
<1>3. Passed(r, External) = Outer(req[r].env, req[r].next) BY Zenon DEF Passed, Outer, Count, Places
<1>4. \A a : Copied(r, a) <=> CopiedTo(req[r].env, a) BY Zenon DEF Copied, CopiedTo
<1>5. \A a \in Addresses : listed[r][a] \in Nat /\ listed[r][a] + 0 = listed[r][a] BY DEF TypeOK
<1>6. \A a \in Local : a \in Addresses BY DEF Addresses
<1> QED BY <1>1, <1>2, <1>3, <1>4, <1>5, <1>6 DEF GivenBy, Given, GivenTo

\* Before the first place nothing is given, by whatever form.
LEMMA GivenNothing ==
    ASSUME NEW e \in Forms, NEW n \in {0, 1},
           NEW in \in [Local -> Nat], NEW out \in [Addresses -> Nat],
           NEW k, Given(e, n, in, out, k),
           NEW f \in Forms, NEW p \in {0, 1}, NEW l
    PROVE  Given(f, p, in, out, l)
<1>1. All(e, n) = 0 /\ \A a : One(e, n, a) = 0 BY CountsNext
<1>2. All(f, p) = 0 /\ Outer(f, p) = 0 /\ \A a : One(f, p, a) = 0 BY CountsNext
<1> SUFFICES ASSUME NEW a \in Addresses
             PROVE  GivenTo(f, p, in, out, l, a)
  BY DEF Given
<1>3. out[a] \in Nat /\ (a \in Local => in[a] \in Nat) OBVIOUS
<1>4. GivenTo(e, n, in, out, k, a) BY DEF Given
<1>5. out[a] = 0 /\ (a \in Local => in[a] = 0) BY <1>1, <1>3, <1>4 DEF GivenTo
<1> QED BY <1>2, <1>5 DEF GivenTo

LEMMA GivenAtFirst ==
    ASSUME NEW e \in Forms, NEW in, NEW out, NEW k,
           \A a \in Local : in[a] = 0, \A a \in Addresses : out[a] = 0
    PROVE  Given(e, 0, in, out, k)
<1>1. All(e, 0) = 0 /\ Outer(e, 0) = 0 /\ \A a : One(e, 0, a) = 0 BY CountsNext
<1> QED BY <1>1 DEF Given, GivenTo

\* A fault elsewhere asks less of a send.
LEMMA GivenStill ==
    ASSUME NEW e, NEW n, NEW in, NEW out, NEW k \in Nat, NEW l \in Nat,
           k <= l, Given(e, n, in, out, k)
    PROVE  Given(e, n, in, out, l)
<1>1. l = 0 => k = 0 OBVIOUS
<1> SUFFICES ASSUME NEW a \in Addresses
             PROVE  GivenTo(e, n, in, out, l, a)
  BY DEF Given
<1>2. GivenTo(e, n, in, out, k, a) BY DEF Given
<1> QED BY <1>1, <1>2 DEF GivenTo

\* One place further.
LEMMA OneFurther ==
    ASSUME NEW e \in Forms, NEW n \in DOMAIN Recipients(e), NEW a
    PROVE  /\ n \in Nat
           /\ All(e, n) \in Nat /\ Outer(e, n) \in Nat /\ One(e, n, a) \in Nat
           /\ All(e, n + 1) = All(e, n) + 1
           /\ Outer(e, n + 1) = Outer(e, n) + (IF Recipients(e)[n] \in External THEN 1 ELSE 0)
           /\ One(e, n + 1, a) = One(e, n, a) + (IF Recipients(e)[n] = a THEN 1 ELSE 0)
<1>1. n \in Nat BY RecipientsType
<1> QED BY <1>1, CountsNext

\* A place whose recipient has an account gives a copy.
LEMMA GivenCopy ==
    ASSUME NEW e \in Forms, NEW n \in DOMAIN Recipients(e),
           NEW in \in [Local -> Nat], NEW out \in [Addresses -> Nat], NEW k,
           Recipients(e)[n] \in Local,
           NEW new, new = [in EXCEPT ![Recipients(e)[n]] = @ + 1],
           Given(e, n, in, out, k)
    PROVE  Given(e, n + 1, new, out, k)
<1> SUFFICES ASSUME NEW a \in Addresses
             PROVE  GivenTo(e, n + 1, new, out, k, a)
  BY DEF Given
<1> DEFINE x == Recipients(e)[n]
<1>1. /\ All(e, n) \in Nat /\ Outer(e, n) \in Nat /\ One(e, n, a) \in Nat
      /\ All(e, n + 1) = All(e, n) + 1
      /\ Outer(e, n + 1) = Outer(e, n) + (IF x \in External THEN 1 ELSE 0)
      /\ One(e, n + 1, a) = One(e, n, a) + (IF x = a THEN 1 ELSE 0)
  BY OneFurther
<1>2. x \in Local /\ x \notin External BY MailSendAssumption
<1>3. out[a] \in Nat /\ (a \in Local => in[a] \in Nat /\ new[a] = in[a] + (IF x = a THEN 1 ELSE 0))
  OBVIOUS
<1>4. GivenTo(e, n, in, out, k, a) BY DEF Given
<1> HIDE DEF x
<1>5. Outer(e, n + 1) = Outer(e, n) BY <1>1, <1>2
<1>6. CASE a \in Local BY <1>1, <1>3, <1>4, <1>5, <1>6, MailSendAssumption DEF GivenTo
<1>7. CASE a \notin Local
  <2>1. One(e, n + 1, a) = One(e, n, a) BY <1>1, <1>2, <1>7
  <2> QED BY <1>1, <1>3, <1>4, <1>5, <1>7, <2>1 DEF GivenTo
<1> QED BY <1>6, <1>7

\* A row lists its recipient and all of Cc and Bcc.
LEMMA GivenRow ==
    ASSUME NEW e \in Forms, NEW n \in DOMAIN Recipients(e),
           NEW in \in [Local -> Nat], NEW out \in [Addresses -> Nat],
           NEW k \in Nat, NEW l \in Nat, k <= l,
           Recipients(e)[n] \in External \/ l > 0,
           NEW new, new = [a \in Addresses |->
                             IF a \in {Recipients(e)[n]} \cup ToSet(e.cc) \cup ToSet(e.bcc)
                             THEN out[a] + 1 ELSE out[a]],
           Given(e, n, in, out, k)
    PROVE  Given(e, n + 1, in, new, l)
<1> SUFFICES ASSUME NEW a \in Addresses
             PROVE  GivenTo(e, n + 1, in, new, l, a)
  BY DEF Given
<1> DEFINE x == Recipients(e)[n]
<1>1. /\ All(e, n) \in Nat /\ Outer(e, n) \in Nat /\ One(e, n, a) \in Nat
      /\ All(e, n + 1) = All(e, n) + 1
      /\ Outer(e, n + 1) = Outer(e, n) + (IF x \in External THEN 1 ELSE 0)
      /\ One(e, n + 1, a) = One(e, n, a) + (IF x = a THEN 1 ELSE 0)
  BY OneFurther
<1>2. l = 0 => k = 0 /\ x \in External OBVIOUS
<1>3. /\ out[a] \in Nat /\ (a \in Local => in[a] \in Nat)
      /\ new[a] = IF x = a \/ CopiedTo(e, a) THEN out[a] + 1 ELSE out[a]
  BY DEF CopiedTo
<1>4. GivenTo(e, n, in, out, k, a) BY DEF Given
<1>5. ~(a \in Local /\ a \in External) BY MailSendAssumption
<1> HIDE DEF x
<1>6. CASE CopiedTo(e, a)
  <2>1. new[a] = out[a] + 1 BY <1>3, <1>6
  <2>2. l = 0 /\ a \in Local => x # a BY <1>2, <1>5
  <2> QED BY <1>1, <1>2, <1>3, <1>4, <1>6, <2>1, <2>2 DEF GivenTo
<1>7. CASE ~CopiedTo(e, a) /\ x = a
  <2>1. new[a] = out[a] + 1 /\ One(e, n + 1, a) = One(e, n, a) + 1 BY <1>1, <1>3, <1>7
  <2>2. l = 0 => a \in External /\ a \notin Local BY <1>2, <1>5, <1>7
  <2> QED BY <1>1, <1>2, <1>3, <1>4, <1>7, <2>1, <2>2 DEF GivenTo
<1>8. CASE ~CopiedTo(e, a) /\ x # a
  <2>1. new[a] = out[a] /\ One(e, n + 1, a) = One(e, n, a) BY <1>1, <1>3, <1>8
  <2> QED BY <1>2, <1>3, <1>4, <1>8, <2>1 DEF GivenTo
<1> QED BY <1>6, <1>7, <1>8

\* A place passed over after a fault gives nothing.
LEMMA GivenLess ==
    ASSUME NEW e \in Forms, NEW n \in DOMAIN Recipients(e),
           NEW in \in [Local -> Nat], NEW out \in [Addresses -> Nat],
           NEW k, NEW l \in Nat, l > 0,
           Given(e, n, in, out, k)
    PROVE  Given(e, n + 1, in, out, l)
<1> SUFFICES ASSUME NEW a \in Addresses
             PROVE  GivenTo(e, n + 1, in, out, l, a)
  BY DEF Given
<1>1. /\ All(e, n) \in Nat /\ One(e, n, a) \in Nat
      /\ All(e, n + 1) = All(e, n) + 1
      /\ One(e, n + 1, a) = One(e, n, a) + (IF Recipients(e)[n] = a THEN 1 ELSE 0)
  BY OneFurther
<1>2. out[a] \in Nat /\ (a \in Local => in[a] \in Nat) OBVIOUS
<1>3. GivenTo(e, n, in, out, k, a) BY DEF Given
<1>4. One(e, n + 1, a) = One(e, n, a) + 1 \/ One(e, n + 1, a) = One(e, n, a) BY <1>1
<1> QED BY <1>1, <1>2, <1>3, <1>4 DEF GivenTo
-----------------------------------------------------------------------------
(* The parts of the invariant. *)

RowStates == [folder : Folders \cup {"none", "deleted"}, env : Forms, edit : Nat]

RowOK(m) ==
    IF Exists(m) THEN row[m].env \in Envelopes /\ row[m].edit <= Cardinality(Updates(m))
    ELSE row[m] \in {NoRow, Gone}

RowsOK == row \in [Messages -> RowStates] /\ \A m \in Messages : RowOK(m)

\* StagesOK of one request, with the place its goroutine may be at.
Stage(x) ==
    /\ x.next <= Len(Recipients(x.env)) + 1
    /\ x.pc \in {"new", "checked", "read"} => x.next = 0
    /\ x.pc \in {"checked", "read"} => x.msg \in Messages
    /\ x.pc = "relaying" => x.next > 0
    /\ x.pc = "done" => x.next \in {0, Len(Recipients(x.env)) + 1}

RequestsOK == req \in [Requests -> RequestStates] /\ \A r \in Requests : Stage(req[r])

GivenOK ==
    /\ inbox \in [Requests -> [Local -> Nat]]
    /\ listed \in [Requests -> [Addresses -> Nat]]
    /\ faults \in 0..MaxFaults
    /\ \A r \in Requests : GivenBy(r)

LEMMA PartsOfInv == SendInv <=> RowsOK /\ RequestsOK /\ GivenOK
<1>1. TypeOK /\ StagesOK <=>
        /\ RowsOK /\ RequestsOK
        /\ inbox \in [Requests -> [Local -> Nat]]
        /\ listed \in [Requests -> [Addresses -> Nat]]
        /\ faults \in 0..MaxFaults
  <2>1. (\A r \in Requests : Stage(req[r])) <=>
          StagesOK /\ \A r \in Requests : req[r].next <= Len(Recipients(req[r].env)) + 1
    BY Zenon DEF StagesOK, Stage
  <2> QED BY <2>1, Zenon DEF TypeOK, RowsOK, RequestsOK, RowOK, RowStates, Forms
<1>2. TypeOK => (CountsOK <=> \A r \in Requests : GivenBy(r)) BY CountsOfSends
<1> QED BY <1>1, <1>2, Zenon DEF SendInv, GivenOK

-----------------------------------------------------------------------------
(* What a step leaves. *)

\* More requests that updated a row, more of them counted.
LEMMA MoreRequests ==
    ASSUME NEW S \in SUBSET Requests, NEW T \in SUBSET Requests, S \subseteq T
    PROVE  /\ Cardinality(S) \in Nat /\ Cardinality(T) \in Nat
           /\ Cardinality(S) <= Cardinality(T)
           /\ \A r \in T \ S : Cardinality(S) + 1 <= Cardinality(T)
<1>1. IsFiniteSet(S) /\ IsFiniteSet(T) BY MailSendAssumption, FS_Subset
<1>2. Cardinality(S) \in Nat /\ Cardinality(T) \in Nat /\ Cardinality(S) <= Cardinality(T)
  BY <1>1, FS_CardinalityType, FS_Subset
<1>3. ASSUME NEW r \in T \ S PROVE Cardinality(S) + 1 <= Cardinality(T)
  <2> DEFINE U == S \cup {r}
  <2>1. U \subseteq T OBVIOUS
  <2>2. Cardinality(U) = Cardinality(S) + 1 BY <1>1, <1>3, FS_AddElement
  <2> HIDE DEF U
  <2>3. Cardinality(U) <= Cardinality(T) BY <1>1, <2>1, FS_Subset
  <2> QED BY <2>2, <2>3
<1> QED BY <1>2, <1>3

\* Requests that are done stay so.
LEMMA UpdatesGrow ==
    ASSUME NEW m, \A r \in Requests : req[r].pc = "done" => req'[r] = req[r]
    PROVE  /\ Updates(m) \in SUBSET Requests
           /\ Updates(m)' \in SUBSET Requests
           /\ Updates(m) \subseteq Updates(m)'
BY DEF Updates

\* Rows whose requests do not write them stand.
LEMMA RowsStand ==
    ASSUME RowsOK, UNCHANGED row,
           \A r \in Requests : req[r].pc = "done" => req'[r] = req[r]
    PROVE  RowsOK'
<1>1. row' \in [Messages -> RowStates] BY DEF RowsOK
<1>2. ASSUME NEW m \in Messages PROVE RowOK(m)'
  <2>1. RowOK(m) /\ row[m] \in RowStates BY DEF RowsOK
  <2> DEFINE S == Updates(m)
             T == Updates(m)'
  <2>2. S \in SUBSET Requests /\ T \in SUBSET Requests /\ S \subseteq T BY UpdatesGrow
  <2> HIDE DEF S, T
  <2>3. Cardinality(S) \in Nat /\ Cardinality(T) \in Nat /\ Cardinality(S) <= Cardinality(T)
    BY <2>2, MoreRequests
  <2>4. row[m].edit \in Nat BY <2>1 DEF RowStates
  <2>5. row[m].edit <= Cardinality(S) => row[m].edit <= Cardinality(T) BY <2>3, <2>4
  <2> QED BY <2>1, <2>5 DEF RowOK, Exists, S, T
<1> QED BY <1>1, <1>2 DEF RowsOK

\* One row is set to another.
LEMMA RowSet ==
    ASSUME RowsOK, NEW m \in Messages, NEW x \in RowStates,
           row' = [row EXCEPT ![m] = x],
           \A r \in Requests : req[r].pc = "done" => req'[r] = req[r],
           IF x.folder \in Folders THEN x.env \in Envelopes /\ x.edit <= Cardinality(Updates(m))
           ELSE x \in {NoRow, Gone}
    PROVE  RowsOK'
<1>1. row' \in [Messages -> RowStates] /\ row'[m] = x /\ \A n \in Messages \ {m} : row'[n] = row[n]
  BY DEF RowsOK
<1>2. ASSUME NEW n \in Messages PROVE RowOK(n)'
  <2>1. RowOK(n) /\ row[n] \in RowStates BY DEF RowsOK
  <2> DEFINE S == Updates(n)
             T == Updates(n)'
  <2>2. S \in SUBSET Requests /\ T \in SUBSET Requests /\ S \subseteq T BY UpdatesGrow
  <2> HIDE DEF S, T
  <2>3. Cardinality(S) \in Nat /\ Cardinality(T) \in Nat /\ Cardinality(S) <= Cardinality(T)
    BY <2>2, MoreRequests
  <2>4. row[n].edit \in Nat /\ x.edit \in Nat BY <2>1 DEF RowStates
  <2>5. \A k \in Nat : k <= Cardinality(S) => k <= Cardinality(T) BY <2>3
  <2>6. CASE n = m
    <3>1. IF x.folder \in Folders THEN x.env \in Envelopes /\ x.edit <= Cardinality(S)
          ELSE x \in {NoRow, Gone}
      BY <2>6 DEF S
    <3>2. row'[n] = x BY <1>1, <2>6
    <3> QED BY <2>4, <2>5, <3>1, <3>2 DEF RowOK, Exists, T
  <2>7. CASE n # m
    <3>1. row'[n] = row[n] BY <1>1, <2>7
    <3> QED BY <2>1, <2>4, <2>5, <3>1 DEF RowOK, Exists, S, T
  <2> QED BY <2>6, <2>7
<1> QED BY <1>1, <1>2 DEF RowsOK

\* A row is filed elsewhere.
LEMMA RowMoved ==
    ASSUME RowsOK, NEW m \in Messages, Exists(m), NEW f \in Folders,
           row' = [row EXCEPT ![m].folder = f],
           \A r \in Requests : req[r].pc = "done" => req'[r] = req[r]
    PROVE  RowsOK'
<1> DEFINE x == [row[m] EXCEPT !.folder = f]
<1>1. row[m] \in RowStates /\ RowOK(m) BY DEF RowsOK
<1>2. x \in RowStates /\ x.folder \in Folders /\ x.env = row[m].env /\ x.edit = row[m].edit
  BY <1>1 DEF RowStates
<1>3. row' = [row EXCEPT ![m] = x] OBVIOUS
<1>4. x.env \in Envelopes /\ x.edit <= Cardinality(Updates(m)) BY <1>1, <1>2 DEF RowOK
<1> HIDE DEF x
<1> QED BY <1>2, <1>3, <1>4, RowSet

\* One request goes on.
LEMMA RequestSet ==
    ASSUME RequestsOK, NEW r \in Requests, NEW x \in RequestStates, Stage(x),
           req[r].pc # "done", req' = [req EXCEPT ![r] = x]
    PROVE  /\ RequestsOK'
           /\ req'[r] = x
           /\ \A q \in Requests \ {r} : req'[q] = req[q]
           /\ \A q \in Requests : req[q].pc = "done" => req'[q] = req[q]
<1>1. req' \in [Requests -> RequestStates] /\ req'[r] = x /\ \A q \in Requests \ {r} : req'[q] = req[q]
  BY DEF RequestsOK
<1>2. ASSUME NEW q \in Requests PROVE Stage(req'[q])
  <2>1. Stage(req[q]) BY DEF RequestsOK
  <2> QED BY <1>1, <2>1
<1> QED BY <1>1, <1>2 DEF RequestsOK

\* What the other sends have given stands.
LEMMA OthersGiven ==
    ASSUME GivenOK, NEW q \in Requests, faults' \in 0..MaxFaults, faults <= faults',
           req'[q].env = req[q].env, req'[q].next = req[q].next,
           inbox'[q] = inbox[q], listed'[q] = listed[q]
    PROVE  GivenBy(q)'
<1>1. faults \in Nat /\ faults' \in Nat BY MailSendAssumption DEF GivenOK
<1>2. GivenBy(q) BY DEF GivenOK
<1>3. Given(req[q].env, req[q].next, inbox[q], listed[q], faults')
  BY <1>1, <1>2, GivenStill DEF GivenBy
<1> QED BY <1>3 DEF GivenBy

\* A request whose goroutine has not gone anywhere has given nothing, and so may take
\* another form.
LEMMA GivenNotYet ==
    ASSUME GivenOK, RequestsOK, NEW r \in Requests, req[r].next \in {0, 1},
           req'[r].env \in Forms, req'[r].next \in {0, 1},
           inbox'[r] = inbox[r], listed'[r] = listed[r]
    PROVE  GivenBy(r)'
<1>1. req[r].env \in Forms BY DEF RequestsOK, RequestStates, Forms
<1>2. inbox[r] \in [Local -> Nat] /\ listed[r] \in [Addresses -> Nat] BY DEF GivenOK
<1>3. Given(req[r].env, req[r].next, inbox[r], listed[r], faults) BY DEF GivenOK, GivenBy
<1>4. PICK k : k = faults' OBVIOUS
<1>5. PICK f : f = req'[r].env OBVIOUS
<1>6. PICK p : p = req'[r].next OBVIOUS
<1>7. Given(f, p, inbox[r], listed[r], k) BY <1>1, <1>2, <1>3, <1>5, <1>6, GivenNothing
<1> QED BY <1>4, <1>5, <1>6, <1>7 DEF GivenBy

\* Where a goroutine is.
LEMMA AtPlace ==
    ASSUME RequestsOK, NEW r \in Requests, Relaying(r)
    PROVE  /\ req[r].env \in Forms
           /\ req[r].next \in DOMAIN Recipients(req[r].env)
           /\ req[r].next \in Nat
           /\ Recipient(r) = Recipients(req[r].env)[req[r].next]
<1>1. req[r] \in RequestStates /\ Stage(req[r]) BY DEF RequestsOK
<1>2. req[r].env \in Forms /\ req[r].next \in Nat BY <1>1 DEF RequestStates, Forms
<1>3. /\ Len(Recipients(req[r].env)) \in Nat
      /\ DOMAIN Recipients(req[r].env) = 1..Len(Recipients(req[r].env))
  BY <1>2, RecipientsType
<1>4. req[r].next > 0 /\ req[r].next <= Len(Recipients(req[r].env)) BY <1>1 DEF Relaying, Stage
<1> QED BY <1>2, <1>3, <1>4 DEF Recipient

\* It takes the next place.
LEMMA AdvanceOK ==
    ASSUME RequestsOK, NEW r \in Requests, Relaying(r), Advance(r)
    PROVE  /\ RequestsOK'
           /\ req'[r].env = req[r].env /\ req'[r].next = req[r].next + 1
           /\ \A q \in Requests \ {r} : req'[q] = req[q]
           /\ \A q \in Requests : req[q].pc = "done" => req'[q] = req[q]
<1> DEFINE x == [req[r] EXCEPT !.next = req[r].next + 1]
<1>1. req[r] \in RequestStates BY DEF RequestsOK
<1>2. req[r].next \in Nat /\ req[r].next <= Len(Recipients(req[r].env)) /\ Len(Recipients(req[r].env)) \in Nat
  BY AtPlace, RecipientsType DEF Relaying
<1>3. req[r].pc = "relaying" BY DEF Relaying
<1>4. /\ x \in RequestStates /\ x.env = req[r].env /\ x.next = req[r].next + 1
      /\ x.pc = "relaying"
  BY <1>1, <1>2, <1>3 DEF RequestStates
<1>5. req' = [req EXCEPT ![r] = x] BY DEF Advance
<1> HIDE DEF x
<1>6. Stage(x) BY <1>2, <1>4 DEF Stage
<1>7. req[r].pc # "done" BY <1>3
<1> QED BY <1>4, <1>5, <1>6, <1>7, RequestSet
-----------------------------------------------------------------------------
(* The actions. *)

\* Messages come and go at the hands of the user.
LEMMA RequestsStand ==
    ASSUME RequestsOK, GivenOK, UNCHANGED <<req, inbox, listed, faults>>
    PROVE  /\ RequestsOK' /\ GivenOK'
           /\ \A r \in Requests : req[r].pc = "done" => req'[r] = req[r]
<1>1. req' = req /\ inbox' = inbox /\ listed' = listed /\ faults' = faults OBVIOUS
<1>2. RequestsOK' BY <1>1 DEF RequestsOK
<1>3. GivenOK' BY <1>1 DEF GivenOK, GivenBy
<1> QED BY <1>1, <1>2, <1>3

LEMMA SaveDraftOK ==
    ASSUME SendInv, NEW m \in Messages, NEW e \in Envelopes, SaveDraft(m, e)
    PROVE  SendInv'
<1>1. RowsOK /\ RequestsOK /\ GivenOK BY PartsOfInv
<1>2. /\ RequestsOK' /\ GivenOK'
      /\ \A r \in Requests : req[r].pc = "done" => req'[r] = req[r]
  BY <1>1, RequestsStand DEF SaveDraft
<1> DEFINE x == [folder |-> "Drafts", env |-> e, edit |-> 0]
<1>3. x \in RowStates /\ x.env \in Envelopes /\ x.edit = 0 /\ row' = [row EXCEPT ![m] = x]
  BY DEF RowStates, Folders, Forms, SaveDraft
<1>4. 0 <= Cardinality(Updates(m))
  <2>1. Updates(m) \in SUBSET Requests BY DEF Updates
  <2> QED BY <2>1, MoreRequests
<1> HIDE DEF x
<1>5. RowsOK' BY <1>1, <1>2, <1>3, <1>4, RowSet DEF x, Folders
<1> QED BY <1>2, <1>5, PartsOfInv, PTL

LEMMA MoveMessageOK ==
    ASSUME SendInv, NEW m \in Messages, NEW f \in Folders, MoveMessage(m, f)
    PROVE  SendInv'
<1>1. RowsOK /\ RequestsOK /\ GivenOK BY PartsOfInv
<1>2. /\ RequestsOK' /\ GivenOK'
      /\ \A r \in Requests : req[r].pc = "done" => req'[r] = req[r]
  BY <1>1, RequestsStand DEF MoveMessage
<1>3. RowsOK' BY <1>1, <1>2, RowMoved DEF MoveMessage
<1> QED BY <1>2, <1>3, PartsOfInv, PTL

LEMMA DeleteMessageOK ==
    ASSUME SendInv, NEW m \in Messages, DeleteMessage(m)
    PROVE  SendInv'
<1>1. RowsOK /\ RequestsOK /\ GivenOK BY PartsOfInv
<1>2. /\ RequestsOK' /\ GivenOK'
      /\ \A r \in Requests : req[r].pc = "done" => req'[r] = req[r]
  BY <1>1, RequestsStand DEF DeleteMessage
<1>3. Gone \in RowStates /\ Gone.folder \notin Folders BY DEF Gone, NoRow, RowStates, Folders, Forms
<1>4. row' = [row EXCEPT ![m] = Gone] BY DEF DeleteMessage
<1>5. RowsOK' BY <1>1, <1>2, <1>3, <1>4, RowSet
<1> QED BY <1>2, <1>5, PartsOfInv, PTL

\* A request goes on and gives nothing.
LEMMA RequestOnly ==
    ASSUME RowsOK, RequestsOK, GivenOK, NEW r \in Requests, NEW x \in RequestStates, Stage(x),
           req[r].pc # "done", req' = [req EXCEPT ![r] = x],
           faults' \in 0..MaxFaults, faults <= faults', UNCHANGED <<inbox, listed>>,
           \/ x.env = req[r].env /\ x.next = req[r].next
           \/ req[r].next \in {0, 1} /\ x.next \in {0, 1}
    PROVE  /\ RequestsOK' /\ GivenOK'
           /\ \A q \in Requests : req[q].pc = "done" => req'[q] = req[q]
<1>1. /\ RequestsOK'
      /\ req'[r] = x
      /\ \A q \in Requests \ {r} : req'[q] = req[q]
      /\ \A q \in Requests : req[q].pc = "done" => req'[q] = req[q]
  BY RequestSet
<1>2. inbox' = inbox /\ listed' = listed OBVIOUS
<1>3. x.env \in Forms BY DEF RequestStates, Forms
<1>4. GivenBy(r)'
  <2>1. CASE x.env = req[r].env /\ x.next = req[r].next BY <1>1, <1>2, <2>1, OthersGiven
  <2>2. CASE req[r].next \in {0, 1} /\ x.next \in {0, 1} BY <1>1, <1>2, <1>3, <2>2, GivenNotYet
  <2> QED BY <2>1, <2>2
<1>5. ASSUME NEW q \in Requests \ {r} PROVE GivenBy(q)' BY <1>1, <1>2, OthersGiven
<1>6. GivenOK' BY <1>2, <1>4, <1>5 DEF GivenOK
<1> QED BY <1>1, <1>6

LEMMA UpdateDraftCheckOK ==
    ASSUME SendInv, NEW r \in Requests, NEW m \in Messages, UpdateDraftCheck(r, m)
    PROVE  SendInv'
<1>1. RowsOK /\ RequestsOK /\ GivenOK BY PartsOfInv
<1>2. req[r] \in RequestStates /\ Stage(req[r]) /\ req[r].pc = "new" /\ faults \in 0..MaxFaults
  BY <1>1 DEF RequestsOK, UpdateDraftCheck, GivenOK
<1> DEFINE x == [req[r] EXCEPT !.pc = "checked", !.msg = m]
<1>3. /\ x \in RequestStates /\ x.pc = "checked" /\ x.msg = m
      /\ x.env = req[r].env /\ x.next = req[r].next
  BY <1>2 DEF RequestStates
<1>4. req' = [req EXCEPT ![r] = x] BY DEF UpdateDraftCheck
<1>5. faults' = faults /\ UNCHANGED <<row, inbox, listed>> BY DEF UpdateDraftCheck
<1> HIDE DEF x
<1>6. Stage(x) BY <1>2, <1>3 DEF Stage
<1>7. req[r].pc # "done" /\ faults' \in 0..MaxFaults /\ faults <= faults'
  BY <1>2, <1>5, MailSendAssumption
<1>8. /\ RequestsOK' /\ GivenOK'
      /\ \A q \in Requests : req[q].pc = "done" => req'[q] = req[q]
  BY <1>1, <1>3, <1>4, <1>5, <1>6, <1>7, RequestOnly
<1>9. RowsOK' BY <1>1, <1>5, <1>8, RowsStand
<1> QED BY <1>8, <1>9, PartsOfInv, PTL

LEMMA UpdateDraftWriteOK ==
    ASSUME SendInv, NEW r \in Requests, NEW e \in Envelopes, UpdateDraftWrite(r, e)
    PROVE  SendInv'
<1>1. RowsOK /\ RequestsOK /\ GivenOK BY PartsOfInv
<1>2. req[r] \in RequestStates /\ Stage(req[r]) /\ req[r].pc = "checked" /\ faults \in 0..MaxFaults
  BY <1>1 DEF RequestsOK, UpdateDraftWrite, GivenOK
<1> DEFINE x == [req[r] EXCEPT !.pc = "done"]
<1>3. /\ x \in RequestStates /\ x.pc = "done" /\ x.msg = req[r].msg
      /\ x.env = req[r].env /\ x.next = req[r].next
  BY <1>2 DEF RequestStates
<1>4. req' = [req EXCEPT ![r] = x] BY DEF UpdateDraftWrite
<1>5. faults' = faults /\ UNCHANGED <<inbox, listed>> BY DEF UpdateDraftWrite
<1> HIDE DEF x
<1>6. Stage(x) /\ x.next = 0 /\ req[r].msg \in Messages BY <1>2, <1>3 DEF Stage
<1>7. req[r].pc # "done" /\ faults' \in 0..MaxFaults /\ faults <= faults'
  BY <1>2, <1>5, MailSendAssumption
<1>8. /\ RequestsOK' /\ GivenOK'
      /\ \A q \in Requests : req[q].pc = "done" => req'[q] = req[q]
  BY <1>1, <1>3, <1>4, <1>5, <1>6, <1>7, RequestOnly
<1>9. RowsOK'
  <2>1. PICK m \in Messages : m = req[r].msg BY <1>6
  <2>2. CASE ~Exists(m)
    <3>1. UNCHANGED row BY <2>1, <2>2 DEF UpdateDraftWrite
    <3> QED BY <1>1, <1>8, <3>1, RowsStand
  <2>3. CASE Exists(m)
    <3>1. row[m] \in RowStates /\ RowOK(m) BY <1>1, <2>1 DEF RowsOK
    <3> DEFINE y == [row[m] EXCEPT !.env = e, !.edit = row[m].edit + 1]
    <3>2. /\ y \in RowStates /\ y.folder = row[m].folder /\ y.env = e /\ y.edit = row[m].edit + 1
          /\ row[m].edit \in Nat
      <4>1. row[m] \in RowStates /\ row[m].edit + 1 \in Nat /\ row[m].edit \in Nat /\ e \in Forms
        BY <3>1 DEF RowStates, Forms
      <4> QED BY <4>1 DEF RowStates
    <3>3. row' = [row EXCEPT ![m] = y] BY <2>1, <2>3 DEF UpdateDraftWrite
    <3>4. row[m].edit <= Cardinality(Updates(m)) /\ y.folder \in Folders
      BY <2>3, <3>1, <3>2 DEF RowOK, Exists
    <3> DEFINE S == Updates(m)
               T == Updates(m)'
    <3>5. r \in T \ S
      <4>1. req'[r] = x BY <1>1, <1>4 DEF RequestsOK
      <4> QED BY <1>2, <1>3, <1>6, <2>1, <4>1 DEF Updates
    <3>6. S \in SUBSET Requests /\ T \in SUBSET Requests /\ S \subseteq T BY <1>8, UpdatesGrow
    <3> HIDE DEF S, T, y
    <3>7. Cardinality(S) \in Nat /\ Cardinality(T) \in Nat /\ Cardinality(S) + 1 <= Cardinality(T)
      BY <3>5, <3>6, MoreRequests
    <3>8. y.edit <= Cardinality(T) BY <3>2, <3>4, <3>7 DEF S
    <3>9. row' \in [Messages -> RowStates] BY <1>1, <3>2, <3>3 DEF RowsOK
    <3>10. RowOK(m)'
      <4>1. row'[m] = y BY <1>1, <2>1, <3>3 DEF RowsOK
      <4> QED BY <3>2, <3>4, <3>8, <4>1 DEF RowOK, Exists, T
    <3>11. ASSUME NEW n \in Messages \ {m} PROVE RowOK(n)'
      <4>1. row'[n] = row[n] /\ RowOK(n) /\ row[n].edit \in Nat
        BY <1>1, <2>1, <3>3 DEF RowsOK, RowStates
      <4> DEFINE U == Updates(n)
                 V == Updates(n)'
      <4>2. U \in SUBSET Requests /\ V \in SUBSET Requests /\ U \subseteq V BY <1>8, UpdatesGrow
      <4> HIDE DEF U, V
      <4>3. Cardinality(U) \in Nat /\ Cardinality(V) \in Nat /\ Cardinality(U) <= Cardinality(V)
        BY <4>2, MoreRequests
      <4>4. row[n].edit <= Cardinality(U) => row[n].edit <= Cardinality(V) BY <4>1, <4>3
      <4> QED BY <4>1, <4>4 DEF RowOK, Exists, U, V
    <3> QED BY <3>9, <3>10, <3>11 DEF RowsOK
  <2> QED BY <2>2, <2>3
<1> QED BY <1>8, <1>9, PartsOfInv, PTL

LEMMA SendDraftReadOK ==
    ASSUME SendInv, NEW r \in Requests, NEW m \in Messages, SendDraftRead(r, m)
    PROVE  SendInv'
<1>1. RowsOK /\ RequestsOK /\ GivenOK BY PartsOfInv
<1>2. req[r] \in RequestStates /\ Stage(req[r]) /\ req[r].pc = "new" /\ faults \in 0..MaxFaults
  BY <1>1 DEF RequestsOK, SendDraftRead, GivenOK
<1>3. row[m].env \in Forms BY <1>1 DEF RowsOK, RowStates
<1> DEFINE x == [req[r] EXCEPT !.pc = "read", !.msg = m, !.env = row[m].env]
<1>4. /\ x \in RequestStates /\ x.pc = "read" /\ x.msg = m
      /\ x.env = row[m].env /\ x.next = req[r].next
  BY <1>2, <1>3 DEF RequestStates, Forms
<1>5. req' = [req EXCEPT ![r] = x] BY DEF SendDraftRead
<1>6. faults' = faults /\ UNCHANGED <<row, inbox, listed>> BY DEF SendDraftRead
<1> HIDE DEF x
<1>7. x.next = 0 /\ req[r].next = 0 BY <1>2, <1>4 DEF Stage
<1>8. Stage(x)
  <2>1. Len(Recipients(x.env)) \in Nat BY <1>3, <1>4, RecipientsType
  <2> QED BY <1>4, <1>7, <2>1 DEF Stage
<1>9. req[r].pc # "done" /\ faults' \in 0..MaxFaults /\ faults <= faults'
  BY <1>2, <1>6, MailSendAssumption
<1>10. /\ RequestsOK' /\ GivenOK'
       /\ \A q \in Requests : req[q].pc = "done" => req'[q] = req[q]
  BY <1>1, <1>4, <1>5, <1>6, <1>7, <1>8, <1>9, RequestOnly
<1>11. RowsOK' BY <1>1, <1>6, <1>10, RowsStand
<1> QED BY <1>10, <1>11, PartsOfInv, PTL

\* A goroutine starts, having given nothing.
LEMMA RelayOK ==
    ASSUME RowsOK, RequestsOK, GivenOK, NEW r \in Requests, NEW m \in Messages,
           NEW e \in Forms, req[r].pc \in {"new", "read"}, Relay(r, m, e),
           UNCHANGED <<inbox, listed, faults>>
    PROVE  /\ RequestsOK' /\ GivenOK'
           /\ \A q \in Requests : req[q].pc = "done" => req'[q] = req[q]
<1>1. req[r] \in RequestStates /\ Stage(req[r]) /\ faults \in 0..MaxFaults
  BY DEF RequestsOK, GivenOK
<1> DEFINE x == [pc |-> "relaying", msg |-> m, env |-> e, next |-> 1]
<1>2. /\ x \in RequestStates /\ x.pc = "relaying" /\ x.msg = m /\ x.env = e /\ x.next = 1
      /\ req' = [req EXCEPT ![r] = x]
  BY DEF RequestStates, Relay, Forms
<1>3. Len(Recipients(e)) \in Nat BY RecipientsType
<1> HIDE DEF x
<1>4. Stage(x) BY <1>2, <1>3 DEF Stage
<1>5. req[r].next = 0 BY <1>1 DEF Stage
<1>6. req[r].pc # "done" /\ faults' \in 0..MaxFaults /\ faults <= faults'
  BY <1>1, MailSendAssumption
<1> QED BY <1>2, <1>4, <1>5, <1>6, RequestOnly

LEMMA SendMessageOK ==
    ASSUME SendInv, NEW r \in Requests, NEW m \in Messages, NEW e \in Envelopes, SendMessage(r, m, e)
    PROVE  SendInv'
<1>1. RowsOK /\ RequestsOK /\ GivenOK BY PartsOfInv
<1>2. /\ RequestsOK' /\ GivenOK'
      /\ \A q \in Requests : req[q].pc = "done" => req'[q] = req[q]
  BY <1>1, RelayOK DEF SendMessage, Forms
<1> DEFINE x == [folder |-> "Sent", env |-> e, edit |-> 0]
<1>3. x \in RowStates /\ x.env \in Envelopes /\ x.edit = 0 /\ row' = [row EXCEPT ![m] = x]
  BY DEF RowStates, Folders, Forms, SendMessage
<1>4. 0 <= Cardinality(Updates(m))
  <2>1. Updates(m) \in SUBSET Requests BY DEF Updates
  <2> QED BY <2>1, MoreRequests
<1> HIDE DEF x
<1>5. RowsOK' BY <1>1, <1>2, <1>3, <1>4, RowSet DEF x, Folders
<1> QED BY <1>2, <1>5, PartsOfInv, PTL

\* A request fails.
LEMMA RequestFails ==
    ASSUME RowsOK, RequestsOK, GivenOK, NEW r \in Requests, req[r].pc = "read",
           req' = [req EXCEPT ![r].pc = "failed"],
           faults' \in 0..MaxFaults, faults <= faults', UNCHANGED <<inbox, listed>>
    PROVE  /\ RequestsOK' /\ GivenOK'
           /\ \A q \in Requests : req[q].pc = "done" => req'[q] = req[q]
<1>1. req[r] \in RequestStates /\ Stage(req[r]) BY DEF RequestsOK
<1> DEFINE x == [req[r] EXCEPT !.pc = "failed"]
<1>2. /\ x \in RequestStates /\ x.pc = "failed" /\ x.env = req[r].env /\ x.next = req[r].next
      /\ req' = [req EXCEPT ![r] = x]
  BY <1>1 DEF RequestStates
<1> HIDE DEF x
<1>3. Stage(x) BY <1>1, <1>2 DEF Stage
<1> QED BY <1>2, <1>3, RequestOnly

LEMMA SendDraftMoveOK ==
    ASSUME SendInv, NEW r \in Requests, SendDraftMove(r)
    PROVE  SendInv'
<1>1. RowsOK /\ RequestsOK /\ GivenOK BY PartsOfInv
<1>2. req[r] \in RequestStates /\ Stage(req[r]) /\ req[r].pc = "read" /\ faults \in 0..MaxFaults
  BY <1>1 DEF RequestsOK, SendDraftMove, GivenOK
<1>3. UNCHANGED <<inbox, listed, faults>> BY DEF SendDraftMove
<1>4. req[r].msg \in Messages /\ req[r].env \in Forms BY <1>2 DEF Stage, RequestStates, Forms
<1>5. CASE Exists(req[r].msg)
  <2>1. Relay(r, req[r].msg, req[r].env) /\ row' = [row EXCEPT ![req[r].msg].folder = "Sent"]
    BY <1>5 DEF SendDraftMove
  <2>2. /\ RequestsOK' /\ GivenOK'
        /\ \A q \in Requests : req[q].pc = "done" => req'[q] = req[q]
    BY <1>1, <1>2, <1>3, <1>4, <2>1, RelayOK
  <2>3. RowsOK' BY <1>1, <1>4, <1>5, <2>1, <2>2, RowMoved DEF Folders
  <2> QED BY <2>2, <2>3, PartsOfInv, PTL
<1>6. CASE ~Exists(req[r].msg)
  <2>1. req' = [req EXCEPT ![r].pc = "failed"] /\ UNCHANGED row BY <1>6 DEF SendDraftMove
  <2>2. faults' \in 0..MaxFaults /\ faults <= faults' BY <1>2, <1>3, MailSendAssumption
  <2>3. /\ RequestsOK' /\ GivenOK'
        /\ \A q \in Requests : req[q].pc = "done" => req'[q] = req[q]
    BY <1>1, <1>2, <1>3, <2>1, <2>2, RequestFails
  <2>4. RowsOK' BY <1>1, <2>1, <2>3, RowsStand
  <2> QED BY <2>3, <2>4, PartsOfInv, PTL
<1> QED BY <1>5, <1>6

\* One more fault.
LEMMA FaultCounted ==
    ASSUME GivenOK, faults < MaxFaults, faults' = faults + 1
    PROVE  faults' \in 0..MaxFaults /\ faults <= faults' /\ faults' > 0 /\ faults' \in Nat /\ faults \in Nat
BY MailSendAssumption DEF GivenOK

LEMMA SendDraftMoveUnreadOK ==
    ASSUME SendInv, NEW r \in Requests, SendDraftMoveUnread(r)
    PROVE  SendInv'
<1>1. RowsOK /\ RequestsOK /\ GivenOK BY PartsOfInv
<1>2. /\ req[r] \in RequestStates /\ Stage(req[r]) /\ req[r].pc = "read" /\ Exists(req[r].msg)
      /\ row' = [row EXCEPT ![req[r].msg].folder = "Sent"]
      /\ req' = [req EXCEPT ![r].pc = "failed"]
      /\ UNCHANGED <<inbox, listed>>
  BY <1>1 DEF RequestsOK, SendDraftMoveUnread
<1>3. faults' \in 0..MaxFaults /\ faults <= faults' BY <1>1, FaultCounted DEF SendDraftMoveUnread
<1>4. req[r].msg \in Messages BY <1>2 DEF Stage
<1>5. /\ RequestsOK' /\ GivenOK'
      /\ \A q \in Requests : req[q].pc = "done" => req'[q] = req[q]
  BY <1>1, <1>2, <1>3, RequestFails
<1>6. RowsOK' BY <1>1, <1>2, <1>4, <1>5, RowMoved DEF Folders
<1> QED BY <1>5, <1>6, PartsOfInv, PTL
-----------------------------------------------------------------------------
(* The goroutine. *)

\* One goroutine gives what its place asks for, and the others nothing.
LEMMA GoroutineOK ==
    ASSUME RowsOK, RequestsOK, GivenOK, NEW r \in Requests, Relaying(r), Advance(r), UNCHANGED row,
           faults' \in 0..MaxFaults, faults <= faults',
           inbox' \in [Requests -> [Local -> Nat]], listed' \in [Requests -> [Addresses -> Nat]],
           \A q \in Requests \ {r} : inbox'[q] = inbox[q] /\ listed'[q] = listed[q],
           Given(req[r].env, req[r].next + 1, inbox'[r], listed'[r], faults')
    PROVE  RowsOK' /\ RequestsOK' /\ GivenOK'
<1>1. /\ RequestsOK'
      /\ req'[r].env = req[r].env /\ req'[r].next = req[r].next + 1
      /\ \A q \in Requests \ {r} : req'[q] = req[q]
      /\ \A q \in Requests : req[q].pc = "done" => req'[q] = req[q]
  BY AdvanceOK
<1>2. RowsOK' BY <1>1, RowsStand
<1>3. GivenBy(r)' BY <1>1 DEF GivenBy
<1>4. ASSUME NEW q \in Requests \ {r} PROVE GivenBy(q)' BY <1>1, OthersGiven
<1>5. GivenOK' BY <1>3, <1>4 DEF GivenOK
<1> QED BY <1>1, <1>2, <1>5

\* What it has given so far.
LEMMA SoFar ==
    ASSUME GivenOK, NEW r \in Requests
    PROVE  /\ inbox[r] \in [Local -> Nat] /\ listed[r] \in [Addresses -> Nat]
           /\ Given(req[r].env, req[r].next, inbox[r], listed[r], faults)
           /\ faults \in Nat /\ faults \in 0..MaxFaults
BY MailSendAssumption DEF GivenOK, GivenBy

LEMMA DeliverLocalOK ==
    ASSUME SendInv, NEW r \in Requests, DeliverLocal(r)
    PROVE  SendInv'
<1>1. RowsOK /\ RequestsOK /\ GivenOK BY PartsOfInv
<1>2. /\ Relaying(r) /\ Recipient(r) \in Local /\ Advance(r)
      /\ inbox' = [inbox EXCEPT ![r][Recipient(r)] = @ + 1]
      /\ row' = row /\ listed' = listed /\ faults' = faults
  BY DEF DeliverLocal
<1>3. /\ req[r].env \in Forms
      /\ req[r].next \in DOMAIN Recipients(req[r].env)
      /\ Recipient(r) = Recipients(req[r].env)[req[r].next]
  BY <1>1, <1>2, AtPlace
<1>4. /\ inbox[r] \in [Local -> Nat] /\ listed[r] \in [Addresses -> Nat]
      /\ Given(req[r].env, req[r].next, inbox[r], listed[r], faults)
      /\ faults \in Nat /\ faults \in 0..MaxFaults
  BY <1>1, SoFar
<1> DEFINE new == [inbox[r] EXCEPT ![Recipient(r)] = @ + 1]
<1>5. new \in [Local -> Nat] BY <1>2, <1>4
<1>6. inbox' = [inbox EXCEPT ![r] = new] BY <1>2
<1>7. new = [inbox[r] EXCEPT ![Recipients(req[r].env)[req[r].next]] = @ + 1] BY <1>3
<1> HIDE DEF new
<1>8. /\ inbox' \in [Requests -> [Local -> Nat]] /\ inbox'[r] = new
      /\ \A q \in Requests \ {r} : inbox'[q] = inbox[q]
  BY <1>1, <1>5, <1>6 DEF GivenOK
<1>9. Given(req[r].env, req[r].next + 1, new, listed[r], faults)
  BY <1>2, <1>3, <1>4, <1>7, GivenCopy
<1>10. /\ listed' \in [Requests -> [Addresses -> Nat]]
       /\ faults' \in 0..MaxFaults /\ faults <= faults'
  BY <1>1, <1>2, <1>4 DEF GivenOK
<1>11. RowsOK' /\ RequestsOK' /\ GivenOK' BY <1>1, <1>2, <1>8, <1>9, <1>10, GoroutineOK
<1> QED BY <1>11, PartsOfInv, PTL

\* A row for the place, whose recipient has no account or could not be looked up.
LEMMA EnqueueOK ==
    ASSUME RowsOK, RequestsOK, GivenOK, NEW r \in Requests, Relaying(r), Enqueue(r), Advance(r),
           row' = row, inbox' = inbox, faults' \in 0..MaxFaults, faults <= faults',
           Recipient(r) \in External \/ faults' > 0
    PROVE  RowsOK' /\ RequestsOK' /\ GivenOK'
<1>1. /\ req[r].env \in Forms
      /\ req[r].next \in DOMAIN Recipients(req[r].env)
      /\ Recipient(r) = Recipients(req[r].env)[req[r].next]
  BY AtPlace
<1>2. /\ inbox[r] \in [Local -> Nat] /\ listed[r] \in [Addresses -> Nat]
      /\ Given(req[r].env, req[r].next, inbox[r], listed[r], faults)
      /\ faults \in Nat
  BY SoFar
<1> DEFINE new == [a \in Addresses |-> IF a \in RowLists(r) THEN listed[r][a] + 1 ELSE listed[r][a]]
<1>3. new \in [Addresses -> Nat] BY <1>2
<1>4. listed' = [listed EXCEPT ![r] = new] BY DEF Enqueue
<1>5. new = [a \in Addresses |->
                IF a \in {Recipients(req[r].env)[req[r].next]} \cup ToSet(req[r].env.cc)
                           \cup ToSet(req[r].env.bcc)
                THEN listed[r][a] + 1 ELSE listed[r][a]]
  BY <1>1 DEF RowLists
<1> HIDE DEF new
<1>6. /\ listed' \in [Requests -> [Addresses -> Nat]] /\ listed'[r] = new
      /\ \A q \in Requests \ {r} : listed'[q] = listed[q]
  BY <1>3, <1>4 DEF GivenOK
<1>7. PICK l \in Nat : l = faults' BY MailSendAssumption
<1>8. Given(req[r].env, req[r].next + 1, inbox[r], new, l)
  <2>1. Recipients(req[r].env)[req[r].next] \in External \/ l > 0 BY <1>1, <1>7
  <2>2. faults <= l BY <1>7
  <2> QED BY <1>1, <1>2, <1>5, <2>1, <2>2, GivenRow
<1>9. inbox' \in [Requests -> [Local -> Nat]] BY DEF GivenOK
<1> QED BY <1>6, <1>7, <1>8, <1>9, GoroutineOK

LEMMA EnqueueExternalOK ==
    ASSUME SendInv, NEW r \in Requests, EnqueueExternal(r)
    PROVE  SendInv'
<1>1. RowsOK /\ RequestsOK /\ GivenOK BY PartsOfInv
<1>2. /\ Relaying(r) /\ Recipient(r) \in External /\ Enqueue(r) /\ Advance(r)
      /\ row' = row /\ inbox' = inbox /\ faults' = faults
  BY DEF EnqueueExternal
<1>3. faults' \in 0..MaxFaults /\ faults <= faults' BY <1>1, <1>2, MailSendAssumption DEF GivenOK
<1>4. RowsOK' /\ RequestsOK' /\ GivenOK' BY <1>1, <1>2, <1>3, EnqueueOK
<1> QED BY <1>4, PartsOfInv, PTL

LEMMA LookupFailsOK ==
    ASSUME SendInv, NEW r \in Requests, LookupFails(r)
    PROVE  SendInv'
<1>1. RowsOK /\ RequestsOK /\ GivenOK BY PartsOfInv
<1>2. /\ Relaying(r) /\ Enqueue(r) /\ Advance(r) /\ row' = row /\ inbox' = inbox BY DEF LookupFails
<1>3. faults' \in 0..MaxFaults /\ faults <= faults' /\ faults' > 0
  BY <1>1, FaultCounted DEF LookupFails
<1>4. RowsOK' /\ RequestsOK' /\ GivenOK' BY <1>1, <1>2, <1>3, EnqueueOK
<1> QED BY <1>4, PartsOfInv, PTL

LEMMA DeliveryFailsOK ==
    ASSUME SendInv, NEW r \in Requests, DeliveryFails(r)
    PROVE  SendInv'
<1>1. RowsOK /\ RequestsOK /\ GivenOK BY PartsOfInv
<1>2. /\ Relaying(r) /\ Advance(r) /\ row' = row /\ inbox' = inbox /\ listed' = listed
  BY DEF DeliveryFails
<1>3. faults' \in 0..MaxFaults /\ faults <= faults' /\ faults' > 0 /\ faults' \in Nat
  BY <1>1, FaultCounted DEF DeliveryFails
<1>4. /\ req[r].env \in Forms
      /\ req[r].next \in DOMAIN Recipients(req[r].env)
  BY <1>1, <1>2, AtPlace
<1>5. /\ inbox[r] \in [Local -> Nat] /\ listed[r] \in [Addresses -> Nat]
      /\ Given(req[r].env, req[r].next, inbox[r], listed[r], faults)
  BY <1>1, SoFar
<1>6. PICK l \in Nat : l = faults' /\ l > 0 BY <1>3
<1>7. Given(req[r].env, req[r].next + 1, inbox[r], listed[r], l) BY <1>4, <1>5, <1>6, GivenLess
<1>8. inbox' \in [Requests -> [Local -> Nat]] /\ listed' \in [Requests -> [Addresses -> Nat]]
  BY <1>1, <1>2 DEF GivenOK
<1>9. RowsOK' /\ RequestsOK' /\ GivenOK' BY <1>1, <1>2, <1>3, <1>6, <1>7, <1>8, GoroutineOK
<1> QED BY <1>9, PartsOfInv, PTL

LEMMA FinishOK ==
    ASSUME SendInv, NEW r \in Requests, Finish(r)
    PROVE  SendInv'
<1>1. RowsOK /\ RequestsOK /\ GivenOK BY PartsOfInv
<1>2. req[r] \in RequestStates /\ Stage(req[r]) /\ req[r].pc = "relaying" /\ faults \in 0..MaxFaults
  BY <1>1 DEF RequestsOK, Finish, GivenOK
<1> DEFINE x == [req[r] EXCEPT !.pc = "done"]
<1>3. /\ x \in RequestStates /\ x.pc = "done" /\ x.env = req[r].env /\ x.next = req[r].next
      /\ req' = [req EXCEPT ![r] = x]
  BY <1>2 DEF RequestStates, Finish
<1>4. faults' = faults /\ UNCHANGED <<row, inbox, listed>> BY DEF Finish
<1> HIDE DEF x
<1>5. Stage(x)
  <2>1. Len(Recipients(req[r].env)) \in Nat /\ req[r].next \in Nat
    BY <1>2, RecipientsType DEF RequestStates, Forms
  <2>2. ~(req[r].next <= Len(Recipients(req[r].env))) BY <1>2 DEF Finish, Relaying
  <2>3. req[r].next = Len(Recipients(req[r].env)) + 1 BY <1>2, <2>1, <2>2 DEF Stage
  <2> QED BY <1>2, <1>3, <2>1, <2>3 DEF Stage
<1>6. req[r].pc # "done" /\ faults' \in 0..MaxFaults /\ faults <= faults'
  BY <1>2, <1>4, MailSendAssumption
<1>7. /\ RequestsOK' /\ GivenOK'
      /\ \A q \in Requests : req[q].pc = "done" => req'[q] = req[q]
  BY <1>1, <1>3, <1>4, <1>5, <1>6, RequestOnly
<1>8. RowsOK' BY <1>1, <1>4, <1>7, RowsStand
<1> QED BY <1>7, <1>8, PartsOfInv, PTL

LEMMA CrashOK ==
    ASSUME SendInv, Crash
    PROVE  SendInv'
<1>1. RowsOK /\ RequestsOK /\ GivenOK BY PartsOfInv
<1>2. /\ req' = [r \in Requests |->
                   IF req[r].pc \in {"new", "done", "failed"} THEN req[r]
                   ELSE [req[r] EXCEPT !.pc = "failed"]]
      /\ row' = row /\ inbox' = inbox /\ listed' = listed
  BY DEF Crash
<1>3. faults' \in 0..MaxFaults /\ faults <= faults' BY <1>1, FaultCounted DEF Crash
<1>4. ASSUME NEW r \in Requests
      PROVE  /\ req'[r] \in RequestStates /\ Stage(req'[r])
             /\ req'[r].env = req[r].env /\ req'[r].next = req[r].next
             /\ req[r].pc = "done" => req'[r] = req[r]
  <2>1. req[r] \in RequestStates /\ Stage(req[r]) BY <1>1 DEF RequestsOK
  <2>2. CASE req[r].pc \in {"new", "done", "failed"} BY <1>2, <2>1, <2>2
  <2>3. CASE req[r].pc \notin {"new", "done", "failed"}
    <3> DEFINE x == [req[r] EXCEPT !.pc = "failed"]
    <3>1. /\ x \in RequestStates /\ x.pc = "failed" /\ x.env = req[r].env /\ x.next = req[r].next
      BY <2>1 DEF RequestStates
    <3>2. req'[r] = x BY <1>2, <2>3
    <3> HIDE DEF x
    <3>3. Stage(x) BY <2>1, <3>1 DEF Stage
    <3> QED BY <2>3, <3>1, <3>2, <3>3
  <2> QED BY <2>2, <2>3
<1>5. RequestsOK' BY <1>2, <1>4 DEF RequestsOK
<1>6. RowsOK' BY <1>1, <1>2, <1>4, RowsStand
<1>7. ASSUME NEW q \in Requests PROVE GivenBy(q)' BY <1>1, <1>2, <1>3, <1>4, OthersGiven
<1>8. GivenOK' BY <1>1, <1>2, <1>3, <1>7 DEF GivenOK
<1> QED BY <1>5, <1>6, <1>8, PartsOfInv, PTL

-----------------------------------------------------------------------------
(* The theorems. *)

LEMMA InitOK == Init => SendInv
<1> SUFFICES ASSUME Init PROVE SendInv OBVIOUS
<1>1. NoEnvelope \in Forms BY DEF Forms
<1>2. Len(Recipients(NoEnvelope)) \in Nat BY <1>1, RecipientsType
<1>3. RowsOK
  <2>1. NoRow \in RowStates /\ NoRow.folder \notin Folders BY <1>1 DEF NoRow, RowStates, Folders
  <2> QED BY <2>1 DEF Init, RowsOK, RowOK, Exists
<1>4. RequestsOK
  <2>1. NewRequest \in RequestStates BY DEF NewRequest, RequestStates
  <2>2. Stage(NewRequest) BY <1>2 DEF NewRequest, Stage
  <2> QED BY <2>1, <2>2 DEF Init, RequestsOK
<1>5. GivenOK
  <2>1. /\ inbox \in [Requests -> [Local -> Nat]]
        /\ listed \in [Requests -> [Addresses -> Nat]]
        /\ faults \in 0..MaxFaults
    BY MailSendAssumption DEF Init
  <2>2. ASSUME NEW r \in Requests PROVE GivenBy(r)
    <3>1. /\ \A a \in Local : inbox[r][a] = 0
          /\ \A a \in Addresses : listed[r][a] = 0
          /\ req[r].env = NoEnvelope /\ req[r].next = 0
      BY DEF Init, NewRequest
    <3> QED BY <1>1, <3>1, GivenAtFirst DEF GivenBy
  <2> QED BY <2>1, <2>2 DEF GivenOK
<1> QED BY <1>3, <1>4, <1>5, PartsOfInv

LEMMA NextOK == SendInv /\ [Next]_vars => SendInv'
<1> SUFFICES ASSUME SendInv, [Next]_vars PROVE SendInv' OBVIOUS
<1>1. CASE Next
  <2>1. CASE \E m \in Messages, e \in Envelopes : SaveDraft(m, e) BY <2>1, SaveDraftOK
  <2>2. CASE \E m \in Messages, f \in Folders : MoveMessage(m, f) BY <2>2, MoveMessageOK
  <2>3. CASE \E m \in Messages : DeleteMessage(m) BY <2>3, DeleteMessageOK
  <2>4. CASE \E r \in Requests, m \in Messages : UpdateDraftCheck(r, m) \/ SendDraftRead(r, m)
    BY <2>4, UpdateDraftCheckOK, SendDraftReadOK
  <2>5. CASE \E r \in Requests, e \in Envelopes : UpdateDraftWrite(r, e) BY <2>5, UpdateDraftWriteOK
  <2>6. CASE \E r \in Requests, m \in Messages, e \in Envelopes : SendMessage(r, m, e)
    BY <2>6, SendMessageOK
  <2>7. CASE \E r \in Requests : SendDraftMove(r) \/ SendDraftMoveUnread(r)
    BY <2>7, SendDraftMoveOK, SendDraftMoveUnreadOK
  <2>8. CASE \E r \in Requests : Goroutine(r) \/ LookupFails(r) \/ DeliveryFails(r)
    BY <2>8, DeliverLocalOK, EnqueueExternalOK, FinishOK, LookupFailsOK, DeliveryFailsOK DEF Goroutine
  <2>9. CASE Crash BY <2>9, CrashOK
  <2> QED BY <1>1, <2>1, <2>2, <2>3, <2>4, <2>5, <2>6, <2>7, <2>8, <2>9 DEF Next
<1>2. CASE UNCHANGED vars
  <2>1. row' = row /\ req' = req /\ inbox' = inbox /\ listed' = listed /\ faults' = faults
    BY <1>2 DEF vars
  <2>2. RowsOK /\ RequestsOK /\ GivenOK BY PartsOfInv
  <2>3. RequestsOK' /\ GivenOK' /\ \A r \in Requests : req[r].pc = "done" => req'[r] = req[r]
    BY <2>1, <2>2, RequestsStand
  <2>4. RowsOK' BY <2>1, <2>2, <2>3, RowsStand
  <2> QED BY <2>3, <2>4, PartsOfInv, PTL
<1> QED BY <1>1, <1>2

\* However sends, updates, moves, deletions, failed database calls and crashes
\* interleave, the stages of the requests and what each has given away agree.
THEOREM SendInvariant == Spec => []SendInv
BY InitOK, NextOK, PTL DEF Spec

\* Rows, requests and counts keep their types, and a row is edited no more often than an
\* update was made.
THEOREM SendTypes == Spec => []TypeOK
<1>1. SendInv => TypeOK BY DEF SendInv
<1> QED BY <1>1, SendInvariant, PTL

\* The places of a send, all of them passed or not.
LEMMA PlacesOfAll ==
    ASSUME NEW e \in Forms, NEW n \in Nat, NEW a
    PROVE  /\ Occurrences(a, Recipients(e)) \in Nat
           /\ One(e, n, a) <= Occurrences(a, Recipients(e))
           /\ All(e, n) <= Len(Recipients(e))
           /\ n = Len(Recipients(e)) + 1 =>
                /\ One(e, n, a) = Occurrences(a, Recipients(e))
                /\ Outer(e, n) = Cardinality({i \in DOMAIN Recipients(e) : Recipients(e)[i] \in External})
<1> DEFINE s == Recipients(e)
           P == Places(s, n, {a})
           Q == Places(s, Len(s) + 1, {a})
<1>1. Len(s) \in Nat /\ DOMAIN s = 1..Len(s) BY RecipientsType
<1>2. /\ IsFiniteSet(P) /\ Cardinality(P) \in Nat
      /\ IsFiniteSet(Q) /\ Cardinality(Q) \in Nat
  BY <1>1, PlacesBounded
<1>3. P \subseteq Q BY <1>1 DEF Places
<1>4. Q = {i \in DOMAIN s : s[i] = a} BY <1>1 DEF Places
<1> HIDE DEF P, Q, s
<1>5. Cardinality(P) <= Cardinality(Q) BY <1>2, <1>3, FS_Subset
<1>6. Occurrences(a, s) = Cardinality(Q) BY <1>4 DEF Occurrences
<1>7. One(e, n, a) = Cardinality(P) BY DEF One, Count, P, s
<1>8. All(e, n) <= Len(s) BY CountsPlaces DEF All, s
<1>9. n = Len(s) + 1 => One(e, n, a) = Occurrences(a, s) BY <1>6, <1>7 DEF P, Q
<1>10. n = Len(s) + 1 => Outer(e, n) = Cardinality({i \in DOMAIN s : s[i] \in External})
  <2>1. n = Len(s) + 1 => Places(s, n, External) = {i \in DOMAIN s : s[i] \in External}
    BY <1>1 DEF Places
  <2> QED BY <2>1 DEF Outer, Count, s
<1> QED BY <1>2, <1>5, <1>6, <1>7, <1>8, <1>9, <1>10 DEF s

\* Copies and rows are those the envelopes that were sent list, no more of them whatever
\* fails and no fewer unless something does.
THEOREM SendsAreAsListed == Spec => []SentAsListed
<1>1. SendInv => SentAsListed
  <2> SUFFICES ASSUME SendInv PROVE SentAsListed OBVIOUS
  <2>1. RequestsOK /\ GivenOK BY PartsOfInv
  <2>2. ASSUME NEW r \in Requests, NEW a \in Addresses
        PROVE  /\ a \in Local => inbox[r][a] <= Occurrences(a, Recipients(req[r].env))
               /\ Copied(r, a) => listed[r][a] <= Len(Recipients(req[r].env))
               /\ ~Copied(r, a) =>
                    listed[r][a] + (IF a \in Local THEN inbox[r][a] ELSE 0)
                        <= Occurrences(a, Recipients(req[r].env))
               /\ faults = 0 /\ req[r].pc = "done" /\ req[r].next > 0 =>
                    /\ a \in Local => inbox[r][a] = Occurrences(a, Recipients(req[r].env))
                    /\ listed[r][a] = RowsPerSend(r, a)
    <3>1. PICK e \in Forms : e = req[r].env BY <2>1 DEF RequestsOK, RequestStates, Forms
    <3>2. PICK n \in Nat : n = req[r].next BY <2>1 DEF RequestsOK, RequestStates
    <3>3. /\ One(e, n, a) \in Nat /\ All(e, n) \in Nat
          /\ Occurrences(a, Recipients(e)) \in Nat
          /\ One(e, n, a) <= Occurrences(a, Recipients(e))
          /\ All(e, n) <= Len(Recipients(e))
          /\ Len(Recipients(e)) \in Nat
      BY PlacesOfAll, CountsNext, RecipientsType
    <3>4. GivenTo(e, n, inbox[r], listed[r], faults, a)
      BY <2>1, <3>1, <3>2 DEF GivenOK, GivenBy, Given
    <3>5. listed[r][a] \in Nat /\ (a \in Local => inbox[r][a] \in Nat) BY <2>1 DEF GivenOK
    <3>6. Copied(r, a) <=> CopiedTo(e, a) BY <3>1 DEF Copied, CopiedTo
    <3>7. a \in Local => inbox[r][a] <= Occurrences(a, Recipients(e))
      BY <3>3, <3>4, <3>5 DEF GivenTo
    <3>8. CopiedTo(e, a) => listed[r][a] <= Len(Recipients(e)) BY <3>3, <3>4, <3>5 DEF GivenTo
    <3>9. ~CopiedTo(e, a) =>
            listed[r][a] + (IF a \in Local THEN inbox[r][a] ELSE 0) <= Occurrences(a, Recipients(e))
      <4>1. CASE a \in Local BY <3>3, <3>4, <3>5, <4>1 DEF GivenTo
      <4>2. CASE a \notin Local BY <3>3, <3>4, <3>5, <4>2 DEF GivenTo
      <4> QED BY <4>1, <4>2
    <3>10. ASSUME faults = 0, req[r].pc = "done", req[r].next > 0
           PROVE  /\ a \in Local => inbox[r][a] = Occurrences(a, Recipients(e))
                  /\ listed[r][a] = RowsPerSend(r, a)
      <4>1. n = Len(Recipients(e)) + 1
        <5>1. Stage(req[r]) BY <2>1 DEF RequestsOK
        <5> QED BY <3>1, <3>2, <3>10, <5>1 DEF Stage
      <4>2. /\ One(e, n, a) = Occurrences(a, Recipients(e))
            /\ Outer(e, n) = Cardinality({i \in DOMAIN Recipients(e) : Recipients(e)[i] \in External})
        BY <4>1, PlacesOfAll
      <4>3. a \in Local => inbox[r][a] = Occurrences(a, Recipients(e))
        BY <3>4, <3>10, <4>2 DEF GivenTo
      <4>4. CASE CopiedTo(e, a)
        BY <3>1, <3>4, <3>6, <3>10, <4>2, <4>3, <4>4 DEF GivenTo, RowsPerSend
      <4>5. CASE ~CopiedTo(e, a) /\ a \in External
        <5>1. Occurrences(a, Recipients(e)) = Occurrences(a, e.to) BY <4>5, PlacesOfTo DEF CopiedTo
        <5> QED BY <3>1, <3>4, <3>6, <3>10, <4>2, <4>3, <4>5, <5>1 DEF GivenTo, RowsPerSend
      <4>6. CASE ~CopiedTo(e, a) /\ a \notin External
        BY <3>1, <3>4, <3>6, <3>10, <4>3, <4>6 DEF GivenTo, RowsPerSend
      <4> QED BY <4>4, <4>5, <4>6
    <3> QED BY <3>1, <3>6, <3>7, <3>8, <3>9, <3>10
  <2>3. \A a \in Local : a \in Addresses BY DEF Addresses
  <2>4. CopiesPerSend BY <2>2, <2>3, Zenon DEF CopiesPerSend
  <2>5. CompleteWithoutFaults BY <2>2, <2>3, Zenon DEF CompleteWithoutFaults
  <2> QED BY <2>4, <2>5 DEF SentAsListed
<1> QED BY <1>1, SendInvariant, PTL

-----------------------------------------------------------------------------
(* Part II: the compose panel. *)

-----------------------------------------------------------------------------
(* The parts of the invariant: what the user writes in, and what is sent. *)

FormType ==
    /\ panel \in Panel /\ shown \in SUBSET Pieces /\ ref \in Thread
    /\ me \in BOOLEAN /\ threads \in SUBSET Threads /\ signature \in BOOLEAN
    /\ edits \in 0 .. MaxEdits

StorageType ==
    /\ calls \in SUBSET Call /\ saves \in 0 .. MaxSaves
    /\ drafts \in SUBSET DraftIds

SendType ==
    /\ clicks \in 0 .. MaxSends /\ snapshot \in Seq(Snapshot)
    /\ Len(snapshot) = clicks
    /\ pending \in (1 .. clicks) \cup {Nothing}
    /\ timers \in SUBSET (1 .. clicks)
    /\ timer \in (1 .. clicks) \cup {Nothing} /\ toast \in BOOLEAN
    /\ jobs \in SUBSET Message /\ posted \in SUBSET Message
    /\ undone \in SUBSET (1 .. clicks) /\ overlap \in SUBSET (1 .. clicks)

FormOK == FormType /\ FormRefers

\* A message that is under way or was posted.
Composed(m) ==
    /\ m.to = snapshot[m.n].to /\ m.text = snapshot[m.n].text
    /\ m.encrypted = snapshot[m.n].encrypted
    /\ m.to # {}
    /\ m.keys \subseteq snapshot[m.n].to \cup {Me}
    /\ m.by \in 1 .. clicks /\ m.n \in 1 .. clicks
    /\ m.by \notin undone
    /\ m.by \notin overlap => m.n = m.by
    /\ snapshot[m.n].answers # Nothing => m.ref = snapshot[m.n].answers

SendOK == SendType /\ SnapshotsRefer /\ TimersOK /\ \A m \in jobs \cup posted : Composed(m)

LEMMA PartsOfCompose == ComposeInv <=> FormOK /\ StorageType /\ SendOK
<1>1. ComposeTypeOK <=> FormType /\ StorageType /\ SendType
  BY DEF ComposeTypeOK, FormType, StorageType, SendType
<1>2. SentWhole /\ MessagesOK <=> \A m \in jobs \cup posted : Composed(m)
  BY DEF SentWhole, MessagesOK, Composed
<1> QED BY <1>1, <1>2 DEF ComposeInv, FormOK, SendOK

-------------------------------------------------------------------------------
(* What the effects fill in. *)

LEMMA ClearedType ==
    ASSUME NEW p, p.minimized \in BOOLEAN, p.encrypted \in BOOLEAN
    PROVE  /\ Cleared(p) \in Panel /\ ~Cleared(p).open
           /\ Cleared(p).reply = Nothing /\ Cleared(p).forward = Nothing
BY DEF Cleared, Panel, Thread, Draft

LEMMA ReplyRecipientsType ==
    ASSUME NEW t \in Threads
    PROVE  ReplyRecipients(t) \in SUBSET People
BY ComposeAssumption DEF ReplyRecipients

\* The effects write the recipients and the text, and nothing else.
LEMMA FilledType ==
    ASSUME NEW p \in Panel, NEW ts \in SUBSET Threads
    PROVE  /\ ReplyFilled(p, ts) \in Panel /\ ReplyFilled(p, ts).open = p.open
           /\ ReplyFilled(p, ts).reply = p.reply /\ ReplyFilled(p, ts).forward = p.forward
           /\ ForwardFilled(p, ts) \in Panel /\ ForwardFilled(p, ts).open = p.open
           /\ ForwardFilled(p, ts).reply = p.reply /\ ForwardFilled(p, ts).forward = p.forward
           /\ SignatureFilled(p) \in Panel /\ SignatureFilled(p).open = p.open
           /\ SignatureFilled(p).reply = p.reply /\ SignatureFilled(p).forward = p.forward
           /\ Synced(p) \in SUBSET Pieces
<1>1. /\ ReplyFilled(p, ts) \in Panel /\ ReplyFilled(p, ts).open = p.open
      /\ ReplyFilled(p, ts).reply = p.reply /\ ReplyFilled(p, ts).forward = p.forward
  <2>1. CASE p.reply \in ts
    <3>1. ReplyRecipients(p.reply) \in SUBSET People /\ {p.reply} \in SUBSET Pieces
      BY <2>1, ReplyRecipientsType DEF Pieces
    <3> QED BY <2>1, <3>1 DEF ReplyFilled, Panel
  <2>2. CASE p.reply \notin ts BY <2>2 DEF ReplyFilled
  <2> QED BY <2>1, <2>2
<1>2. /\ ForwardFilled(p, ts) \in Panel /\ ForwardFilled(p, ts).open = p.open
      /\ ForwardFilled(p, ts).reply = p.reply /\ ForwardFilled(p, ts).forward = p.forward
  <2>1. CASE p.forward \in ts
    <3>1. {p.forward} \in SUBSET Pieces BY <2>1 DEF Pieces
    <3> QED BY <2>1, <3>1 DEF ForwardFilled, Panel
  <2>2. CASE p.forward \notin ts BY <2>2 DEF ForwardFilled
  <2> QED BY <2>1, <2>2
<1>3. /\ SignatureFilled(p) \in Panel /\ SignatureFilled(p).open = p.open
      /\ SignatureFilled(p).reply = p.reply /\ SignatureFilled(p).forward = p.forward
  <2>1. {Signature} \in SUBSET Pieces BY DEF Pieces
  <2>2. CASE signature /\ p.reply = Nothing /\ p.forward = Nothing
    BY <2>1, <2>2 DEF SignatureFilled, Panel
  <2>3. CASE ~(signature /\ p.reply = Nothing /\ p.forward = Nothing) BY <2>3 DEF SignatureFilled
  <2> QED BY <2>2, <2>3
<1>4. Synced(p) \in SUBSET Pieces BY DEF Synced, Panel
<1> QED BY <1>1, <1>2, <1>3, <1>4

-------------------------------------------------------------------------------
(* Writing leaves what is sent alone. *)

LEMMA SendStands ==
    ASSUME SendOK, UNCHANGED <<waiting, sending>>
    PROVE  SendOK'
<1>1. /\ clicks' = clicks /\ snapshot' = snapshot /\ pending' = pending
      /\ timers' = timers /\ timer' = timer /\ toast' = toast
      /\ undone' = undone /\ overlap' = overlap
      /\ jobs' = jobs /\ posted' = posted
  BY DEF waiting, sending
<1> QED BY <1>1 DEF SendOK, SendType, SnapshotsRefer, TimersOK, Composed

LEMMA StorageStands ==
    ASSUME StorageType, UNCHANGED storage
    PROVE  StorageType'
BY DEF StorageType, storage

LEMMA FormStands ==
    ASSUME FormOK, UNCHANGED <<form, context>>
    PROVE  FormOK'
BY DEF FormOK, FormType, FormRefers, form, context

LEMMA EditCounted ==
    ASSUME FormType, Edit
    PROVE  edits' \in 0 .. MaxEdits
BY ComposeAssumption DEF FormType, Edit

\* The panel turns into p.
LEMMA PanelSet ==
    ASSUME FormOK, NEW p \in Panel, panel' = p, NEW s \in SUBSET Pieces, shown' = s,
           ref' \in Thread, edits' \in 0 .. MaxEdits, me' \in BOOLEAN,
           threads' \in SUBSET Threads, signature' \in BOOLEAN,
           ~p.open => p.reply = Nothing /\ p.forward = Nothing,
           p.reply # Nothing /\ p.forward = Nothing => ref' = p.reply
    PROVE  FormOK'
BY DEF FormOK, FormType, FormRefers

LEMMA OpensOK ==
    ASSUME FormOK, ~panel.open, edits' \in 0 .. MaxEdits,
           panel' = SignatureFilled([panel EXCEPT !.open = TRUE]), shown' = Synced(panel'),
           UNCHANGED <<ref, context>>
    PROVE  FormOK'
<1> DEFINE q == [panel EXCEPT !.open = TRUE]
<1>1. panel \in Panel /\ panel.reply = Nothing /\ panel.forward = Nothing
  BY DEF FormOK, FormType, FormRefers
<1>2. q \in Panel /\ q.open = TRUE /\ q.reply = Nothing /\ q.forward = Nothing BY <1>1 DEF Panel
<1>3. panel' = SignatureFilled(q) OBVIOUS
<1> HIDE DEF q
<1>4. PICK p : p = SignatureFilled(q) OBVIOUS
<1>5. p \in Panel /\ p.open = TRUE /\ p.reply = Nothing /\ p.forward = Nothing
  BY <1>2, <1>4, FilledType
<1>6. Synced(p) \in SUBSET Pieces BY <1>5, FilledType
<1>7. panel' = p /\ shown' = Synced(p) BY <1>3, <1>4
<1>8. ref' \in Thread /\ me' \in BOOLEAN /\ threads' \in SUBSET Threads /\ signature' \in BOOLEAN
  BY DEF FormOK, FormType, context
<1> QED BY <1>5, <1>6, <1>7, <1>8, PanelSet

LEMMA AccountArrivesOK ==
    ASSUME ComposeInv, AccountArrives
    PROVE  ComposeInv'
<1>1. FormOK /\ StorageType /\ SendOK BY PartsOfCompose
<1>2. FormOK' BY <1>1 DEF AccountArrives, FormOK, FormType, FormRefers, form
<1>3. StorageType' /\ SendOK' BY <1>1, StorageStands, SendStands DEF AccountArrives
<1> QED BY <1>2, <1>3, PartsOfCompose, PTL

LEMMA OpenNewOK ==
    ASSUME ComposeInv, OpenNew
    PROVE  ComposeInv'
<1>1. FormOK /\ StorageType /\ SendOK BY PartsOfCompose
<1>2. edits' \in 0 .. MaxEdits BY <1>1, EditCounted DEF OpenNew, FormOK
<1>3. FormOK' BY <1>1, <1>2, OpensOK DEF OpenNew
<1>4. StorageType' /\ SendOK' BY <1>1, StorageStands, SendStands DEF OpenNew
<1> QED BY <1>3, <1>4, PartsOfCompose, PTL

LEMMA OpenReplyOK ==
    ASSUME ComposeInv, NEW t \in Threads, OpenReply(t)
    PROVE  ComposeInv'
<1>1. FormOK /\ StorageType /\ SendOK BY PartsOfCompose
<1>2. edits' \in 0 .. MaxEdits BY <1>1, EditCounted DEF OpenReply, FormOK
<1> DEFINE q == [panel EXCEPT !.open = TRUE, !.reply = t]
<1>3. panel \in Panel /\ threads \in SUBSET Threads BY <1>1 DEF FormOK, FormType
<1>4. q \in Panel /\ q.open = TRUE /\ q.reply = t BY <1>3 DEF Panel, Thread
<1>5. panel' = ReplyFilled(q, threads) /\ ref' = t BY DEF OpenReply
<1> HIDE DEF q
<1>6. PICK p : p = ReplyFilled(q, threads) OBVIOUS
<1>7. p \in Panel /\ p.open = TRUE /\ p.reply = t BY <1>3, <1>4, <1>6, FilledType
<1>8. panel' = p /\ shown' = Synced(p) /\ Synced(p) \in SUBSET Pieces
  BY <1>5, <1>6, <1>7, <1>3, FilledType DEF OpenReply
<1>9. /\ ref' \in Thread /\ me' \in BOOLEAN /\ threads' \in SUBSET Threads
      /\ signature' \in BOOLEAN
  BY <1>1, <1>5 DEF FormOK, FormType, OpenReply, context, Thread
<1>10. FormOK' BY <1>1, <1>2, <1>5, <1>7, <1>8, <1>9, PanelSet
<1>11. StorageType' /\ SendOK' BY <1>1, StorageStands, SendStands DEF OpenReply
<1> QED BY <1>10, <1>11, PartsOfCompose, PTL

LEMMA OpenForwardOK ==
    ASSUME ComposeInv, NEW t \in Threads, OpenForward(t)
    PROVE  ComposeInv'
<1>1. FormOK /\ StorageType /\ SendOK BY PartsOfCompose
<1>2. edits' \in 0 .. MaxEdits BY <1>1, EditCounted DEF OpenForward, FormOK
<1> DEFINE q == [panel EXCEPT !.open = TRUE, !.forward = t]
<1>3. panel \in Panel /\ threads \in SUBSET Threads BY <1>1 DEF FormOK, FormType
<1>4. q \in Panel /\ q.open = TRUE /\ q.forward = t /\ t # Nothing
  BY <1>3, ComposeAssumption DEF Panel, Thread
<1>5. panel' = ForwardFilled(q, threads) /\ ref' = Nothing BY DEF OpenForward
<1> HIDE DEF q
<1>6. PICK p : p = ForwardFilled(q, threads) OBVIOUS
<1>7. p \in Panel /\ p.open = TRUE /\ p.forward # Nothing BY <1>3, <1>4, <1>6, FilledType
<1>8. panel' = p /\ shown' = Synced(p) /\ Synced(p) \in SUBSET Pieces
  BY <1>5, <1>6, <1>7, <1>3, FilledType DEF OpenForward
<1>9. /\ ref' \in Thread /\ me' \in BOOLEAN /\ threads' \in SUBSET Threads
      /\ signature' \in BOOLEAN
  BY <1>1, <1>5 DEF FormOK, FormType, OpenForward, context, Thread
<1>10. FormOK' BY <1>1, <1>2, <1>7, <1>8, <1>9, PanelSet
<1>11. StorageType' /\ SendOK' BY <1>1, StorageStands, SendStands DEF OpenForward
<1> QED BY <1>10, <1>11, PartsOfCompose, PTL

LEMMA RefreshOK ==
    ASSUME ComposeInv, NEW ts \in SUBSET Threads, Refresh(ts)
    PROVE  ComposeInv'
<1>1. FormOK /\ StorageType /\ SendOK BY PartsOfCompose
<1>2. /\ panel \in Panel /\ shown \in SUBSET Pieces /\ ref \in Thread
      /\ me \in BOOLEAN /\ signature \in BOOLEAN /\ edits \in 0 .. MaxEdits
  BY <1>1 DEF FormOK, FormType
<1> DEFINE q == ReplyFilled(panel, ts)
<1>3. q \in Panel /\ q.open = panel.open /\ q.reply = panel.reply /\ q.forward = panel.forward
  BY <1>2, FilledType
<1>4. panel' = ForwardFilled(q, ts) BY DEF Refresh
<1> HIDE DEF q
<1>5. PICK p : p = ForwardFilled(q, ts) OBVIOUS
<1>6. p \in Panel /\ p.open = panel.open /\ p.reply = panel.reply /\ p.forward = panel.forward
  BY <1>3, <1>5, FilledType
<1>7. panel' = p BY <1>4, <1>5
<1>8. Synced(p) \in SUBSET Pieces BY <1>6, FilledType
<1>9. PICK s \in SUBSET Pieces : s = shown'
  <2>1. shown' = Synced(p) \/ shown' = shown BY <1>7 DEF Refresh
  <2> QED BY <1>2, <1>8, <2>1
<1>10. /\ threads' \in SUBSET Threads /\ me' \in BOOLEAN /\ signature' \in BOOLEAN
       /\ edits' \in 0 .. MaxEdits
  BY <1>2 DEF Refresh
<1>11. ref' = IF panel.forward \in ts THEN Nothing
              ELSE IF panel.reply \in ts THEN panel.reply ELSE ref
  BY DEF Refresh
<1>12. ref' \in Thread BY <1>2, <1>11 DEF Thread
<1>13. ~p.open => p.reply = Nothing /\ p.forward = Nothing BY <1>1, <1>6 DEF FormOK, FormRefers
<1>14. p.reply # Nothing /\ p.forward = Nothing => ref' = p.reply
  <2>1. Nothing \notin ts BY ComposeAssumption
  <2> QED BY <1>1, <1>6, <1>11, <2>1 DEF FormOK, FormRefers
<1>15. FormOK' BY <1>1, <1>6, <1>7, <1>9, <1>10, <1>12, <1>13, <1>14, PanelSet
<1>16. StorageType' /\ SendOK' BY <1>1, StorageStands, SendStands DEF Refresh
<1> QED BY <1>15, <1>16, PartsOfCompose, PTL

\* Fields of the panel that say nothing of what it answers.
LEMMA FieldsOK ==
    ASSUME FormOK, NEW p \in Panel, panel' = p,
           p.open = panel.open, p.reply = panel.reply, p.forward = panel.forward,
           shown' \in SUBSET Pieces, ref' = ref, edits' \in 0 .. MaxEdits, UNCHANGED context
    PROVE  FormOK'
<1>1. /\ ref' \in Thread /\ me' \in BOOLEAN /\ threads' \in SUBSET Threads /\ signature' \in BOOLEAN
      /\ ~p.open => p.reply = Nothing /\ p.forward = Nothing
      /\ p.reply # Nothing /\ p.forward = Nothing => ref' = p.reply
  BY DEF FormOK, FormType, FormRefers, context
<1> QED BY <1>1, PanelSet

LEMMA ShownOK ==
    ASSUME FormOK, NEW s \in SUBSET Pieces, panel' = [panel EXCEPT !.text = s], shown' = s,
           ref' = ref, edits' \in 0 .. MaxEdits, UNCHANGED context
    PROVE  FormOK'
<1> DEFINE p == [panel EXCEPT !.text = s]
<1>1. p \in Panel /\ p.open = panel.open /\ p.reply = panel.reply /\ p.forward = panel.forward
  BY DEF FormOK, FormType, Panel
<1> QED BY <1>1, FieldsOK

LEMMA TypeWordOK ==
    ASSUME ComposeInv, NEW w \in Words, Type(w)
    PROVE  ComposeInv'
<1>1. FormOK /\ StorageType /\ SendOK BY PartsOfCompose
<1>2. edits' \in 0 .. MaxEdits BY <1>1, EditCounted DEF Type, FormOK
<1>3. shown \cup {w} \in SUBSET Pieces BY <1>1 DEF FormOK, FormType, Pieces
<1>4. panel' = [panel EXCEPT !.text = shown \cup {w}] /\ shown' = shown \cup {w} BY DEF Type
<1>5. FormOK' BY <1>1, <1>2, <1>3, <1>4, ShownOK DEF Type
<1>6. StorageType' /\ SendOK' BY <1>1, StorageStands, SendStands DEF Type
<1> QED BY <1>5, <1>6, PartsOfCompose, PTL

LEMMA EraseOK ==
    ASSUME ComposeInv, NEW w \in Pieces, Erase(w)
    PROVE  ComposeInv'
<1>1. FormOK /\ StorageType /\ SendOK BY PartsOfCompose
<1>2. edits' \in 0 .. MaxEdits BY <1>1, EditCounted DEF Erase, FormOK
<1>3. shown \ {w} \in SUBSET Pieces BY <1>1 DEF FormOK, FormType
<1>4. panel' = [panel EXCEPT !.text = shown \ {w}] /\ shown' = shown \ {w} BY DEF Erase
<1>5. FormOK' BY <1>1, <1>2, <1>3, <1>4, ShownOK DEF Erase
<1>6. StorageType' /\ SendOK' BY <1>1, StorageStands, SendStands DEF Erase
<1> QED BY <1>5, <1>6, PartsOfCompose, PTL

LEMMA SetToOK ==
    ASSUME ComposeInv, NEW to \in SUBSET (People \ {Me}), SetTo(to)
    PROVE  ComposeInv'
<1>1. FormOK /\ StorageType /\ SendOK BY PartsOfCompose
<1>2. edits' \in 0 .. MaxEdits BY <1>1, EditCounted DEF SetTo, FormOK
<1> DEFINE p == [panel EXCEPT !.to = to]
<1>3. /\ p \in Panel /\ p.open = panel.open /\ p.reply = panel.reply /\ p.forward = panel.forward
      /\ shown \in SUBSET Pieces
  BY <1>1 DEF FormOK, FormType, Panel
<1>4. panel' = p /\ shown' = shown /\ ref' = ref BY DEF SetTo
<1> HIDE DEF p
<1>5. FormOK' BY <1>1, <1>2, <1>3, <1>4, FieldsOK DEF SetTo
<1>6. StorageType' /\ SendOK' BY <1>1, StorageStands, SendStands DEF SetTo
<1> QED BY <1>5, <1>6, PartsOfCompose, PTL

LEMMA ToggleEncryptedOK ==
    ASSUME ComposeInv, ToggleEncrypted
    PROVE  ComposeInv'
<1>1. FormOK /\ StorageType /\ SendOK BY PartsOfCompose
<1>2. edits' \in 0 .. MaxEdits BY <1>1, EditCounted DEF ToggleEncrypted, FormOK
<1> DEFINE p == [panel EXCEPT !.encrypted = ~@]
<1>3. /\ p \in Panel /\ p.open = panel.open /\ p.reply = panel.reply /\ p.forward = panel.forward
      /\ shown \in SUBSET Pieces
  BY <1>1 DEF FormOK, FormType, Panel
<1>4. panel' = p /\ shown' = shown /\ ref' = ref BY DEF ToggleEncrypted
<1> HIDE DEF p
<1>5. FormOK' BY <1>1, <1>2, <1>3, <1>4, FieldsOK DEF ToggleEncrypted
<1>6. StorageType' /\ SendOK' BY <1>1, StorageStands, SendStands DEF ToggleEncrypted
<1> QED BY <1>5, <1>6, PartsOfCompose, PTL

LEMMA SetSignatureOK ==
    ASSUME ComposeInv, NEW s \in BOOLEAN, SetSignature(s)
    PROVE  ComposeInv'
<1>1. FormOK /\ StorageType /\ SendOK BY PartsOfCompose
<1>2. edits' \in 0 .. MaxEdits BY <1>1, EditCounted DEF SetSignature, FormOK
<1>3. FormOK' BY <1>1, <1>2 DEF SetSignature, FormOK, FormType, FormRefers
<1>4. StorageType' /\ SendOK' BY <1>1, StorageStands, SendStands DEF SetSignature
<1> QED BY <1>3, <1>4, PartsOfCompose, PTL

LEMMA MinimizeOK ==
    ASSUME ComposeInv, Minimize \/ Expand
    PROVE  ComposeInv'
<1>1. FormOK /\ StorageType /\ SendOK BY PartsOfCompose
<1>2. edits' \in 0 .. MaxEdits BY <1>1, EditCounted DEF Minimize, Expand, FormOK
<1>3. PICK b \in BOOLEAN : panel' = [panel EXCEPT !.minimized = b] BY DEF Minimize, Expand
<1> DEFINE p == [panel EXCEPT !.minimized = b]
<1>4. p \in Panel /\ p.open = panel.open /\ p.reply = panel.reply /\ p.forward = panel.forward
  BY <1>1 DEF FormOK, FormType, Panel
<1>5. panel' = p /\ shown' = {} /\ ref' = ref /\ UNCHANGED context BY <1>3 DEF Minimize, Expand
<1> HIDE DEF p
<1>6. FormOK' BY <1>1, <1>2, <1>4, <1>5, FieldsOK
<1>7. StorageType' /\ SendOK' BY <1>1, StorageStands, SendStands DEF Minimize, Expand
<1> QED BY <1>6, <1>7, PartsOfCompose, PTL

\* The panel closes.
LEMMA ClosedOK ==
    ASSUME FormOK, panel' = Cleared(panel), shown' = {}, ref' = ref,
           edits' \in 0 .. MaxEdits, UNCHANGED context
    PROVE  FormOK'
<1>1. panel.minimized \in BOOLEAN /\ panel.encrypted \in BOOLEAN BY DEF FormOK, FormType, Panel
<1>2. PICK p : p = Cleared(panel) OBVIOUS
<1>3. p \in Panel /\ p.reply = Nothing /\ p.forward = Nothing BY <1>1, <1>2, ClearedType
<1>4. ref' \in Thread /\ me' \in BOOLEAN /\ threads' \in SUBSET Threads /\ signature' \in BOOLEAN
  BY DEF FormOK, FormType, context
<1> QED BY <1>2, <1>3, <1>4, PanelSet

LEMMA CloseOK ==
    ASSUME ComposeInv, Close
    PROVE  ComposeInv'
<1>1. FormOK /\ StorageType /\ SendOK BY PartsOfCompose
<1>2. edits' \in 0 .. MaxEdits BY <1>1, EditCounted DEF Close, FormOK
<1>3. FormOK' BY <1>1, <1>2, ClosedOK DEF Close
<1>4. calls' \in SUBSET Call
  <2>1. panel.draft \in Draft /\ calls \in SUBSET Call
    BY <1>1 DEF FormOK, FormType, Panel, StorageType
  <2>2. [kind |-> IF panel.draft = Nothing THEN "create" ELSE "update", draft |-> panel.draft] \in Call
    BY <2>1 DEF Call
  <2> QED BY <2>1, <2>2 DEF Close
<1>5. StorageType' BY <1>1, <1>4 DEF Close, StorageType
<1>6. SendOK' BY <1>1, SendStands DEF Close
<1> QED BY <1>3, <1>5, <1>6, PartsOfCompose, PTL

LEMMA DiscardOK ==
    ASSUME ComposeInv, Discard
    PROVE  ComposeInv'
<1>1. FormOK /\ StorageType /\ SendOK BY PartsOfCompose
<1>2. edits' \in 0 .. MaxEdits BY <1>1, EditCounted DEF Discard, FormOK
<1>3. FormOK' BY <1>1, <1>2, ClosedOK DEF Discard
<1>4. StorageType' /\ SendOK' BY <1>1, StorageStands, SendStands DEF Discard
<1> QED BY <1>3, <1>4, PartsOfCompose, PTL

-------------------------------------------------------------------------------
(* The draft requests. *)

LEMMA DraftCreatedOK ==
    ASSUME ComposeInv, NEW c \in calls, DraftCreated(c)
    PROVE  ComposeInv'
<1>1. FormOK /\ StorageType /\ SendOK BY PartsOfCompose
<1>2. /\ saves' \in 0 .. MaxSaves /\ saves' \in DraftIds
  BY <1>1, ComposeAssumption DEF DraftCreated, StorageType, DraftIds
<1>3. StorageType' BY <1>1, <1>2 DEF DraftCreated, StorageType
<1>4. shown' = shown /\ ref' = ref /\ edits' = edits /\ UNCHANGED context BY DEF DraftCreated
<1>5. /\ panel \in Panel /\ shown \in SUBSET Pieces /\ edits \in 0 .. MaxEdits
  BY <1>1 DEF FormOK, FormType
<1>6. PICK d : d = saves' OBVIOUS
<1> DEFINE p == [panel EXCEPT !.draft = d]
<1>7. p \in Panel /\ p.open = panel.open /\ p.reply = panel.reply /\ p.forward = panel.forward
  BY <1>2, <1>5, <1>6 DEF Panel, Draft
<1>8. panel' = panel \/ panel' = p BY <1>6 DEF DraftCreated
<1> HIDE DEF p
<1>9. FormOK' BY <1>1, <1>4, <1>5, <1>7, <1>8, FieldsOK
<1>10. SendOK' BY <1>1, SendStands DEF DraftCreated
<1> QED BY <1>3, <1>9, <1>10, PartsOfCompose, PTL

LEMMA DraftEndsOK ==
    ASSUME ComposeInv, NEW c \in calls, DraftUpdated(c) \/ DraftDeleted(c) \/ DraftCallFails(c)
    PROVE  ComposeInv'
<1>1. FormOK /\ StorageType /\ SendOK BY PartsOfCompose
<1>2. StorageType' BY <1>1 DEF DraftUpdated, DraftDeleted, DraftCallFails, StorageType
<1>3. FormOK' BY <1>1, FormStands DEF DraftUpdated, DraftDeleted, DraftCallFails
<1>4. SendOK' BY <1>1, SendStands DEF DraftUpdated, DraftDeleted, DraftCallFails
<1> QED BY <1>2, <1>3, <1>4, PartsOfCompose, PTL

-------------------------------------------------------------------------------
(* Sending. *)

\* A message that was composed stays so when more clicks are recorded, none is undone
\* that it comes from, and clicks are found to overlap.
LEMMA ComposedStays ==
    ASSUME SendType, NEW m, Composed(m), clicks <= clicks', clicks' \in Nat,
           \A n \in 1 .. clicks : snapshot'[n] = snapshot[n],
           m.by \notin undone', overlap \subseteq overlap'
    PROVE  Composed(m)'
<1>1. clicks \in Nat BY ComposeAssumption DEF SendType
<1>2. m.n \in 1 .. clicks /\ m.by \in 1 .. clicks /\ snapshot'[m.n] = snapshot[m.n] BY DEF Composed
<1>3. m.n \in 1 .. clicks' /\ m.by \in 1 .. clicks' BY <1>1, <1>2
<1> QED BY <1>2, <1>3 DEF Composed

LEMMA SendClickOK ==
    ASSUME ComposeInv, Send
    PROVE  ComposeInv'
<1>1. FormOK /\ StorageType /\ SendOK BY PartsOfCompose
<1>2. /\ panel \in Panel /\ ref \in Thread /\ edits \in 0 .. MaxEdits
      /\ panel.to # {}
  BY <1>1 DEF FormOK, FormType, Send, SendEnabled
<1>3. FormOK' BY <1>1, <1>2, ClosedOK DEF Send
<1>4. StorageType' BY <1>1, StorageStands DEF Send
<1> DEFINE s == StateNow
<1>5. /\ s \in Snapshot /\ s.to # {}
      /\ s.answers # Nothing => s.ref = s.answers
  <2>1. s \in Snapshot /\ s.to = panel.to /\ s.ref = ref
    BY <1>2 DEF StateNow, Snapshot, Panel, Thread
  <2>2. s.answers = IF panel.forward = Nothing THEN panel.reply ELSE Nothing BY DEF StateNow
  <2> QED BY <1>1, <1>2, <2>1, <2>2 DEF FormOK, FormRefers
<1> HIDE DEF s
<1>6. PICK k \in Nat : k = clicks BY <1>1, ComposeAssumption DEF SendOK, SendType
<1>7. /\ snapshot \in Seq(Snapshot) /\ Len(snapshot) = k
      /\ snapshot' = Append(snapshot, s)
  BY <1>1, <1>6 DEF SendOK, SendType, Send, Recorded, s
<1>8. /\ snapshot' \in Seq(Snapshot) /\ Len(snapshot') = k + 1
      /\ snapshot'[k + 1] = s
      /\ \A n \in 1 .. k : snapshot'[n] = snapshot[n]
  BY <1>5, <1>6, <1>7
<1>9. /\ clicks' = k + 1 /\ pending' = k + 1 /\ timers' = timers \cup {k + 1}
      /\ timer' = k + 1 /\ toast' = TRUE /\ undone' = undone
      /\ jobs' = jobs /\ posted' = posted
  BY <1>6 DEF Send, sending
<1> DEFINE others == timers \cup {j.by : j \in jobs}
<1>10. overlap' = IF others = {} THEN overlap ELSE overlap \cup others \cup {k + 1} BY <1>6 DEF Send
<1>11. /\ timers \in SUBSET (1 .. k) /\ undone \in SUBSET (1 .. k) /\ overlap \in SUBSET (1 .. k)
       /\ jobs \in SUBSET Message /\ posted \in SUBSET Message
       /\ \A m \in jobs \cup posted : Composed(m) /\ m.by \in 1 .. k
  BY <1>1, <1>6 DEF SendOK, SendType, Composed
<1>12. others \in SUBSET (1 .. k) BY <1>11
<1> HIDE DEF others
<1>13. clicks' \in 0 .. MaxSends
  <2>1. k < MaxSends /\ MaxSends \in Nat BY <1>6, ComposeAssumption DEF Send
  <2> QED BY <1>6, <1>9, <2>1
<1>14. 1 .. k \subseteq 1 .. (k + 1) /\ k + 1 \in 1 .. (k + 1) /\ k + 1 \notin 1 .. k BY <1>6
<1>15. SendType'
  <2>1. overlap' \in SUBSET (1 .. (k + 1)) BY <1>10, <1>11, <1>12, <1>14
  <2> QED BY <1>8, <1>9, <1>11, <1>13, <1>14, <2>1 DEF SendType
<1>16. SnapshotsRefer'
  <2> SUFFICES ASSUME NEW n \in 1 .. (k + 1)
               PROVE  /\ snapshot'[n].to # {}
                      /\ snapshot'[n].answers # Nothing => snapshot'[n].ref = snapshot'[n].answers
    BY <1>9 DEF SnapshotsRefer
  <2>1. CASE n = k + 1 BY <1>5, <1>8, <2>1
  <2>2. CASE n # k + 1
    <3>1. n \in 1 .. k BY <1>6, <2>2
    <3> QED BY <1>1, <1>6, <1>8, <3>1 DEF SendOK, SnapshotsRefer
  <2> QED BY <2>1, <2>2
<1>17. TimersOK'
  <2>1. timers' \cap undone' = {} BY <1>1, <1>9, <1>11, <1>14 DEF SendOK, TimersOK
  <2>2. \A n \in timers' \ overlap' : pending' \in {n, Nothing}
    <3>1. CASE others = {}
      <4>1. timers = {} BY <3>1 DEF others
      <4> QED BY <1>9, <4>1
    <3>2. CASE others # {}
      <4>1. timers' \subseteq overlap' BY <1>9, <1>10, <3>2 DEF others
      <4> QED BY <4>1
    <3> QED BY <3>1, <3>2
  <2>3. timer' \in 1 .. clicks' /\ \A m \in jobs' \cup posted' : m.by # timer' BY <1>9, <1>11, <1>14
  <2> QED BY <2>1, <2>2, <2>3 DEF TimersOK
<1>18. ASSUME NEW m \in jobs' \cup posted' PROVE Composed(m)'
  <2>1. m \in jobs \cup posted /\ Composed(m) BY <1>9, <1>11
  <2>2. m.by \notin undone' /\ overlap \subseteq overlap' BY <1>9, <1>10, <2>1 DEF Composed
  <2>3. SendType /\ clicks <= clicks' /\ clicks' \in Nat BY <1>1, <1>6, <1>9 DEF SendOK
  <2> QED BY <1>6, <1>8, <2>1, <2>2, <2>3, ComposedStays
<1>19. SendOK' BY <1>15, <1>16, <1>17, <1>18 DEF SendOK
<1> QED BY <1>3, <1>4, <1>19, PartsOfCompose, PTL

LEMMA UndoOK ==
    ASSUME ComposeInv, Undo
    PROVE  ComposeInv'
<1>1. FormOK /\ StorageType /\ SendOK BY PartsOfCompose
<1>2. edits' = edits /\ edits \in 0 .. MaxEdits /\ UNCHANGED <<ref, context>>
  BY <1>1 DEF Undo, FormOK, FormType
<1>3. FormOK'
  <2>1. CASE panel.open
    <3>1. UNCHANGED <<form, context>> BY <2>1 DEF Undo, form
    <3> QED BY <1>1, <3>1, FormStands
  <2>2. CASE ~panel.open BY <1>1, <1>2, <2>2, OpensOK DEF Undo
  <2> QED BY <2>1, <2>2
<1>4. StorageType' BY <1>1, StorageStands DEF Undo
<1>5. /\ toast /\ timers' = timers \ {timer} /\ undone' = undone \cup {timer} /\ toast' = FALSE
      /\ clicks' = clicks /\ snapshot' = snapshot /\ pending' = pending /\ timer' = timer
      /\ overlap' = overlap /\ jobs' = jobs /\ posted' = posted
  BY DEF Undo, sending
<1>6. timer \in 1 .. clicks /\ \A m \in jobs \cup posted : m.by # timer
  BY <1>1, <1>5 DEF SendOK, TimersOK
<1>7. SendType' BY <1>1, <1>5, <1>6 DEF SendOK, SendType
<1>8. SnapshotsRefer' BY <1>1, <1>5 DEF SendOK, SnapshotsRefer
<1>9. TimersOK' BY <1>1, <1>5 DEF SendOK, TimersOK
<1>10. ASSUME NEW m \in jobs' \cup posted' PROVE Composed(m)'
  <2>1. m \in jobs \cup posted /\ Composed(m) BY <1>1, <1>5 DEF SendOK
  <2>2. m.by \notin undone' /\ overlap \subseteq overlap' BY <1>5, <1>6, <2>1 DEF Composed
  <2>3. SendType /\ clicks <= clicks' /\ clicks' \in Nat
    BY <1>1, <1>5, ComposeAssumption DEF SendOK, SendType
  <2> QED BY <1>5, <2>1, <2>2, <2>3, ComposedStays
<1>11. SendOK' BY <1>7, <1>8, <1>9, <1>10 DEF SendOK
<1> QED BY <1>3, <1>4, <1>11, PartsOfCompose, PTL

LEMMA ToastReplacedOK ==
    ASSUME ComposeInv, ToastReplaced
    PROVE  ComposeInv'
<1>1. FormOK /\ StorageType /\ SendOK BY PartsOfCompose
<1>2. FormOK' /\ StorageType' BY <1>1, FormStands, StorageStands DEF ToastReplaced
<1>3. /\ toast' = FALSE /\ timers' = timers /\ undone' = undone
      /\ clicks' = clicks /\ snapshot' = snapshot /\ pending' = pending /\ timer' = timer
      /\ overlap' = overlap /\ jobs' = jobs /\ posted' = posted
  BY DEF ToastReplaced, sending
<1>4. SendOK' BY <1>1, <1>3 DEF SendOK, SendType, SnapshotsRefer, TimersOK, Composed
<1> QED BY <1>2, <1>4, PartsOfCompose, PTL

LEMMA TimerFiresOK ==
    ASSUME ComposeInv, NEW n \in timers, TimerFires(n)
    PROVE  ComposeInv'
<1>1. FormOK /\ StorageType /\ SendOK BY PartsOfCompose
<1>2. /\ clicks \in 0 .. MaxSends /\ snapshot \in Seq(Snapshot) /\ Len(snapshot) = clicks
      /\ pending \in (1 .. clicks) \cup {Nothing} /\ timers \in SUBSET (1 .. clicks)
      /\ jobs \in SUBSET Message /\ posted \in SUBSET Message /\ ref \in Thread
      /\ clicks \in Nat
  BY <1>1, ComposeAssumption DEF SendOK, SendType, FormOK, FormType
<1>3. PICK o \in 1 .. clicks : o = Origin(n) BY <1>2 DEF Origin, OrElse
<1>4. o = n \/ (pending = o /\ pending # Nothing) BY <1>3 DEF Origin, OrElse
<1>5. PICK s \in Snapshot : s = snapshot[o] BY <1>2
<1>6. PICK t \in Snapshot : t = snapshot[n] BY <1>2
<1> DEFINE r == Resolved(n)
           j == [by |-> n, n |-> o, to |-> r.to, text |-> r.text,
                 encrypted |-> r.encrypted, ref |-> r.ref, keys |-> {}]
<1>7. r = [to |-> s.to, text |-> s.text, encrypted |-> s.encrypted,
           draft |-> OrElse(s.draft, t.draft), ref |-> OrElse(s.ref, ref)]
  BY <1>3, <1>5, <1>6 DEF Resolved
<1>8. /\ s.to \in SUBSET People /\ s.text \in SUBSET Pieces /\ s.encrypted \in BOOLEAN
      /\ s.draft \in Draft /\ t.draft \in Draft /\ s.ref \in Thread
  BY DEF Snapshot
<1>9. /\ r.to = s.to /\ r.text = s.text /\ r.encrypted = s.encrypted
      /\ r.draft \in Draft /\ r.ref \in Thread
      /\ s.ref # Nothing => r.ref = s.ref
  BY <1>2, <1>7, <1>8 DEF OrElse
<1>10. /\ calls' = IF r.draft = Nothing THEN calls
                   ELSE calls \cup {[kind |-> "delete", draft |-> r.draft]}
       /\ jobs' = jobs \cup {j}
  BY <1>3 DEF TimerFires
<1>11. /\ timers' = timers \ {n} /\ toast' = FALSE
       /\ clicks' = clicks /\ snapshot' = snapshot /\ pending' = pending /\ timer' = timer
       /\ undone' = undone /\ overlap' = overlap /\ posted' = posted
       /\ drafts' = drafts /\ saves' = saves
       /\ UNCHANGED <<form, context>>
  BY DEF TimerFires
<1> HIDE DEF r
<1>12. j \in Message
  <2>1. n \in Clicks /\ o \in Clicks
    <3>1. MaxSends \in Nat BY ComposeAssumption
    <3> QED BY <1>2, <3>1 DEF Clicks
  <2> QED BY <1>8, <1>9, <2>1 DEF Message
<1>13. FormOK' BY <1>1, <1>11, FormStands
<1>14. StorageType'
  <2>1. [kind |-> "delete", draft |-> r.draft] \in Call BY <1>9 DEF Call
  <2> QED BY <1>1, <1>10, <1>11, <2>1 DEF StorageType
<1>15. SendType'
  <2>1. jobs' \in SUBSET Message /\ posted' \in SUBSET Message BY <1>2, <1>10, <1>11, <1>12
  <2> QED BY <1>1, <1>11, <2>1 DEF SendOK, SendType
<1>16. SnapshotsRefer' BY <1>1, <1>11 DEF SendOK, SnapshotsRefer
<1>17. TimersOK' BY <1>1, <1>11 DEF SendOK, TimersOK
<1>18. /\ j.by = n /\ j.n = o /\ j.to = s.to /\ j.text = s.text /\ j.encrypted = s.encrypted
       /\ j.keys = {} /\ j.ref = r.ref
  BY <1>9
<1> HIDE DEF j
<1>19. Composed(j)
  <2>1. s.to # {} /\ (s.answers # Nothing => s.ref = s.answers)
    BY <1>1, <1>5 DEF SendOK, SnapshotsRefer
  <2>2. n \in 1 .. clicks /\ n \notin undone BY <1>1, <1>2 DEF SendOK, TimersOK
  <2>3. n \notin overlap => o = n BY <1>1, <1>4 DEF SendOK, TimersOK
  <2>4. s.answers # Nothing => r.ref = s.answers BY <1>9, <2>1
  <2> QED BY <1>5, <1>18, <2>1, <2>2, <2>3, <2>4 DEF Composed
<1>20. ASSUME NEW m \in jobs' \cup posted' PROVE Composed(m)'
  <2>1. Composed(m) BY <1>1, <1>10, <1>11, <1>19 DEF SendOK
  <2> QED BY <1>11, <2>1 DEF Composed
<1>21. SendOK' BY <1>15, <1>16, <1>17, <1>20 DEF SendOK
<1> QED BY <1>13, <1>14, <1>21, PartsOfCompose, PTL

LEMMA SendEndsOK ==
    ASSUME ComposeInv, NEW j \in jobs, SendEnds(j)
    PROVE  ComposeInv'
<1>1. FormOK /\ StorageType /\ SendOK BY PartsOfCompose
<1>2. FormOK' /\ StorageType' BY <1>1, FormStands, StorageStands DEF SendEnds
<1>3. /\ jobs' = jobs \ {j} /\ pending' = Nothing /\ toast' = FALSE
      /\ clicks' = clicks /\ snapshot' = snapshot /\ timers' = timers /\ timer' = timer
      /\ undone' = undone /\ overlap' = overlap
  BY DEF SendEnds
<1>4. j \in Message /\ Composed(j) /\ jobs \in SUBSET Message /\ posted \in SUBSET Message
  BY <1>1 DEF SendOK, SendType
<1>5. /\ posted' \in SUBSET Message
      /\ \A m \in posted' : Composed(m)
  <2>1. CASE posted' = posted BY <1>1, <1>4, <2>1 DEF SendOK
  <2>2. CASE \E keys \in KeysFor(j) : posted' = posted \cup {[j EXCEPT !.keys = keys]}
    <3>1. PICK keys \in KeysFor(j) : posted' = posted \cup {[j EXCEPT !.keys = keys]} BY <2>2
    <3>2. j.to \in SUBSET People /\ j.to = snapshot[j.n].to BY <1>4 DEF Message, Composed
    <3>3. keys \in SUBSET People /\ keys \subseteq snapshot[j.n].to \cup {Me}
      BY <3>2, ComposeAssumption DEF KeysFor
    <3> DEFINE m == [j EXCEPT !.keys = keys]
    <3>4. /\ m \in Message /\ m.by = j.by /\ m.n = j.n /\ m.to = j.to /\ m.text = j.text
          /\ m.encrypted = j.encrypted /\ m.ref = j.ref /\ m.keys = keys
      BY <1>4, <3>3 DEF Message
    <3> HIDE DEF m
    <3>5. Composed(m) BY <1>4, <3>3, <3>4 DEF Composed
    <3>6. posted' = posted \cup {m} BY <3>1 DEF m
    <3> QED BY <1>1, <1>4, <3>4, <3>5, <3>6 DEF SendOK
  <2> QED BY <2>1, <2>2 DEF SendEnds
<1>6. SendType' BY <1>1, <1>3, <1>4, <1>5 DEF SendOK, SendType
<1>7. SnapshotsRefer' BY <1>1, <1>3 DEF SendOK, SnapshotsRefer
<1>8. TimersOK' BY <1>1, <1>3 DEF SendOK, TimersOK
<1>9. ASSUME NEW m \in jobs' \cup posted' PROVE Composed(m)'
  <2>1. Composed(m) BY <1>1, <1>3, <1>5 DEF SendOK
  <2> QED BY <1>3, <2>1 DEF Composed
<1>10. SendOK' BY <1>6, <1>7, <1>8, <1>9 DEF SendOK
<1> QED BY <1>2, <1>10, PartsOfCompose, PTL

-------------------------------------------------------------------------------
(* The theorems. *)

LEMMA ComposeInitOK == ComposeInit => ComposeInv
<1> SUFFICES ASSUME ComposeInit PROVE ComposeInv OBVIOUS
<1> DEFINE p == [minimized |-> FALSE, encrypted |-> TRUE]
<1>1. p.minimized \in BOOLEAN /\ p.encrypted \in BOOLEAN /\ panel = Cleared(p) BY DEF ComposeInit
<1> HIDE DEF p
<1>2. panel \in Panel /\ panel.reply = Nothing /\ panel.forward = Nothing BY <1>1, ClearedType
<1>3. FormOK
  <2>1. /\ shown \in SUBSET Pieces /\ ref \in Thread /\ me \in BOOLEAN
        /\ signature \in BOOLEAN /\ edits = 0
    BY DEF ComposeInit, Thread
  <2>2. threads \in SUBSET Threads BY DEF ComposeInit
  <2>3. 0 \in 0 .. MaxEdits BY ComposeAssumption
  <2> QED BY <1>2, <2>1, <2>2, <2>3 DEF FormOK, FormType, FormRefers
<1>4. StorageType BY ComposeAssumption DEF ComposeInit, StorageType
<1>5. SendOK
  <2>1. 1 .. 0 = {} OBVIOUS
  <2>2. SendType
    <3>1. clicks \in 0 .. MaxSends /\ clicks = 0 BY ComposeAssumption DEF ComposeInit
    <3>2. snapshot \in Seq(Snapshot) /\ Len(snapshot) = 0 BY DEF ComposeInit
    <3>3. /\ pending = Nothing /\ timers = {} /\ timer = Nothing /\ toast = FALSE
          /\ jobs = {} /\ posted = {} /\ undone = {} /\ overlap = {}
      BY DEF ComposeInit
    <3> QED BY <3>1, <3>2, <3>3 DEF SendType
  <2>3. SnapshotsRefer BY <2>1 DEF ComposeInit, SnapshotsRefer
  <2>4. TimersOK BY DEF ComposeInit, TimersOK
  <2> QED BY <2>2, <2>3, <2>4 DEF ComposeInit, SendOK
<1> QED BY <1>3, <1>4, <1>5, PartsOfCompose

LEMMA ComposeNextOK == ComposeInv /\ [ComposeNext]_composeVars => ComposeInv'
<1> SUFFICES ASSUME ComposeInv, [ComposeNext]_composeVars PROVE ComposeInv' OBVIOUS
<1>1. CASE ComposeNext
  <2>1. CASE AccountArrives \/ OpenNew BY <2>1, AccountArrivesOK, OpenNewOK
  <2>2. CASE \E t \in Threads : OpenReply(t) \/ OpenForward(t) BY <2>2, OpenReplyOK, OpenForwardOK
  <2>3. CASE \E ts \in SUBSET Threads : Refresh(ts) BY <2>3, RefreshOK
  <2>4. CASE \E w \in Words : Type(w) BY <2>4, TypeWordOK
  <2>5. CASE \E w \in Pieces : Erase(w) BY <2>5, EraseOK
  <2>6. CASE \E to \in SUBSET (People \ {Me}) : SetTo(to) BY <2>6, SetToOK
  <2>7. CASE ToggleEncrypted \/ (\E s \in BOOLEAN : SetSignature(s)) \/ Minimize \/ Expand
    BY <2>7, ToggleEncryptedOK, SetSignatureOK, MinimizeOK
  <2>8. CASE Close \/ Discard BY <2>8, CloseOK, DiscardOK
  <2>9. CASE \E c \in calls : DraftCreated(c) \/ DraftUpdated(c) \/ DraftDeleted(c)
                               \/ DraftCallFails(c)
    BY <2>9, DraftCreatedOK, DraftEndsOK
  <2>10. CASE Send \/ Undo \/ ToastReplaced BY <2>10, SendClickOK, UndoOK, ToastReplacedOK
  <2>11. CASE \E n \in timers : TimerFires(n) BY <2>11, TimerFiresOK
  <2>12. CASE \E j \in jobs : SendEnds(j) BY <2>12, SendEndsOK
  <2> QED
    BY <1>1, <2>1, <2>2, <2>3, <2>4, <2>5, <2>6, <2>7, <2>8, <2>9, <2>10, <2>11, <2>12 DEF ComposeNext
<1>2. CASE UNCHANGED composeVars
  <2>1. UNCHANGED <<form, context>> /\ UNCHANGED storage /\ UNCHANGED <<waiting, sending>>
    BY <1>2 DEF composeVars, form, context, storage, waiting, sending
  <2>2. FormOK /\ StorageType /\ SendOK BY PartsOfCompose
  <2>3. FormOK' /\ StorageType' /\ SendOK' BY <2>1, <2>2, FormStands, StorageStands, SendStands
  <2> QED BY <2>3, PartsOfCompose, PTL
<1> QED BY <1>1, <1>2

\* However writing, reloads, drafts, sends, their timers and Undo interleave, the form,
\* the clicks on Send and the messages under way agree.
THEOREM ComposeInvariant == ComposeSpec => []ComposeInv
BY ComposeInitOK, ComposeNextOK, PTL DEF ComposeSpec

\* The variables keep their types.
THEOREM ComposeTypes == ComposeSpec => []ComposeTypeOK
<1>1. ComposeInv => ComposeTypeOK BY DEF ComposeInv
<1> QED BY <1>1, ComposeInvariant, PTL

\* A message that is posted is that of one click on Send, of its own unless it overlaps
\* another, of none that was undone, and an answer to what it was composed as one to.
THEOREM SentAsComposed == ComposeSpec => []SentIsComposed
<1>1. ComposeInv => SentIsComposed
  BY DEF ComposeInv, MessagesOK, SentIsComposed, SentExact, AnswersRefer
<1> QED BY <1>1, ComposeInvariant, PTL

\* Nothing that happens by itself changes a message that answers and forwards nothing.
THEOREM WritingIsKept == ComposeSpec => WrittenIsKept
<1> DEFINE Kept == Background /\ panel.reply = Nothing /\ panel.forward = Nothing =>
                     panel'.to = panel.to /\ panel'.text = panel.text /\ shown' = shown
<1>1. ComposeInv /\ [ComposeNext]_composeVars => [Kept]_composeVars
  <2> SUFFICES ASSUME ComposeInv, Background, panel.reply = Nothing, panel.forward = Nothing
               PROVE  panel'.to = panel.to /\ panel'.text = panel.text /\ shown' = shown
    OBVIOUS
  <2>1. panel \in Panel BY DEF ComposeInv, ComposeTypeOK
  <2>2. CASE AccountArrives BY <2>2 DEF AccountArrives, form
  <2>3. CASE \E ts \in SUBSET Threads : Refresh(ts)
    <3>1. PICK ts \in SUBSET Threads : Refresh(ts) BY <2>3
    <3>2. Nothing \notin ts BY ComposeAssumption
    <3>3. ReplyFilled(panel, ts) = panel /\ ForwardFilled(panel, ts) = panel
      BY <3>2 DEF ReplyFilled, ForwardFilled
    <3> QED BY <3>1, <3>2, <3>3 DEF Refresh
  <2>4. CASE \E c \in calls : DraftCreated(c) \/ DraftUpdated(c) \/ DraftDeleted(c)
                              \/ DraftCallFails(c)
    <3>1. ASSUME NEW d PROVE [panel EXCEPT !.draft = d].to = panel.to
                             /\ [panel EXCEPT !.draft = d].text = panel.text
      BY <2>1 DEF Panel
    <3> QED BY <2>4, <3>1 DEF DraftCreated, DraftUpdated, DraftDeleted, DraftCallFails, form
  <2>5. CASE \E n \in timers : TimerFires(n) BY <2>5 DEF TimerFires, form
  <2>6. CASE \E j \in jobs : SendEnds(j) BY <2>6 DEF SendEnds, form
  <2> QED BY <2>2, <2>3, <2>4, <2>5, <2>6 DEF Background
<1> QED BY <1>1, ComposeInvariant, PTL DEF ComposeSpec, WrittenIsKept
=============================================================================
