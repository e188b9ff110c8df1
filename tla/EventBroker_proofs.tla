------------------------- MODULE EventBroker_proofs --------------------------
(***************************************************************************)
(* The safety of the event broker, for any streams, publishers, capacities *)
(* and numbers of events.                                                  *)
(***************************************************************************)
EXTENDS EventBroker, FiniteSetTheorems, SequenceTheorems, TLAPS

LEMMA PubCases ==
    ASSUME TypeOK, NEW p \in Publishers
    PROVE  \/ pub[p] = Resting
           \/ pub[p].pc = "panic"
           \/ pub[p].pc = "waiting" /\ pub[p].user \in Users
           \/ pub[p].pc = "sending" /\ pub[p].user \in Users /\ pub[p].todo \subseteq Streams
  BY DEF TypeOK, PubStates, Resting

-----------------------------------------------------------------------------
(* Types. *)

LEMMA TypeStep == TypeOK /\ [Next]_vars => TypeOK'
<1> SUFFICES ASSUME TypeOK, [Next]_vars PROVE TypeOK' OBVIOUS
<1> USE EventBrokerAssumption
<1>1. ASSUME NEW s \in Streams, CallSubscribe(s) PROVE TypeOK' BY <1>1 DEF TypeOK, CallSubscribe
<1>2. ASSUME NEW s \in Streams, Subscribe(s) PROVE TypeOK'
  <2>1. UserOf[s] \in Users /\ Subscribed(UserOf[s]) \cup {s} \subseteq Streams
    BY DEF TypeOK, Subscribed
  <2>2. DOMAIN subscribers' \subseteq Users
        /\ \A u \in DOMAIN subscribers' : subscribers'[u] \subseteq Streams
    BY <1>2, <2>1 DEF TypeOK, Subscribe, WithEntry
  <2> QED BY <1>2, <2>2 DEF TypeOK, Subscribe
<1>3. ASSUME NEW s \in Streams, Receive(s) PROVE TypeOK'
  <2>1. /\ Head(buffer[s]) \in Publishers \X Nat
        /\ Tail(buffer[s]) \in Seq(Publishers \X Nat)
        /\ Len(Tail(buffer[s])) <= Capacity
    BY <1>3 DEF TypeOK, Receive
  <2>2. buffer' \in [Streams -> Seq(Publishers \X Nat)]
        /\ \A x \in Streams : Len(buffer'[x]) <= Capacity
    BY <1>3, <2>1 DEF TypeOK, Receive
  <2>3. got' \in [Streams -> Seq(Publishers \X Nat)]
    <3>1. Append(got[s], Head(buffer[s])) \in Seq(Publishers \X Nat)
      BY <2>1, AppendProperties DEF TypeOK
    <3> QED BY <1>3, <3>1 DEF TypeOK, Receive
  <2> QED BY <1>3, <2>2, <2>3 DEF TypeOK, Receive
<1>4. ASSUME NEW s \in Streams, CallUnsubscribe(s) PROVE TypeOK' BY <1>4 DEF TypeOK, CallUnsubscribe
<1>5. ASSUME NEW s \in Streams, Unsubscribe(s) PROVE TypeOK'
  <2>1. UserOf[s] \in Users /\ Subscribed(UserOf[s]) \ {s} \subseteq Streams
    BY DEF TypeOK, Subscribed
  <2>2. DOMAIN subscribers' \subseteq Users
        /\ \A u \in DOMAIN subscribers' : subscribers'[u] \subseteq Streams
    BY <1>5, <2>1 DEF TypeOK, Unsubscribe, WithoutStream, WithEntry, WithoutEntry
  <2> QED BY <1>5, <2>2 DEF TypeOK, Unsubscribe
<1>6. ASSUME NEW p \in Publishers, NEW u \in Users, CallPublish(p, u) PROVE TypeOK'
  <2>1. pub' \in [Publishers -> PubStates] BY <1>6 DEF TypeOK, CallPublish, PubStates
  <2> QED BY <1>6, <2>1 DEF TypeOK, CallPublish
<1>7. ASSUME NEW p \in Publishers, RLock(p) PROVE TypeOK'
  <2>1. pub[p].user \in Users BY <1>7, PubCases DEF RLock, Resting
  <2>2. Subscribed(pub[p].user) \subseteq Streams BY DEF TypeOK, Subscribed
  <2>3. pub' \in [Publishers -> PubStates] BY <1>7, <2>1, <2>2 DEF TypeOK, RLock, PubStates
  <2> QED BY <1>7, <2>3 DEF TypeOK, RLock
<1>8. ASSUME NEW p \in Publishers, NEW s \in Streams, Send(p, s) PROVE TypeOK'
  <2>1. pub[p] \in [pc : {"sending"}, user : Users, todo : SUBSET Streams]
    BY <1>8 DEF TypeOK, Send, PubStates, Resting
  <2>2. pub' \in [Publishers -> PubStates]
    <3> DEFINE q == [pub[p] EXCEPT !.todo = @ \ {s}]
    <3>1. q \in [pc : {"sending"}, user : Users, todo : SUBSET Streams] BY <2>1
    <3>2. q \in PubStates /\ [pc |-> "panic"] \in PubStates BY <3>1 DEF PubStates
    <3>3. pub' = [pub EXCEPT ![p] = [pc |-> "panic"]] \/ pub' = [pub EXCEPT ![p] = q]
      BY <1>8 DEF Send
    <3> HIDE DEF q
    <3> QED BY <3>2, <3>3 DEF TypeOK
  <2>3. Event(p) \in Publishers \X Nat BY DEF TypeOK, Event
  <2>4. /\ buffer' \in [Streams -> Seq(Publishers \X Nat)]
        /\ \A x \in Streams : Len(buffer'[x]) <= Capacity
    <3>1. /\ Append(buffer[s], Event(p)) \in Seq(Publishers \X Nat)
          /\ Len(Append(buffer[s], Event(p))) = Len(buffer[s]) + 1
      BY <2>3, AppendProperties DEF TypeOK
    <3>2. \/ buffer' = buffer
          \/ Len(buffer[s]) < Capacity
             /\ buffer' = [buffer EXCEPT ![s] = Append(buffer[s], Event(p))]
      BY <1>8 DEF Send
    <3>3. buffer \in [Streams -> Seq(Publishers \X Nat)] /\ Len(buffer[s]) \in Nat BY DEF TypeOK
    <3>4. CASE buffer' = buffer BY <3>4 DEF TypeOK
    <3>5. CASE /\ Len(buffer[s]) < Capacity
               /\ buffer' = [buffer EXCEPT ![s] = Append(buffer[s], Event(p))]
      <4>1. Len(Append(buffer[s], Event(p))) <= Capacity BY <3>1, <3>3, <3>5
      <4>2. \A x \in Streams : buffer'[x] = IF x = s THEN Append(buffer[s], Event(p)) ELSE buffer[x]
        BY <3>3, <3>5
      <4> HIDE EventBrokerAssumption
      <4> QED BY <3>1, <3>3, <3>5, <4>1, <4>2 DEF TypeOK
    <3> QED BY <3>2, <3>4, <3>5
  <2>5. lost' \in [Streams -> Nat]
    <3>1. lost \in [Streams -> Nat] BY DEF TypeOK
    <3>2. lost' = lost \/ lost' = [lost EXCEPT ![s] = @ + 1] BY <1>8 DEF Send
    <3> QED BY <3>1, <3>2
  <2> QED BY <1>8, <2>2, <2>4, <2>5 DEF TypeOK, Send
<1>9. ASSUME NEW p \in Publishers, RUnlock(p) PROVE TypeOK'
  <2>1. pub' \in [Publishers -> PubStates] BY <1>9 DEF TypeOK, RUnlock, PubStates
  <2> QED BY <1>9, <2>1 DEF TypeOK, RUnlock
<1>10. CASE UNCHANGED vars BY <1>10 DEF TypeOK, vars
<1>11. ASSUME NEW s \in Streams, Announce(s) PROVE TypeOK' BY <1>11 DEF TypeOK, Announce
<1> QED
  BY <1>1, <1>2, <1>3, <1>4, <1>5, <1>6, <1>7, <1>8, <1>9, <1>10, <1>11 DEF Next, Stream, Publish

LEMMA TypeInit == Init => TypeOK
  BY EventBrokerAssumption DEF Init, TypeOK, PubStates

\* Every variable of the broker keeps its type; no channel ever holds more
\* than its capacity.
THEOREM TypeCorrect == Spec => []TypeOK
  BY TypeInit, TypeStep, PTL DEF Spec

-----------------------------------------------------------------------------
(* The mutex keeps the map, the channels and the publishers together. *)

LEMMA SafetyStep == SafetyInv /\ [Next]_vars => SafetyInv'
<1> SUFFICES ASSUME SafetyInv, [Next]_vars PROVE SafetyInv' OBVIOUS
<1> USE EventBrokerAssumption
<1>t. TypeOK /\ TypeOK' BY TypeStep DEF SafetyInv
<1>m. \A s \in Streams : UserOf[s] \in Users OBVIOUS
\* Publishers that are not reading.
<1>r. \A p \in Publishers : p \notin Readers =>
        pub[p] = Resting \/ pub[p].pc = "panic" \/ pub[p].pc = "waiting"
  BY <1>t, PubCases DEF Readers
<1>1. ASSUME NEW s \in Streams, CallSubscribe(s) PROVE SafetyInv'
  <2>1. NeverPanics' /\ MapIsExact'
    <3>1. subscribers' = subscribers /\ \A u \in Users : Subscribed(u)' = Subscribed(u)
      BY <1>1 DEF CallSubscribe, Subscribed
    <3>2. \A x \in Streams : stream'[x] \in {"on", "leaving", "closing"}
                                <=> stream[x] \in {"on", "leaving", "closing"}
      BY <1>1, <1>t DEF CallSubscribe, TypeOK
    <3>3. NeverPanics' BY <1>1 DEF SafetyInv, CallSubscribe, NeverPanics
    <3> QED BY <3>1, <3>2, <3>3 DEF SafetyInv, MapIsExact
  <2>2. ChannelStates' BY <1>1, <1>t DEF SafetyInv, CallSubscribe, ChannelStates, TypeOK
  <2>3. TodoSubscribed' BY <1>1 DEF SafetyInv, CallSubscribe, TodoSubscribed, Subscribed, Readers
  <2> QED BY <1>t, <2>1, <2>2, <2>3 DEF SafetyInv
<1>2. ASSUME NEW s \in Streams, Subscribe(s) PROVE SafetyInv'
  <2> DEFINE u0 == UserOf[s]
  <2>1. \A u \in Users : Subscribed(u)' = IF u = u0 THEN Subscribed(u0) \cup {s} ELSE Subscribed(u)
    BY <1>2 DEF Subscribe, WithEntry, Subscribed
  <2>2. \A u \in DOMAIN subscribers' : subscribers'[u] # {}
    BY <1>2 DEF SafetyInv, MapIsExact, Subscribe, WithEntry
  <2>3. \A x \in Streams, u \in Users :
          x \in Subscribed(u)' <=> u = UserOf[x] /\ stream'[x] \in {"on", "leaving", "closing"}
    <3>1. stream[s] = "entering" /\ \A x \in Streams : stream'[x] = IF x = s THEN "on" ELSE stream[x]
      BY <1>2, <1>t DEF Subscribe, TypeOK
    <3>2. \A x \in Streams, u \in Users :
            x \in Subscribed(u) <=> u = UserOf[x] /\ stream[x] \in {"on", "leaving", "closing"}
      BY DEF SafetyInv, MapIsExact
    <3> HIDE DEF u0
    <3>3. \A u \in Users : s \notin Subscribed(u) BY <3>1, <3>2
    <3> QED BY <2>1, <3>1, <3>2, <3>3 DEF u0
  <2>4. MapIsExact' BY <2>2, <2>3 DEF MapIsExact
  <2>5. ChannelStates' BY <1>2, <1>t DEF SafetyInv, Subscribe, ChannelStates, TypeOK
  <2>6. NeverPanics' /\ TodoSubscribed'
    BY <1>2 DEF SafetyInv, Subscribe, NeverPanics, TodoSubscribed, Readers
  <2> QED BY <1>t, <2>4, <2>5, <2>6 DEF SafetyInv
<1>3. ASSUME NEW s \in Streams, Receive(s) PROVE SafetyInv'
  BY <1>3, <1>t DEF SafetyInv, Receive, NeverPanics, MapIsExact, ChannelStates, TodoSubscribed,
       Subscribed, Readers
<1>4. ASSUME NEW s \in Streams, CallUnsubscribe(s) PROVE SafetyInv'
  <2>1. NeverPanics' /\ TodoSubscribed'
    BY <1>4 DEF SafetyInv, CallUnsubscribe, NeverPanics, TodoSubscribed, Subscribed, Readers
  <2>2. MapIsExact'
    <3>1. subscribers' = subscribers /\ \A u \in Users : Subscribed(u)' = Subscribed(u)
      BY <1>4 DEF CallUnsubscribe, Subscribed
    <3>2. \A x \in Streams : stream'[x] \in {"on", "leaving", "closing"}
                                <=> stream[x] \in {"on", "leaving", "closing"}
      BY <1>4, <1>t DEF CallUnsubscribe, TypeOK
    <3> QED BY <3>1, <3>2 DEF SafetyInv, MapIsExact
  <2>3. ChannelStates' BY <1>4, <1>t DEF SafetyInv, CallUnsubscribe, ChannelStates, TypeOK
  <2> QED BY <1>t, <2>1, <2>2, <2>3 DEF SafetyInv
<1>5. ASSUME NEW s \in Streams, Unsubscribe(s) PROVE SafetyInv'
  <2> DEFINE u0 == UserOf[s]
  <2>1. u0 \in DOMAIN subscribers BY <1>5, <1>m DEF SafetyInv, MapIsExact, Subscribed, Unsubscribe
  <2>2. \A u \in Users : Subscribed(u)' = IF u = u0 THEN Subscribed(u0) \ {s} ELSE Subscribed(u)
    BY <1>5, <2>1 DEF Unsubscribe, WithoutStream, WithEntry, WithoutEntry, Subscribed
  <2>3. \A u \in DOMAIN subscribers' : subscribers'[u] # {}
    BY <1>5, <2>1 DEF SafetyInv, MapIsExact, Unsubscribe, WithoutStream, WithEntry, WithoutEntry
  <2>4. \A x \in Streams, u \in Users :
          x \in Subscribed(u)' <=> u = UserOf[x] /\ stream'[x] \in {"on", "leaving", "closing"}
    <3>1. \A x \in Streams : stream'[x] = IF x = s THEN "gone" ELSE stream[x]
      BY <1>5, <1>t DEF Unsubscribe, TypeOK
    <3>2. \A x \in Streams, u \in Users :
            x \in Subscribed(u) <=> u = UserOf[x] /\ stream[x] \in {"on", "leaving", "closing"}
      BY DEF SafetyInv, MapIsExact
    <3> QED BY <2>2, <3>1, <3>2
  <2>5. MapIsExact' BY <2>3, <2>4 DEF MapIsExact
  <2>6. ChannelStates' BY <1>5, <1>t DEF SafetyInv, Unsubscribe, ChannelStates, TypeOK
  <2>7. NeverPanics' /\ TodoSubscribed'
    BY <1>5 DEF SafetyInv, Unsubscribe, NeverPanics, TodoSubscribed, Readers
  <2> QED BY <1>t, <2>5, <2>6, <2>7 DEF SafetyInv
<1>6. ASSUME NEW p \in Publishers, NEW u \in Users, CallPublish(p, u) PROVE SafetyInv'
  <2>1. \A q \in Publishers : pub'[q] = IF q = p THEN [pc |-> "waiting", user |-> u] ELSE pub[q]
    BY <1>6, <1>t DEF CallPublish, TypeOK
  <2>2. NeverPanics' /\ TodoSubscribed'
    BY <1>6, <2>1 DEF SafetyInv, CallPublish, NeverPanics, TodoSubscribed, Subscribed, Readers
  <2> QED BY <1>6, <1>t, <2>2 DEF SafetyInv, CallPublish, MapIsExact, ChannelStates, Subscribed
<1>7. ASSUME NEW p \in Publishers, RLock(p) PROVE SafetyInv'
  <2>1. \A q \in Publishers : pub'[q] =
          IF q = p THEN [pc |-> "sending", user |-> pub[p].user, todo |-> Subscribed(pub[p].user)]
          ELSE pub[q]
    BY <1>7, <1>t DEF RLock, TypeOK
  <2>2. NeverPanics' /\ TodoSubscribed'
    BY <1>7, <2>1 DEF SafetyInv, RLock, NeverPanics, TodoSubscribed, Subscribed, Readers
  <2> QED BY <1>7, <1>t, <2>2 DEF SafetyInv, RLock, MapIsExact, ChannelStates, Subscribed
<1>8. ASSUME NEW p \in Publishers, NEW s \in Streams, Send(p, s) PROVE SafetyInv'
  <2>1. p \in Readers /\ pub[p].user \in Users BY <1>8, <1>t, PubCases DEF Send, Readers, Resting
  <2>2. s \in Subscribed(pub[p].user) BY <1>8, <2>1 DEF SafetyInv, TodoSubscribed, Send
  <2>3. chan[s] # "closed" BY <2>1, <2>2 DEF SafetyInv, MapIsExact, ChannelStates
  <2>4. pub' = [pub EXCEPT ![p].todo = @ \ {s}] BY <1>8, <2>3 DEF Send
  <2>5. \A q \in Publishers :
          /\ q # p => pub'[q] = pub[q]
          /\ pub'[p].pc = pub[p].pc /\ pub'[p].user = pub[p].user
          /\ pub'[p].todo = pub[p].todo \ {s}
    <3>1. pub[p] \in [pc : {"sending"}, user : Users, todo : SUBSET Streams]
      BY <1>8, <1>t DEF TypeOK, Send, PubStates, Resting
    <3> QED BY <1>t, <2>4, <3>1 DEF TypeOK
  <2>6. NeverPanics' /\ TodoSubscribed'
    BY <1>8, <2>5 DEF SafetyInv, Send, NeverPanics, TodoSubscribed, Subscribed, Readers
  <2> QED BY <1>8, <1>t, <2>6 DEF SafetyInv, Send, MapIsExact, ChannelStates, Subscribed
<1>9. ASSUME NEW p \in Publishers, RUnlock(p) PROVE SafetyInv'
  <2>1. \A q \in Publishers : pub'[q] = IF q = p THEN Resting ELSE pub[q]
    BY <1>9, <1>t DEF RUnlock, TypeOK
  <2>2. NeverPanics' /\ TodoSubscribed'
    BY <1>9, <2>1 DEF SafetyInv, RUnlock, NeverPanics, TodoSubscribed, Subscribed, Readers, Resting
  <2> QED BY <1>9, <1>t, <2>2 DEF SafetyInv, RUnlock, MapIsExact, ChannelStates, Subscribed
<1>10. CASE UNCHANGED vars
  BY <1>10, <1>t DEF SafetyInv, vars, NeverPanics, MapIsExact, ChannelStates, TodoSubscribed,
       Subscribed, Readers
<1>11. ASSUME NEW s \in Streams, Announce(s) PROVE SafetyInv'
  <2>1. \A x \in Streams : stream'[x] = stream[x] \/
          \/ stream[x] = "subscribing" /\ stream'[x] = "entering"
          \/ stream[x] = "leaving" /\ stream'[x] = "closing"
    BY <1>11, <1>t DEF Announce, TypeOK
  <2>2. NeverPanics' /\ TodoSubscribed'
    BY <1>11 DEF SafetyInv, Announce, NeverPanics, TodoSubscribed, Subscribed, Readers
  <2>3. MapIsExact' BY <1>11, <2>1 DEF SafetyInv, Announce, MapIsExact, Subscribed
  <2>4. ChannelStates' BY <1>11, <2>1 DEF SafetyInv, Announce, ChannelStates
  <2> QED BY <1>t, <2>2, <2>3, <2>4 DEF SafetyInv
<1> QED
  BY <1>1, <1>2, <1>3, <1>4, <1>5, <1>6, <1>7, <1>8, <1>9, <1>10, <1>11 DEF Next, Stream, Publish

LEMMA SafetyInit == Init => SafetyInv
  BY TypeInit, EventBrokerAssumption
  DEF Init, SafetyInv, NeverPanics, MapIsExact, ChannelStates, TodoSubscribed, Subscribed,
      Readers, Resting

\* No publisher ever sends on a closed channel, which would end the process.
THEOREM NoPanic == Spec => []NeverPanics
<1>1. SafetyInv => NeverPanics BY DEF SafetyInv
<1> QED BY SafetyInit, SafetyStep, <1>1, PTL DEF Spec

\* The map of the broker always lists exactly the streams that listen, each
\* under its user, and no user without a stream.
THEOREM ExactMap == Spec => []MapIsExact
<1>1. SafetyInv => MapIsExact BY DEF SafetyInv
<1> QED BY SafetyInit, SafetyStep, <1>1, PTL DEF Spec

-----------------------------------------------------------------------------
(* The order of events. *)

\* Reading an event moves it from the channel to the client's part of the log.
LEMMA LogOfReceive ==
    ASSUME TypeOK, NEW s \in Streams, Receive(s)
    PROVE  \A x \in Streams : Log(x)' = Log(x)
<1> DEFINE E == Publishers \X Nat
           g == got[s]
           b == buffer[s]
<1>1. g \in Seq(E) /\ b \in Seq(E) /\ b # <<>> BY DEF TypeOK, Receive
<1>2. Head(b) \in E /\ Tail(b) \in Seq(E) /\ <<Head(b)>> \in Seq(E) BY <1>1, HeadTailProperties
<1>3. Append(g, Head(b)) \o Tail(b) = g \o (<<Head(b)>> \o Tail(b))
  <2> DEFINE one == <<Head(b)>>
             rest == Tail(b)
  <2>1. Append(g, Head(b)) = g \o one BY <1>1, <1>2, AppendIsConcat
  <2>2. one \in Seq(E) /\ rest \in Seq(E) /\ g \in Seq(E) BY <1>1, <1>2
  <2> HIDE DEF one, rest, E, g
  <2>3. (g \o one) \o rest = g \o (one \o rest) BY <2>2, ConcatAssociative
  <2> QED BY <2>1, <2>3 DEF one, rest
<1>4. <<Head(b)>> \o Tail(b) = b BY <1>1, <1>2
<1>5. got' = [got EXCEPT ![s] = Append(g, Head(b))] /\ buffer' = [buffer EXCEPT ![s] = Tail(b)]
  BY DEF Receive
<1>6. got \in [Streams -> Seq(E)] /\ buffer \in [Streams -> Seq(E)] BY DEF TypeOK
<1> HIDE DEF E, g, b
<1> SUFFICES ASSUME NEW x \in Streams PROVE got'[x] \o buffer'[x] = got[x] \o buffer[x] BY DEF Log
<1>7. CASE x = s BY <1>3, <1>4, <1>5, <1>6, <1>7 DEF g, b
<1>8. CASE x # s BY <1>5, <1>6, <1>8
<1> QED BY <1>7, <1>8

\* A send appends the event to the log of its stream, or changes no log.
LEMMA LogOfSend ==
    ASSUME TypeOK, NEW p \in Publishers, NEW s \in Streams, Send(p, s)
    PROVE  /\ \A x \in Streams \ {s} : Log(x)' = Log(x)
           /\ Log(s)' = Log(s) \/ Log(s)' = Append(Log(s), Event(p))
<1> DEFINE E == Publishers \X Nat
<1>1. /\ got[s] \in Seq(E) /\ buffer[s] \in Seq(E) /\ Event(p) \in E
      /\ buffer \in [Streams -> Seq(E)]
  BY DEF TypeOK, Event
<1>2. got' = got /\ (buffer' = buffer \/ buffer' = [buffer EXCEPT ![s] = Append(@, Event(p))])
  BY DEF Send
<1>3. CASE buffer' = buffer BY <1>2, <1>3 DEF Log
<1>4. CASE buffer' = [buffer EXCEPT ![s] = Append(@, Event(p))]
  <2>1. \A x \in Streams \ {s} : Log(x)' = Log(x) BY <1>1, <1>2, <1>4 DEF Log
  <2>2. Log(s)' = got[s] \o Append(buffer[s], Event(p)) BY <1>1, <1>2, <1>4 DEF Log
  <2>3. <<Event(p)>> \in Seq(E) /\ got[s] \o buffer[s] \in Seq(E) BY <1>1, ConcatProperties
  <2>4. /\ Append(buffer[s], Event(p)) = buffer[s] \o <<Event(p)>>
        /\ Append(got[s] \o buffer[s], Event(p)) = (got[s] \o buffer[s]) \o <<Event(p)>>
    BY <1>1, <2>3, AppendIsConcat
  <2>5. got[s] \o (buffer[s] \o <<Event(p)>>) = (got[s] \o buffer[s]) \o <<Event(p)>>
    <3> DEFINE one == <<Event(p)>>
               g == got[s]
               b == buffer[s]
    <3>1. one \in Seq(E) /\ g \in Seq(E) /\ b \in Seq(E) BY <1>1, <2>3
    <3> HIDE DEF one, g, b, E
    <3>2. g \o (b \o one) = (g \o b) \o one BY <3>1, ConcatAssociative
    <3> QED BY <3>2 DEF one, g, b
  <2> QED BY <2>1, <2>2, <2>4, <2>5 DEF Log
<1> QED BY <1>2, <1>3, <1>4

LEMMA LogType ==
    ASSUME TypeOK, NEW s \in Streams
    PROVE  /\ Log(s) \in Seq(Publishers \X Nat)
           /\ \A i \in DOMAIN Log(s) : Log(s)[i][1] \in Publishers /\ Log(s)[i][2] \in Nat
<1>1. got[s] \in Seq(Publishers \X Nat) /\ buffer[s] \in Seq(Publishers \X Nat) BY DEF TypeOK
<1>2. Log(s) \in Seq(Publishers \X Nat) BY <1>1, ConcatProperties DEF Log
<1>3. \A i \in DOMAIN Log(s) : Log(s)[i] \in Publishers \X Nat BY <1>2, ElementOfSeq
<1> QED BY <1>2, <1>3

\* A step that leaves the logs alone keeps them in order, if it starts no
\* publisher on the number it has used.
LEMMA SameLogs ==
    ASSUME OrderInv, TypeOK',
           \A x \in Streams : Log(x)' = Log(x),
           \A q \in Publishers : sent[q] <= sent'[q],
           \A q \in Publishers, x \in Streams :
              pub'[q].pc = "waiting" \/ q \in Sending(x)' =>
                 pub[q].pc = "waiting" \/ q \in Sending(x) \/ sent[q] < sent'[q]
    PROVE  OrderInv'
<1>1. InOrder' BY DEF OrderInv, InOrder
<1>2. ASSUME NEW s \in Streams, NEW i \in DOMAIN Log(s)
      PROVE  LET q == Log(s)[i][1] IN
             /\ Log(s)[i][2] <= sent'[q]
             /\ pub'[q].pc = "waiting" \/ q \in Sending(s)' => Log(s)[i][2] < sent'[q]
  <2> DEFINE q == Log(s)[i][1]
             n == Log(s)[i][2]
  <2>1. q \in Publishers /\ n \in Nat /\ sent[q] \in Nat /\ sent'[q] \in Nat
    BY LogType DEF OrderInv, TypeOK
  <2>2. n <= sent[q] /\ (pub[q].pc = "waiting" \/ q \in Sending(s) => n < sent[q])
    BY DEF OrderInv, NoneAhead
  <2> HIDE DEF q, n
  <2>3. n <= sent'[q] /\ (pub'[q].pc = "waiting" \/ q \in Sending(s)' => n < sent'[q]) BY <2>1, <2>2
  <2> QED BY <2>3 DEF q, n
<1>3. NoneAhead' BY <1>2 DEF NoneAhead
<1> QED BY <1>1, <1>3 DEF OrderInv

LEMMA OrderStep == OrderInv /\ [Next]_vars => OrderInv'
<1> SUFFICES ASSUME OrderInv, [Next]_vars PROVE OrderInv' OBVIOUS
<1> USE EventBrokerAssumption
<1>t. TypeOK /\ TypeOK' /\ sent \in [Publishers -> Nat]
  BY TypeStep DEF OrderInv, TypeOK
\* The steps of a stream that leave its channel and its client alone.
<1>1. ASSUME UNCHANGED <<got, buffer, pub, sent>> PROVE OrderInv'
  <2>1. \A x \in Streams : Log(x)' = Log(x) BY <1>1 DEF Log
  <2>2. \A q \in Publishers : sent[q] <= sent'[q] BY <1>1, <1>t
  <2>3. \A q \in Publishers, x \in Streams :
          pub'[q].pc = "waiting" \/ q \in Sending(x)' => pub[q].pc = "waiting" \/ q \in Sending(x)
    BY <1>1 DEF Sending, Readers
  <2> QED BY <1>t, <2>1, <2>2, <2>3, SameLogs
<1>2. ASSUME NEW s \in Streams, Receive(s) PROVE OrderInv'
  <2>1. \A x \in Streams : Log(x)' = Log(x) BY <1>2, <1>t, LogOfReceive
  <2>2. \A q \in Publishers : sent[q] <= sent'[q] BY <1>2, <1>t DEF Receive
  <2>3. \A q \in Publishers, x \in Streams :
          pub'[q].pc = "waiting" \/ q \in Sending(x)' => pub[q].pc = "waiting" \/ q \in Sending(x)
    BY <1>2 DEF Receive, Sending, Readers
  <2> QED BY <1>t, <2>1, <2>2, <2>3, SameLogs
<1>3. ASSUME NEW p \in Publishers, NEW u \in Users, CallPublish(p, u) PROVE OrderInv'
  <2>1. \A x \in Streams : Log(x)' = Log(x) BY <1>3 DEF CallPublish, Log
  <2>2. \A q \in Publishers : sent'[q] = IF q = p THEN sent[q] + 1 ELSE sent[q]
    BY <1>3, <1>t DEF CallPublish
  <2>3. \A q \in Publishers : q # p => pub'[q] = pub[q] BY <1>3, <1>t DEF CallPublish, TypeOK
  <2>4. \A q \in Publishers, x \in Streams :
          pub'[q].pc = "waiting" \/ q \in Sending(x)' =>
             pub[q].pc = "waiting" \/ q \in Sending(x) \/ sent[q] < sent'[q]
    BY <1>t, <2>2, <2>3 DEF Sending, Readers
  <2>5. \A q \in Publishers : sent[q] <= sent'[q] BY <1>t, <2>2
  <2> QED BY <1>t, <2>1, <2>4, <2>5, SameLogs
<1>4. ASSUME NEW p \in Publishers, RLock(p) \/ RUnlock(p) PROVE OrderInv'
  <2>1. \A x \in Streams : Log(x)' = Log(x) BY <1>4 DEF RLock, RUnlock, Log
  <2>2. \A q \in Publishers : sent[q] <= sent'[q] BY <1>4, <1>t DEF RLock, RUnlock
  <2>3. \A q \in Publishers : q # p => pub'[q] = pub[q] BY <1>4, <1>t DEF RLock, RUnlock, TypeOK
  <2>4. pub[p].pc = "waiting" \/ pub'[p].pc = "idle"
    BY <1>4, <1>t DEF RLock, RUnlock, Resting, TypeOK
  <2>5. \A q \in Publishers, x \in Streams :
          pub'[q].pc = "waiting" \/ q \in Sending(x)' => pub[q].pc = "waiting" \/ q \in Sending(x)
    BY <2>3, <2>4 DEF Sending, Readers
  <2> QED BY <1>t, <2>1, <2>2, <2>5, SameLogs
<1>5. ASSUME NEW p \in Publishers, NEW s \in Streams, Send(p, s) PROVE OrderInv'
  <2>1. /\ \A x \in Streams \ {s} : Log(x)' = Log(x)
        /\ Log(s)' = Log(s) \/ Log(s)' = Append(Log(s), Event(p))
    BY <1>5, <1>t, LogOfSend
  <2>2. sent' = sent /\ p \in Sending(s) BY <1>5 DEF Send, Sending, Readers
  <2>3. /\ \A q \in Publishers : q # p => pub'[q] = pub[q]
        /\ pub'[p].pc = "panic" \/ pub'[p] = [pub[p] EXCEPT !.todo = @ \ {s}]
    BY <1>5, <1>t DEF Send, TypeOK
  <2>4. p \notin Sending(s)' /\ pub'[p].pc # "waiting"
        /\ \A x \in Streams : p \in Sending(x)' => p \in Sending(x)
    <3>1. pub[p] \in [pc : {"sending"}, user : Users, todo : SUBSET Streams]
      BY <1>5, <1>t DEF TypeOK, Send, PubStates, Resting
    <3> QED BY <2>3, <3>1 DEF Sending, Readers
  <2>5. \A q \in Publishers, x \in Streams :
          pub'[q].pc = "waiting" \/ q \in Sending(x)' => pub[q].pc = "waiting" \/ q \in Sending(x)
    BY <2>3, <2>4 DEF Sending, Readers
  <2>6. CASE Log(s)' = Log(s)
    <3>1. \A x \in Streams : Log(x)' = Log(x) BY <2>1, <2>6
    <3> QED BY <1>t, <2>2, <2>5, <3>1, SameLogs
  <2>7. CASE Log(s)' = Append(Log(s), Event(p))
    <3> DEFINE old == Log(s)
               new == Log(s)'
               n == Len(old)
    <3>1. /\ old \in Seq(Publishers \X Nat) /\ n \in Nat /\ DOMAIN old = 1..n
          /\ \A i \in 1..n : old[i][1] \in Publishers /\ old[i][2] \in Nat
      BY <1>t, LogType
    <3>2. /\ DOMAIN new = 1..(n + 1)
          /\ \A i \in 1..n : new[i] = old[i]
          /\ new[n + 1] = <<p, sent[p]>>
      BY <1>t, <2>7, <3>1, AppendProperties DEF Event
    <3>3. \A i \in 1..n : old[i][1] = p => old[i][2] < sent[p] BY <2>2, <3>1 DEF OrderInv, NoneAhead
    <3>4. \A i, j \in 1..n : i < j /\ old[i][1] = old[j][1] => old[i][2] < old[j][2]
      BY <3>1 DEF OrderInv, InOrder
    <3>5. \A i \in 1..n :
            /\ old[i][2] <= sent[old[i][1]]
            /\ pub[old[i][1]].pc = "waiting" \/ old[i][1] \in Sending(s) => old[i][2] < sent[old[i][1]]
      BY <3>1 DEF OrderInv, NoneAhead
    <3>6. \A i, j \in DOMAIN new : i < j /\ new[i][1] = new[j][1] => new[i][2] < new[j][2]
      <4> SUFFICES ASSUME NEW i \in 1..(n + 1), NEW j \in 1..(n + 1), i < j, new[i][1] = new[j][1]
                   PROVE  new[i][2] < new[j][2]
        BY <3>2
      <4> HIDE DEF old, new, n
      <4>1. i \in 1..n BY <3>1
      <4>2. CASE j \in 1..n BY <3>2, <3>4, <4>1, <4>2
      <4>3. CASE j = n + 1 BY <3>2, <3>3, <4>1, <4>3
      <4> QED BY <3>1, <4>2, <4>3
    <3>7. \A i \in DOMAIN new :
            /\ new[i][2] <= sent[new[i][1]]
            /\ pub'[new[i][1]].pc = "waiting" \/ new[i][1] \in Sending(s)' =>
                 new[i][2] < sent[new[i][1]]
      <4> SUFFICES ASSUME NEW i \in 1..(n + 1)
                   PROVE  /\ new[i][2] <= sent[new[i][1]]
                          /\ pub'[new[i][1]].pc = "waiting" \/ new[i][1] \in Sending(s)' =>
                               new[i][2] < sent[new[i][1]]
        BY <3>2
      <4> HIDE DEF old, new, n
      <4>1. CASE i \in 1..n BY <2>5, <3>1, <3>2, <3>5, <4>1
      <4>2. CASE i = n + 1 BY <1>t, <2>4, <3>2, <4>2
      <4> QED BY <3>1, <4>1, <4>2
    <3>8. InOrder'
      <4>1. \A x \in Streams \ {s} : \A i, j \in DOMAIN Log(x)' :
              i < j /\ Log(x)'[i][1] = Log(x)'[j][1] => Log(x)'[i][2] < Log(x)'[j][2]
        BY <2>1 DEF OrderInv, InOrder
      <4> QED BY <3>6, <4>1 DEF InOrder
    <3>9. NoneAhead'
      <4>1. ASSUME NEW x \in Streams \ {s}, NEW i \in DOMAIN Log(x)
            PROVE  /\ Log(x)[i][2] <= sent[Log(x)[i][1]]
                   /\ pub'[Log(x)[i][1]].pc = "waiting" \/ Log(x)[i][1] \in Sending(x)' =>
                        Log(x)[i][2] < sent[Log(x)[i][1]]
        BY <1>t, <2>5, LogType DEF OrderInv, NoneAhead
      <4>2. \A x \in Streams \ {s} : \A i \in DOMAIN Log(x)' :
              /\ Log(x)'[i][2] <= sent[Log(x)'[i][1]]
              /\ pub'[Log(x)'[i][1]].pc = "waiting" \/ Log(x)'[i][1] \in Sending(x)' =>
                   Log(x)'[i][2] < sent[Log(x)'[i][1]]
        BY <2>1, <4>1
      <4> QED BY <2>2, <3>7, <4>2 DEF NoneAhead
    <3> QED BY <1>t, <3>8, <3>9 DEF OrderInv
  <2> QED BY <2>1, <2>6, <2>7
<1>6. ASSUME NEW s \in Streams,
             CallSubscribe(s) \/ Announce(s) \/ Subscribe(s) \/ CallUnsubscribe(s) \/ Unsubscribe(s)
      PROVE  OrderInv'
  BY <1>1, <1>6 DEF CallSubscribe, Announce, Subscribe, CallUnsubscribe, Unsubscribe
<1>7. CASE UNCHANGED vars BY <1>1, <1>7 DEF vars
<1> QED BY <1>2, <1>3, <1>4, <1>5, <1>6, <1>7 DEF Next, Stream, Publish

LEMMA OrderInit == Init => OrderInv
<1> SUFFICES ASSUME Init PROVE OrderInv OBVIOUS
<1>1. \A s \in Streams : Log(s) = <<>> BY DEF Init, Log
<1>2. InOrder /\ NoneAhead BY <1>1 DEF InOrder, NoneAhead
<1> QED BY <1>2, TypeInit DEF OrderInv

\* Every stream sees the events of one publisher in the order of their
\* publication, and none twice.
THEOREM OrderedDelivery == Spec => []InOrder
<1>1. OrderInv => InOrder BY DEF OrderInv
<1> QED BY OrderInit, OrderStep, <1>1, PTL DEF Spec

-----------------------------------------------------------------------------
(* What becomes of each publication. *)

\* How many publications of a stream are accounted for.
Taken(s)   == Len(got[s])
Waiting(s) == Len(buffer[s])
Settled(s) == Taken(s) + Waiting(s) + lost[s]

LEMMA SendingFinite ==
    ASSUME NEW s \in Streams
    PROVE  /\ IsFiniteSet(Sending(s)) /\ Cardinality(Sending(s)) \in Nat
           /\ Sending(s) \subseteq Publishers
<1>1. Sending(s) \subseteq Publishers BY DEF Sending, Readers
<1> QED BY <1>1, EventBrokerAssumption, FS_Subset, FS_CardinalityType

LEMMA SettledType ==
    ASSUME TypeOK, NEW s \in Streams
    PROVE  /\ Settled(s) \in Nat /\ due[s] \in Nat
           /\ Taken(s) \in Nat /\ Waiting(s) \in Nat /\ lost[s] \in Nat
<1>1. got[s] \in Seq(Publishers \X Nat) /\ buffer[s] \in Seq(Publishers \X Nat) BY DEF TypeOK
<1>2. Taken(s) \in Nat /\ Waiting(s) \in Nat BY <1>1, LenProperties DEF Taken, Waiting
<1> QED BY <1>2 DEF TypeOK, Settled

LEMMA ConsideredStep ==
    SafetyInv /\ EachConsidered /\ [Next]_vars => EachConsidered'
<1> SUFFICES ASSUME SafetyInv, EachConsidered, [Next]_vars PROVE EachConsidered' OBVIOUS
<1>t. TypeOK /\ SafetyInv' /\ TypeOK' BY SafetyStep DEF SafetyInv
<1>e. \A s \in Streams : due[s] = Settled(s) + Cardinality(Sending(s))
  BY DEF EachConsidered, Settled, Taken, Waiting
<1>g. ASSUME \A s \in Streams : due'[s] = Settled(s)' + Cardinality(Sending(s)')
      PROVE  EachConsidered'
  BY <1>g DEF EachConsidered, Settled, Taken, Waiting
<1>n. \A x \in Streams : Taken(x) \in Nat /\ Waiting(x) \in Nat /\ lost[x] \in Nat
  BY <1>t, SettledType
\* Steps that neither publish nor receive.
<1>0. ASSUME \A s \in Streams : Sending(s)' = Sending(s), UNCHANGED <<got, buffer, lost, due>>
      PROVE  EachConsidered'
  BY <1>0, <1>e, <1>g DEF Settled, Taken, Waiting
<1>1. ASSUME NEW s \in Streams, Receive(s) PROVE EachConsidered'
  <2>1. \A x \in Streams : Sending(x)' = Sending(x) BY <1>1 DEF Receive, Sending, Readers
  <2>2. /\ Len(Append(got[s], Head(buffer[s]))) = Len(got[s]) + 1
        /\ Len(Tail(buffer[s])) = Len(buffer[s]) - 1
    <3>1. /\ got[s] \in Seq(Publishers \X Nat) /\ buffer[s] \in Seq(Publishers \X Nat)
          /\ buffer[s] # <<>>
      BY <1>1, <1>t DEF TypeOK, Receive
    <3> QED BY <3>1
  <2>3. \A x \in Streams :
          /\ got'[x] = IF x = s THEN Append(got[s], Head(buffer[s])) ELSE got[x]
          /\ buffer'[x] = IF x = s THEN Tail(buffer[s]) ELSE buffer[x]
    BY <1>1, <1>t DEF TypeOK, Receive
  <2>4. ASSUME NEW x \in Streams PROVE Settled(x)' = Settled(x)
    <3>1. lost'[x] = lost[x] BY <1>1 DEF Receive
    <3>2. /\ Taken(x)' = Taken(x) + IF x = s THEN 1 ELSE 0
          /\ Waiting(x)' = Waiting(x) - IF x = s THEN 1 ELSE 0
      <4>1. CASE x = s BY <4>1, <2>2, <2>3 DEF Taken, Waiting
      <4>2. CASE x # s
        <5>1. Taken(x)' = Taken(x) /\ Waiting(x)' = Waiting(x) BY <4>2, <2>3 DEF Taken, Waiting
        <5> QED BY <4>2, <5>1, <1>n
      <4> QED BY <4>1, <4>2
    <3> QED BY <1>n, <3>1, <3>2 DEF Settled
  <2> QED BY <1>1, <1>e, <1>g, <2>1, <2>4 DEF Receive
<1>2. ASSUME NEW p \in Publishers, RLock(p) PROVE EachConsidered'
  <2> DEFINE S == Subscribed(pub[p].user)
  <2>1. \A q \in Publishers : pub'[q] =
          IF q = p THEN [pc |-> "sending", user |-> pub[p].user, todo |-> S] ELSE pub[q]
    BY <1>2, <1>t DEF RLock, TypeOK
  <2>2. \A x \in Streams : p \notin Sending(x) BY <1>2 DEF RLock, Sending, Readers
  <2>3. \A x \in Streams : Sending(x)' = IF x \in S THEN Sending(x) \cup {p} ELSE Sending(x)
    BY <2>1, <2>2 DEF Sending, Readers
  <2>4. \A x \in Streams : Cardinality(Sending(x)') = Cardinality(Sending(x)) + IF x \in S THEN 1 ELSE 0
    BY <2>2, <2>3, SendingFinite, FS_AddElement
  <2>5. \A x \in Streams : due'[x] = due[x] + IF x \in S THEN 1 ELSE 0
    BY <1>2, <1>t DEF RLock, TypeOK
  <2>6. \A x \in Streams : Settled(x)' = Settled(x) BY <1>2 DEF RLock, Settled, Taken, Waiting
  <2> HIDE DEF S
  <2>7. \A x \in Streams : Settled(x) \in Nat /\ Cardinality(Sending(x)) \in Nat
    BY <1>t, SettledType, SendingFinite
  <2> QED BY <1>e, <1>g, <2>4, <2>5, <2>6, <2>7
<1>3. ASSUME NEW p \in Publishers, NEW s \in Streams, Send(p, s) PROVE EachConsidered'
  <2>1. p \in Readers /\ pub[p].user \in Users /\ s \in pub[p].todo
    BY <1>3, <1>t, PubCases DEF Send, Readers, Resting
  <2>2. s \in Subscribed(pub[p].user) BY <2>1 DEF SafetyInv, TodoSubscribed
  <2>3. chan[s] # "closed" BY <2>1, <2>2 DEF SafetyInv, MapIsExact, ChannelStates
  <2>4. \A q \in Publishers :
          /\ q # p => pub'[q] = pub[q]
          /\ pub'[p].pc = "sending"
          /\ pub'[p].todo = pub[p].todo \ {s}
    <3>1. pub[p] \in [pc : {"sending"}, user : Users, todo : SUBSET Streams]
      BY <1>3, <1>t DEF TypeOK, Send, PubStates, Resting
    <3>2. pub' = [pub EXCEPT ![p].todo = @ \ {s}] BY <1>3, <2>3 DEF Send
    <3> QED BY <1>t, <3>1, <3>2 DEF TypeOK
  <2>5. /\ p \in Sending(s)
        /\ \A x \in Streams : Sending(x)' = IF x = s THEN Sending(x) \ {p} ELSE Sending(x)
    BY <2>1, <2>4 DEF Sending, Readers
  <2>6. \A x \in Streams : Cardinality(Sending(x)') = Cardinality(Sending(x)) - IF x = s THEN 1 ELSE 0
    BY <2>5, SendingFinite, FS_RemoveElement
  <2>7. \A x \in Streams : Settled(x)' = Settled(x) + IF x = s THEN 1 ELSE 0
    <3>1. got' = got BY <1>3 DEF Send
    <3>2. CASE buffer' = [buffer EXCEPT ![s] = Append(@, Event(p))] /\ lost' = lost
      <4>1. Len(Append(buffer[s], Event(p))) = Len(buffer[s]) + 1 BY <1>t DEF TypeOK
      <4>2. \A x \in Streams : buffer'[x] = IF x = s THEN Append(buffer[s], Event(p)) ELSE buffer[x]
        BY <1>t, <3>2 DEF TypeOK
      <4>3. ASSUME NEW x \in Streams
            PROVE  Settled(x)' = Settled(x) + IF x = s THEN 1 ELSE 0
        <5>1. Waiting(x)' = Waiting(x) + IF x = s THEN 1 ELSE 0
          <6>1. CASE x = s BY <6>1, <4>1, <4>2 DEF Waiting
          <6>2. CASE x # s
            <7>1. Waiting(x)' = Waiting(x) BY <6>2, <4>2 DEF Waiting
            <7> QED BY <6>2, <7>1, <1>n
          <6> QED BY <6>1, <6>2
        <5>2. Taken(x)' = Taken(x) /\ lost'[x] = lost[x] BY <3>1, <3>2 DEF Taken
        <5> QED BY <1>n, <5>1, <5>2 DEF Settled
      <4> QED BY <4>3
    <3>3. CASE buffer' = buffer /\ lost' = [lost EXCEPT ![s] = @ + 1]
      <4>1. \A x \in Streams : lost'[x] = IF x = s THEN lost[s] + 1 ELSE lost[x]
        BY <1>t, <3>3 DEF TypeOK
      <4>2. ASSUME NEW x \in Streams
            PROVE  Settled(x)' = Settled(x) + IF x = s THEN 1 ELSE 0
        <5>1. Taken(x)' = Taken(x) /\ Waiting(x)' = Waiting(x) BY <3>1, <3>3 DEF Taken, Waiting
        <5> QED BY <1>n, <4>1, <5>1 DEF Settled
      <4> QED BY <4>2
    <3> QED BY <1>3, <2>3, <3>2, <3>3 DEF Send
  <2>8. due' = due BY <1>3 DEF Send
  <2>9. \A x \in Streams : Settled(x) \in Nat /\ Cardinality(Sending(x)) \in Nat
    BY <1>t, SettledType, SendingFinite
  <2> QED BY <1>e, <1>g, <2>6, <2>7, <2>8, <2>9
<1>4. ASSUME NEW p \in Publishers, NEW u \in Users, CallPublish(p, u) PROVE EachConsidered'
  <2>1. \A q \in Publishers : pub'[q] = IF q = p THEN [pc |-> "waiting", user |-> u] ELSE pub[q]
    BY <1>4, <1>t DEF CallPublish, TypeOK
  <2>2. \A x \in Streams : Sending(x)' = Sending(x) BY <1>4, <2>1 DEF CallPublish, Sending, Readers
  <2> QED BY <1>0, <1>4, <2>2 DEF CallPublish
<1>5. ASSUME NEW p \in Publishers, RUnlock(p) PROVE EachConsidered'
  <2>1. \A q \in Publishers : pub'[q] = IF q = p THEN Resting ELSE pub[q]
    BY <1>5, <1>t DEF RUnlock, TypeOK
  <2>2. \A x \in Streams : Sending(x)' = Sending(x)
    BY <1>5, <2>1 DEF RUnlock, Sending, Readers, Resting
  <2> QED BY <1>0, <1>5, <2>2 DEF RUnlock
<1>6. ASSUME NEW s \in Streams,
             CallSubscribe(s) \/ Announce(s) \/ Subscribe(s) \/ CallUnsubscribe(s) \/ Unsubscribe(s)
      PROVE  EachConsidered'
  BY <1>0, <1>6 DEF CallSubscribe, Announce, Subscribe, CallUnsubscribe, Unsubscribe, Sending, Readers
<1>7. CASE UNCHANGED vars BY <1>0, <1>7 DEF vars, Sending, Readers
<1> QED BY <1>1, <1>2, <1>3, <1>4, <1>5, <1>6, <1>7 DEF Next, Stream, Publish

LEMMA ConsideredInit == Init => EachConsidered
<1> SUFFICES ASSUME Init, NEW s \in Streams
             PROVE  due[s] = Len(got[s]) + Len(buffer[s]) + lost[s] + Cardinality(Sending(s))
  BY DEF EachConsidered
<1>1. Sending(s) = {} BY DEF Init, Sending, Readers, Resting
<1> QED BY <1>1, FS_EmptySet DEF Init

\* Each publication for the user of a stream is received, waits in the channel
\* of the stream, was refused by that channel when it was full, or is still being
\* sent: no stream that is slow takes an event from another one.
THEOREM EveryEventConsidered == Spec => []EachConsidered
  BY SafetyInit, SafetyStep, ConsideredInit, ConsideredStep, PTL DEF Spec
=============================================================================
