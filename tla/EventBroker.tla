---------------------------- MODULE EventBroker ------------------------------
(***************************************************************************)
(* The event broker of the mail service: event streams subscribe with a    *)
(* buffered channel each, publishers (request handlers, deliveries, SMTP   *)
(* sessions) send to the channels of a user without waiting for them.      *)
(*                                                                         *)
(* One sync.RWMutex guards the subscriptions: publishers hold it for       *)
(* reading while they send, Subscribe and unsubscribe hold it for writing. *)
(* As in Go, one goroutine at a time may wait for the readers to leave,    *)
(* and while it waits it keeps new readers out.                            *)
(*                                                                         *)
(* What is abstracted: an event is its publisher and a number; the hello   *)
(* event and the pings of a stream, which do not go through the broker.    *)
(***************************************************************************)
EXTENDS Naturals, Sequences, FiniteSets

CONSTANTS Users,
          Streams,     \* event streams, each with its one channel
          UserOf,      \* the user of a stream
          Publishers,
          Capacity,    \* of a channel (32 in Subscribe)
          MaxEvents    \* bound on the events of a publisher

ASSUME EventBrokerAssumption ==
    /\ UserOf \in [Streams -> Users]
    /\ IsFiniteSet(Publishers)
    /\ Capacity \in Nat \ {0}
    /\ MaxEvents \in Nat

VARIABLES
    subscribers,  \* the map of the broker: the channels of a user
    stream,       \* where the handler of a stream is
    chan,         \* "none", "open" or "closed"
    buffer,       \* the events in a channel
    pub,          \* where a publisher is
    sent,         \* how many events a publisher has published
    got,          \* history: the events a stream has written to its client
    due,          \* history: publications a stream was subscribed for
    lost          \* history: events a stream's full channel did not take

vars == <<subscribers, stream, chan, buffer, pub, sent, got, due, lost>>

Resting == [pc |-> "idle"]

\* The goroutines that hold the mutex for reading, and the one that waits to
\* write, if there is one.
Readers == {p \in Publishers : pub[p].pc = "sending"}
Writers == {s \in Streams : stream[s] \in {"entering", "closing"}}

Subscribed(u) == IF u \in DOMAIN subscribers THEN subscribers[u] ELSE {}

Init ==
    /\ subscribers = [u \in {} |-> {}]
    /\ stream = [s \in Streams |-> "new"]
    /\ chan = [s \in Streams |-> "none"]
    /\ buffer = [s \in Streams |-> <<>>]
    /\ pub = [p \in Publishers |-> Resting]
    /\ sent = [p \in Publishers |-> 0]
    /\ got = [s \in Streams |-> <<>>]
    /\ due = [s \in Streams |-> 0]
    /\ lost = [s \in Streams |-> 0]

-----------------------------------------------------------------------------
(* A stream: StreamEvents, Subscribe and unsubscribe.                      *)

\* Subscribe makes the channel and calls Lock.
CallSubscribe(s) ==
    /\ stream[s] = "new"
    /\ stream' = [stream EXCEPT ![s] = "subscribing"]
    /\ chan' = [chan EXCEPT ![s] = "open"]
    /\ UNCHANGED <<subscribers, buffer, pub, sent, got, due, lost>>

\* Lock: the stream is the next writer.
Announce(s) ==
    /\ stream[s] \in {"subscribing", "leaving"}
    /\ Writers = {}
    /\ stream' = [stream EXCEPT ![s] = IF @ = "subscribing" THEN "entering" ELSE "closing"]
    /\ UNCHANGED <<subscribers, chan, buffer, pub, sent, got, due, lost>>

WithEntry(u, S) == [x \in DOMAIN subscribers \cup {u} |-> IF x = u THEN S ELSE subscribers[x]]

WithoutEntry(u) == [x \in DOMAIN subscribers \ {u} |-> subscribers[x]]

Subscribe(s) ==
    /\ stream[s] = "entering"
    /\ Readers = {}
    /\ subscribers' = WithEntry(UserOf[s], Subscribed(UserOf[s]) \cup {s})
    /\ stream' = [stream EXCEPT ![s] = "on"]
    /\ UNCHANGED <<chan, buffer, pub, sent, got, due, lost>>

\* Mutant: the event that came last is written first.
ReceiveLast(s) ==
    /\ stream[s] = "on"
    /\ buffer[s] # <<>>
    /\ got' = [got EXCEPT ![s] = Append(@, buffer[s][Len(buffer[s])])]
    /\ buffer' = [buffer EXCEPT ![s] = SubSeq(@, 1, Len(@) - 1)]
    /\ UNCHANGED <<subscribers, stream, chan, pub, sent, due, lost>>

\* case event := <-ch
Receive(s) ==
    /\ stream[s] = "on"
    /\ buffer[s] # <<>>
    /\ got' = [got EXCEPT ![s] = Append(@, Head(buffer[s]))]
    /\ buffer' = [buffer EXCEPT ![s] = Tail(@)]
    /\ UNCHANGED <<subscribers, stream, chan, pub, sent, due, lost>>

\* The client goes away: the deferred unsubscribe calls Lock.
CallUnsubscribe(s) ==
    /\ stream[s] = "on"
    /\ stream' = [stream EXCEPT ![s] = "leaving"]
    /\ UNCHANGED <<subscribers, chan, buffer, pub, sent, got, due, lost>>

\* The set of the user goes with its last channel.
WithoutStream(s) ==
    LET rest == Subscribed(UserOf[s]) \ {s} IN
    IF UserOf[s] \notin DOMAIN subscribers THEN subscribers
    ELSE IF rest = {} THEN WithoutEntry(UserOf[s]) ELSE WithEntry(UserOf[s], rest)

\* Mutant: the channel is closed without waiting for the publishers.
UnsubscribeUnlocked(s) ==
    /\ stream[s] = "closing"
    /\ subscribers' = WithoutStream(s)
    /\ chan' = [chan EXCEPT ![s] = "closed"]
    /\ stream' = [stream EXCEPT ![s] = "gone"]
    /\ UNCHANGED <<buffer, pub, sent, got, due, lost>>

\* Mutant: the last stream of a user takes the whole entry of another one.
UnsubscribeAll(s) ==
    /\ stream[s] = "closing"
    /\ Readers = {}
    /\ subscribers' = WithoutEntry(UserOf[s])
    /\ chan' = [chan EXCEPT ![s] = "closed"]
    /\ stream' = [stream EXCEPT ![s] = "gone"]
    /\ UNCHANGED <<buffer, pub, sent, got, due, lost>>

Unsubscribe(s) ==
    /\ stream[s] = "closing"
    /\ Readers = {}
    /\ subscribers' = WithoutStream(s)
    /\ chan' = [chan EXCEPT ![s] = "closed"]
    /\ stream' = [stream EXCEPT ![s] = "gone"]
    /\ UNCHANGED <<buffer, pub, sent, got, due, lost>>

-----------------------------------------------------------------------------
(* A publisher: Publish.                                                   *)

\* Publish is called, for an event of the user u.
CallPublish(p, u) ==
    /\ pub[p].pc = "idle"
    /\ sent[p] < MaxEvents
    /\ sent' = [sent EXCEPT ![p] = @ + 1]
    /\ pub' = [pub EXCEPT ![p] = [pc |-> "waiting", user |-> u]]
    /\ UNCHANGED <<subscribers, stream, chan, buffer, got, due, lost>>

\* RLock returns and the range over the channels of the user begins.
RLock(p) ==
    /\ pub[p].pc = "waiting"
    /\ Writers = {}
    /\ LET S == Subscribed(pub[p].user) IN
         /\ pub' = [pub EXCEPT ![p] = [pc |-> "sending", user |-> @.user, todo |-> S]]
         /\ due' = [s \in Streams |-> IF s \in S THEN due[s] + 1 ELSE due[s]]
    /\ UNCHANGED <<subscribers, stream, chan, buffer, sent, got, lost>>

Event(p) == <<p, sent[p]>>

\* Mutant: the send waits for a place in the channel.
SendBlocking(p, s) ==
    /\ pub[p].pc = "sending"
    /\ s \in pub[p].todo
    /\ Len(buffer[s]) < Capacity
    /\ pub' = [pub EXCEPT ![p].todo = @ \ {s}]
    /\ buffer' = [buffer EXCEPT ![s] = Append(@, Event(p))]
    /\ UNCHANGED <<subscribers, stream, chan, sent, got, due, lost>>

\* Mutant: the range ends at the first full channel.
SendOrReturn(p, s) ==
    /\ pub[p].pc = "sending"
    /\ s \in pub[p].todo
    /\ IF Len(buffer[s]) < Capacity
       THEN /\ buffer' = [buffer EXCEPT ![s] = Append(@, Event(p))]
            /\ pub' = [pub EXCEPT ![p].todo = @ \ {s}]
            /\ UNCHANGED lost
       ELSE /\ lost' = [lost EXCEPT ![s] = @ + 1]
            /\ pub' = [pub EXCEPT ![p].todo = {}]
            /\ UNCHANGED buffer
    /\ UNCHANGED <<subscribers, stream, chan, sent, got, due>>

\* Mutant: the channel takes one event too many.
SendOneMore(p, s) ==
    /\ pub[p].pc = "sending"
    /\ s \in pub[p].todo
    /\ pub' = [pub EXCEPT ![p].todo = @ \ {s}]
    /\ IF Len(buffer[s]) <= Capacity
       THEN /\ buffer' = [buffer EXCEPT ![s] = Append(@, Event(p))]
            /\ UNCHANGED lost
       ELSE /\ lost' = [lost EXCEPT ![s] = @ + 1]
            /\ UNCHANGED buffer
    /\ UNCHANGED <<subscribers, stream, chan, sent, got, due>>

\* select { case ch <- event: default: }.  A full channel loses the event, a
\* closed one makes the send panic.
Send(p, s) ==
    /\ pub[p].pc = "sending"
    /\ s \in pub[p].todo
    /\ IF chan[s] = "closed"
       THEN /\ pub' = [pub EXCEPT ![p] = [pc |-> "panic"]]
            /\ UNCHANGED <<buffer, lost>>
       ELSE /\ pub' = [pub EXCEPT ![p].todo = @ \ {s}]
            /\ IF Len(buffer[s]) < Capacity
               THEN /\ buffer' = [buffer EXCEPT ![s] = Append(@, Event(p))]
                    /\ UNCHANGED lost
               ELSE /\ lost' = [lost EXCEPT ![s] = @ + 1]
                    /\ UNCHANGED buffer
    /\ UNCHANGED <<subscribers, stream, chan, sent, got, due>>

\* The range is over: the deferred RUnlock.
RUnlock(p) ==
    /\ pub[p].pc = "sending"
    /\ pub[p].todo = {}
    /\ pub' = [pub EXCEPT ![p] = Resting]
    /\ UNCHANGED <<subscribers, stream, chan, buffer, sent, got, due, lost>>

-----------------------------------------------------------------------------
Publish(p) == RLock(p) \/ RUnlock(p) \/ \E s \in Streams : Send(p, s)

Stream(s) ==
    \/ CallSubscribe(s) \/ Announce(s) \/ Subscribe(s)
    \/ Receive(s)
    \/ CallUnsubscribe(s) \/ Unsubscribe(s)

Next ==
    \/ \E s \in Streams : Stream(s)
    \/ \E p \in Publishers, u \in Users : CallPublish(p, u)
    \/ \E p \in Publishers : Publish(p)

Spec == Init /\ [][Next]_vars

\* Goroutines that can run do: the handlers of the streams too, up to the lock
\* and out of it.
\* A stream need not read its channel: it may be stuck writing to its client.
FairSpec ==
    /\ Spec
    /\ \A p \in Publishers : WF_vars(Publish(p))
    /\ \A s \in Streams : WF_vars(Announce(s) \/ Subscribe(s) \/ Unsubscribe(s))

-----------------------------------------------------------------------------
(* Properties                                                              *)

PubStates ==
    {Resting} \cup [pc : {"waiting"}, user : Users] \cup {[pc |-> "panic"]}
      \cup [pc : {"sending"}, user : Users, todo : SUBSET Streams]

TypeOK ==
    /\ DOMAIN subscribers \subseteq Users
    /\ \A u \in DOMAIN subscribers : subscribers[u] \subseteq Streams
    /\ stream \in [Streams -> {"new", "subscribing", "entering", "on", "leaving", "closing", "gone"}]
    /\ chan \in [Streams -> {"none", "open", "closed"}]
    /\ buffer \in [Streams -> Seq(Publishers \X Nat)]
    /\ \A s \in Streams : Len(buffer[s]) <= Capacity
    /\ pub \in [Publishers -> PubStates]
    /\ sent \in [Publishers -> Nat]
    /\ got \in [Streams -> Seq(Publishers \X Nat)]
    /\ due \in [Streams -> Nat]
    /\ lost \in [Streams -> Nat]

\* No publisher ever sends on a channel that was closed under it, which would
\* panic: the channel leaves the map and is closed in one critical section
\* that no publisher overlaps.
NeverPanics == \A p \in Publishers : pub[p].pc # "panic"

\* The map lists exactly the channels of the streams between Subscribe and
\* unsubscribe, under their users, and keeps no empty set: a user who leaves
\* leaves nothing behind, and takes no other stream along.
MapIsExact ==
    /\ \A s \in Streams, u \in Users :
         s \in Subscribed(u) <=> u = UserOf[s] /\ stream[s] \in {"on", "leaving", "closing"}
    /\ \A u \in DOMAIN subscribers : subscribers[u] # {}

Log(s) == got[s] \o buffer[s]

\* A stream gets the events of a publisher in the order of their publication
\* and none of them twice.
InOrder ==
    \A s \in Streams : \A i, j \in DOMAIN Log(s) :
        i < j /\ Log(s)[i][1] = Log(s)[j][1] => Log(s)[i][2] < Log(s)[j][2]

Sending(s) == {p \in Readers : s \in pub[p].todo}

\* A full channel costs no other stream its event: each publication for the
\* user of a stream is received, waits in its channel, was refused by its own
\* full channel or is still being sent to it.
EachConsidered ==
    \A s \in Streams :
        due[s] = Len(got[s]) + Len(buffer[s]) + lost[s] + Cardinality(Sending(s))

\* Publish returns although no stream reads its channel.
PublishReturns == \A p \in Publishers : pub[p].pc = "waiting" ~> pub[p].pc = "idle"

\* A stream that ends gets the mutex, however busy the publishers are.
UnsubscribeReturns == \A s \in Streams : stream[s] = "leaving" ~> stream[s] = "gone"

\* Neither call of the broker waits for a slow client.
CallsReturn == PublishReturns /\ UnsubscribeReturns

-----------------------------------------------------------------------------
(* The inductive invariants behind NeverPanics, MapIsExact and InOrder      *)
(* (proved in EventBroker_proofs).                                          *)

\* A channel is open from the call of Subscribe to the end of unsubscribe.
ChannelStates ==
    \A s \in Streams :
        chan[s] = CASE stream[s] = "new"  -> "none"
                    [] stream[s] = "gone" -> "closed"
                    [] OTHER              -> "open"

\* What a publisher has still to send to is subscribed.
TodoSubscribed ==
    \A p \in Readers : pub[p].todo \subseteq Subscribed(pub[p].user)

SafetyInv == TypeOK /\ NeverPanics /\ MapIsExact /\ ChannelStates /\ TodoSubscribed

\* No event is numbered beyond the one its publisher is publishing, and that
\* one has not reached the streams it is still to be sent to.
NoneAhead ==
    \A s \in Streams : \A i \in DOMAIN Log(s) :
        LET p == Log(s)[i][1] IN
        /\ Log(s)[i][2] <= sent[p]
        /\ pub[p].pc = "waiting" \/ p \in Sending(s) => Log(s)[i][2] < sent[p]

OrderInv == TypeOK /\ InOrder /\ NoneAhead
=============================================================================
