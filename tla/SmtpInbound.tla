---------------------------- MODULE SmtpInbound ------------------------------
(***************************************************************************)
(* The inbound SMTP server of the mail service: the accept loop, one       *)
(* goroutine per connection with its envelope, and the delivery of a       *)
(* message to the inboxes of its recipients.                               *)
(*                                                                         *)
(* A client may send its commands in any order, and sends a message again  *)
(* as long as it pleases; a delivery makes several database calls for each *)
(* recipient, and accounts may be deleted in between.                      *)
(*                                                                         *)
(* What is abstracted: refused commands and those that change nothing      *)
(* (NOOP, VRFY, STARTTLS: main passes no TLS configuration); contents; the *)
(* domain of an address: RCPT takes the addresses that have an account.    *)
(***************************************************************************)
EXTENDS Naturals, Sequences, FiniteSets, SequencesExt

CONSTANTS Connections,    \* connections that clients may open, each once
          Messages,       \* messages of the clients
          Addresses,      \* addresses that have an account at first
          MaxRecipients,  \* maxRecipients (100 in server.go)
          MaxMails,       \* bound on the MAIL commands of all connections
          MaxFaults,      \* bound on failed database calls and crashes
          NoSender

ASSUME SmtpInboundAssumption ==
    /\ MaxRecipients \in Nat \ {0}
    /\ MaxMails \in Nat
    /\ MaxFaults \in Nat
    /\ NoSender \notin Messages

VARIABLES
    server,    \* the state of the Server
    conn,      \* the Session of each connection
    accounts,  \* addresses with an account
    stored,    \* rows of a message in the inbox of an address
    mails,     \* MAIL commands accepted
    asked,     \* RCPT commands accepted for a message and an address
    acked,     \* messages and addresses a 250 after DATA was sent for
    faults

vars == <<server, conn, accounts, stored, mails, asked, acked, faults>>

Delivering == {"lookup", "store"}
Serving    == {"command", "data"} \cup Delivering

\* mailFrom and rcptTo, as reset leaves them.  mailFrom stands for the
\* message the client is sending.
NoConnection ==
    [pc |-> "none", helo |-> FALSE, mailFrom |-> NoSender, rcptTo |-> <<>>,
     next |-> 0, late |-> FALSE]

Init ==
    /\ server = "listening"
    /\ conn = [c \in Connections |-> NoConnection]
    /\ accounts = Addresses
    /\ stored = [m \in Messages |-> [a \in Addresses |-> 0]]
    /\ mails = 0
    /\ asked = [m \in Messages |-> [a \in Addresses |-> 0]]
    /\ acked = {}
    /\ faults = 0

-----------------------------------------------------------------------------
(* The server: acceptLoop and Stop.                                        *)

\* Accept returns a connection to the one accept loop.
Accept(c) ==
    /\ server = "listening"
    /\ conn[c].pc = "none"
    /\ \A d \in Connections : conn[d].pc # "accepted"
    /\ conn' = [conn EXCEPT ![c].pc = "accepted"]
    /\ UNCHANGED <<server, accounts, stored, mails, asked, acked, faults>>

\* wg.Add(1) and the goroutine of the connection.  Nothing keeps a Stop from
\* coming between Accept and this.
HandleConn(c) ==
    /\ server # "exited"
    /\ conn[c].pc = "accepted"
    /\ conn' = [conn EXCEPT ![c].pc = "command", ![c].late = server # "listening"]
    /\ UNCHANGED <<server, accounts, stored, mails, asked, acked, faults>>

\* Stop closes the listener.
BeginStop ==
    /\ server = "listening"
    /\ server' = "stopping"
    /\ UNCHANGED <<conn, accounts, stored, mails, asked, acked, faults>>

\* Mutant: Stop does not wait for the sessions.
EndStopAtOnce ==
    /\ server = "stopping"
    /\ server' = "stopped"
    /\ UNCHANGED <<conn, accounts, stored, mails, asked, acked, faults>>

\* wg.Wait() returns.
EndStop ==
    /\ server = "stopping"
    /\ \A c \in Connections : conn[c].pc \notin Serving
    /\ server' = "stopped"
    /\ UNCHANGED <<conn, accounts, stored, mails, asked, acked, faults>>

Closed(c) == [conn[c] EXCEPT !.pc = IF @ = "none" THEN @ ELSE "closed"]

\* main returns after Stop, and with it every goroutine.
Exit ==
    /\ server = "stopped"
    /\ server' = "exited"
    /\ conn' = [c \in Connections |-> Closed(c)]
    /\ UNCHANGED <<accounts, stored, mails, asked, acked, faults>>

\* The process dies and is started again.
Crash ==
    /\ faults < MaxFaults
    /\ server # "exited"
    /\ \E c \in Connections : conn[c].pc \notin {"none", "closed"}
    /\ server' = "listening"
    /\ conn' = [c \in Connections |-> Closed(c)]
    /\ faults' = faults + 1
    /\ UNCHANGED <<accounts, stored, mails, asked, acked>>

-----------------------------------------------------------------------------
(* The commands of a session.                                              *)

\* Mutant: the recipients survive a reset.
ResetSender(s) == [s EXCEPT !.mailFrom = NoSender]

Reset(s) == [s EXCEPT !.mailFrom = NoSender, !.rcptTo = <<>>]

\* handleHELO and handleEHLO
Hello(c) ==
    /\ conn[c].pc = "command"
    /\ conn' = [conn EXCEPT ![c] = [Reset(@) EXCEPT !.helo = TRUE]]
    /\ UNCHANGED <<server, accounts, stored, mails, asked, acked, faults>>

\* handleRSET
Rset(c) ==
    /\ conn[c].pc = "command"
    /\ conn' = [conn EXCEPT ![c] = Reset(@)]
    /\ UNCHANGED <<server, accounts, stored, mails, asked, acked, faults>>

\* handleMAIL
Mail(c, m) ==
    /\ conn[c].pc = "command"
    /\ conn[c].helo
    /\ conn[c].mailFrom = NoSender
    /\ mails < MaxMails
    /\ conn' = [conn EXCEPT ![c].mailFrom = m]
    /\ mails' = mails + 1
    /\ UNCHANGED <<server, accounts, stored, asked, acked, faults>>

\* Mutant: the limit is checked one recipient too late.
RcptOneMore(c, a) ==
    /\ conn[c].pc = "command"
    /\ conn[c].mailFrom # NoSender
    /\ Len(conn[c].rcptTo) <= MaxRecipients
    /\ a \in accounts
    /\ conn' = [conn EXCEPT ![c].rcptTo = Append(@, a)]
    /\ asked' = [asked EXCEPT ![conn[c].mailFrom][a] = @ + 1]
    /\ UNCHANGED <<server, accounts, stored, mails, acked, faults>>

\* handleRCPT.  An address that is named twice is a recipient twice.
Rcpt(c, a) ==
    /\ conn[c].pc = "command"
    /\ conn[c].mailFrom # NoSender
    /\ Len(conn[c].rcptTo) < MaxRecipients
    /\ a \in accounts
    /\ conn' = [conn EXCEPT ![c].rcptTo = Append(@, a)]
    /\ asked' = [asked EXCEPT ![conn[c].mailFrom][a] = @ + 1]
    /\ UNCHANGED <<server, accounts, stored, mails, acked, faults>>

\* handleDATA, up to the 354.
Data(c) ==
    /\ conn[c].pc = "command"
    /\ conn[c].mailFrom # NoSender
    /\ conn[c].rcptTo # <<>>
    /\ conn' = [conn EXCEPT ![c].pc = "data"]
    /\ UNCHANGED <<server, accounts, stored, mails, asked, acked, faults>>

\* QUIT, or the client hangs up, or the read deadline of a command passes.
Quit(c) ==
    /\ conn[c].pc = "command"
    /\ conn' = [conn EXCEPT ![c].pc = "closed"]
    /\ UNCHANGED <<server, accounts, stored, mails, asked, acked, faults>>

\* The lone dot: deliverMessage starts with the first recipient.
EndOfData(c) ==
    /\ conn[c].pc = "data"
    /\ conn' = [conn EXCEPT ![c].pc = "lookup", ![c].next = 1]
    /\ UNCHANGED <<server, accounts, stored, mails, asked, acked, faults>>

\* The five minutes that were set once for all of DATA are over: handleDATA
\* returns without a reply and without a reset, and the command loop goes on,
\* with a new deadline and the envelope that was there. So the client may name
\* more recipients and send the data again. (MAIL is refused as long as there is
\* a sender; the clients here send no other message in an envelope they were
\* refused a new one for.) If the client has hung up, Quit is next.
DataDeadline(c) ==
    /\ conn[c].pc = "data"
    /\ conn' = [conn EXCEPT ![c].pc = "command"]
    /\ UNCHANGED <<server, accounts, stored, mails, asked, acked, faults>>

\* 552: the rest of the message is then read as commands.
TooLarge(c) ==
    /\ conn[c].pc = "data"
    /\ conn' = [conn EXCEPT ![c] = [Reset(@) EXCEPT !.pc = "command"]]
    /\ UNCHANGED <<server, accounts, stored, mails, asked, acked, faults>>

-----------------------------------------------------------------------------
(* deliverMessage, recipient by recipient.                                 *)

Rcpts(c) == conn[c].rcptTo
Now(c)   == Rcpts(c)[conn[c].next]

\* The reply, 250 for the pairs of the message or 451, and the reset.
Reply(c, pairs) ==
    /\ conn' = [conn EXCEPT ![c] = [Reset(@) EXCEPT !.pc = "command", !.next = 0]]
    /\ acked' = acked \cup pairs

\* The message cannot be parsed: 451.
Unparsable(c) ==
    /\ conn[c].pc = "data"
    /\ Reply(c, {})
    /\ UNCHANGED <<server, accounts, stored, mails, asked, faults>>

\* The user of the next recipient is found.
FindUser(c) ==
    /\ conn[c].pc = "lookup"
    /\ conn[c].next <= Len(Rcpts(c))
    /\ Now(c) \in accounts
    /\ conn' = [conn EXCEPT ![c].pc = "store"]
    /\ UNCHANGED <<server, accounts, stored, mails, asked, acked, faults>>

\* Any error of the lookup skips the recipient: its account is gone, or the
\* database call failed.
SkipUser(c) ==
    /\ conn[c].pc = "lookup"
    /\ conn[c].next <= Len(Rcpts(c))
    /\ \/ Now(c) \notin accounts /\ UNCHANGED faults
       \/ faults < MaxFaults /\ faults' = faults + 1
    /\ conn' = [conn EXCEPT ![c].next = @ + 1]
    /\ UNCHANGED <<server, accounts, stored, mails, asked, acked>>

Insert(c) == stored' = [stored EXCEPT ![conn[c].mailFrom][Now(c)] = @ + 1]

\* CreateInboundMessage and its attachments.
StoreMessage(c) ==
    /\ conn[c].pc = "store"
    /\ Now(c) \in accounts
    /\ Insert(c)
    /\ conn' = [conn EXCEPT ![c].pc = "lookup", ![c].next = @ + 1]
    /\ UNCHANGED <<server, accounts, mails, asked, acked, faults>>

\* A database call fails, or the account is gone by now: 451, although the
\* recipients before this one have got the message.
StoreFails(c) ==
    /\ conn[c].pc = "store"
    /\ \/ Now(c) \notin accounts /\ UNCHANGED faults
       \/ faults < MaxFaults /\ faults' = faults + 1
    /\ Reply(c, {})
    /\ UNCHANGED <<server, accounts, stored, mails, asked>>

\* The row is there but one of its attachments cannot be stored: 451.
AttachmentFails(c) ==
    /\ conn[c].pc = "store"
    /\ faults < MaxFaults
    /\ Now(c) \in accounts
    /\ Insert(c)
    /\ Reply(c, {})
    /\ faults' = faults + 1
    /\ UNCHANGED <<server, accounts, mails, asked>>

\* The loop ends: 250.
Delivered(c) ==
    /\ conn[c].pc = "lookup"
    /\ conn[c].next > Len(Rcpts(c))
    /\ Reply(c, {<<conn[c].mailFrom, a>> : a \in ToSet(Rcpts(c))})
    /\ UNCHANGED <<server, accounts, stored, mails, asked, faults>>

\* An account is deleted, with its mailbox.
DeleteAccount(a) ==
    /\ a \in accounts
    /\ accounts' = accounts \ {a}
    /\ stored' = [m \in Messages |-> [stored[m] EXCEPT ![a] = 0]]
    /\ UNCHANGED <<server, conn, mails, asked, acked, faults>>

-----------------------------------------------------------------------------
Command(c) ==
    \/ Hello(c) \/ Rset(c) \/ Data(c) \/ Quit(c)
    \/ \E m \in Messages : Mail(c, m)
    \/ \E a \in Addresses : Rcpt(c, a)

Deliver(c) ==
    \/ FindUser(c) \/ SkipUser(c) \/ StoreMessage(c) \/ StoreFails(c)
    \/ AttachmentFails(c) \/ Delivered(c)

Next ==
    \/ \E c \in Connections : Accept(c) \/ HandleConn(c)
    \/ BeginStop \/ EndStop \/ Exit \/ Crash
    \/ \E c \in Connections : Command(c)
    \/ \E c \in Connections : EndOfData(c) \/ Unparsable(c) \/ DataDeadline(c) \/ TooLarge(c)
    \/ \E c \in Connections : Deliver(c)
    \/ \E a \in Addresses : DeleteAccount(a)

Spec == Init /\ [][Next]_vars

-----------------------------------------------------------------------------
(* Properties                                                              *)

Sessions ==
    [pc : {"none", "accepted", "closed"} \cup Serving, helo : BOOLEAN,
     mailFrom : Messages \cup {NoSender}, rcptTo : Seq(Addresses), next : Nat, late : BOOLEAN]

TypeOK ==
    /\ server \in {"listening", "stopping", "stopped", "exited"}
    /\ conn \in [Connections -> Sessions]
    /\ \A c \in Connections :
         /\ Len(conn[c].rcptTo) <= MaxRecipients
         /\ conn[c].pc \in Delivering => conn[c].mailFrom # NoSender /\ conn[c].next > 0
    /\ accounts \subseteq Addresses
    /\ stored \in [Messages -> [Addresses -> Nat]]
    /\ mails \in 0..MaxMails
    /\ asked \in [Messages -> [Addresses -> Nat]]
    /\ acked \subseteq Messages \X Addresses
    /\ faults \in 0..MaxFaults

\* A client that sends a message again after a 451 makes copies of it, but an
\* address gets no more of them than the client named it for that very message:
\* no recipient of an earlier envelope of the session is carried over.
CopiesBounded ==
    \A m \in Messages, a \in Addresses : stored[m][a] <= asked[m][a]

\* While no database call fails, a 250 after DATA means that the message is
\* in the inbox of every recipient that still has an account, whatever other
\* sessions and deletions of accounts came between.
AckedIsStored ==
    faults = 0 => \A p \in acked : p[2] \in accounts => stored[p[1]][p[2]] > 0

\* What the server stores is what the client asked for and was told.
DeliveredAsAsked == CopiesBounded /\ AckedIsStored

\* "Deliver to each local recipient" (session.go:266) before "250 OK: queued"
\* (session.go:236): the same, whatever fails.
AckedIsStoredAlways ==
    \A p \in acked : p[2] \in accounts => stored[p[1]][p[2]] > 0

\* A delivery is cut short only by a crash, or if its connection was handed
\* over after Stop had begun.
GracefulStop ==
    [][\A c \in Connections :
         conn[c].pc \in Delivering /\ conn[c].pc' = "closed" =>
            faults' > faults \/ conn[c].late]_vars
-----------------------------------------------------------------------------
(* The inductive invariants behind DeliveredAsAsked and GracefulStop       *)
(* (proved in Services_proofs).                                             *)

\* A session without a sender has no recipients, one that takes or delivers data has
\* a sender, and a recipient that was found is one of the list.
EnvelopeOK ==
    \A c \in Connections :
        /\ conn[c].mailFrom = NoSender => conn[c].rcptTo = <<>>
        /\ conn[c].pc = "data" => conn[c].mailFrom # NoSender
        /\ conn[c].pc = "store" => conn[c].next <= Len(conn[c].rcptTo)

\* The places of an envelope from which a may still get m.
Due(s, m, a) ==
    {i \in DOMAIN s.rcptTo :
        /\ s.pc # "closed" /\ s.mailFrom = m /\ s.rcptTo[i] = a
        /\ s.pc \in Delivering => s.next <= i}

\* Those of all sessions.
Outstanding(m, a) ==
    {p \in Connections \X (1..MaxRecipients) : p[2] \in Due(conn[p[1]], m, a)}

\* Each copy, and each place that may still make one, has a RCPT command of its own.
EachWasAsked ==
    \A m \in Messages, a \in Addresses :
        /\ IsFiniteSet(Outstanding(m, a))
        /\ stored[m][a] + Cardinality(Outstanding(m, a)) <= asked[m][a]

\* While nothing failed, the recipients a delivery has passed have got the message.
PassedHaveIt ==
    faults = 0 =>
        \A c \in Connections : conn[c].pc \in Delivering =>
            \A i \in DOMAIN conn[c].rcptTo :
                i < conn[c].next /\ conn[c].rcptTo[i] \in accounts =>
                    stored[conn[c].mailFrom][conn[c].rcptTo[i]] > 0

\* Only sessions that came too late outlive Stop.
OnlyLateServed ==
    server \in {"stopped", "exited"} =>
        \A c \in Connections : conn[c].pc \in Serving => conn[c].late

SmtpInv ==
    TypeOK /\ EnvelopeOK /\ EachWasAsked /\ AckedIsStored /\ PassedHaveIt /\ OnlyLateServed
=============================================================================
