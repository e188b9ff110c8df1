---------------------------- MODULE Services_proofs ----------------------------
(* The safety of the inbound SMTP server, of the auth service and of the        *)
(* verification of custom domains, for any connections, messages, addresses,    *)
(* passwords, domains and records, and any numbers of requests, faults and      *)
(* failures; and of the three side by side, as MCServices instantiates them.    *)
EXTENDS MCServices, SequenceTheorems, FiniteSetTheorems, TLAPS

-------------------------------------------------------------------------------
(* I. The inbound SMTP server. *)
-----------------------------------------------------------------------------
(* Types. *)

\* What the handlers do to a session keeps it one.
LEMMA SessionTypes ==
    ASSUME TypeOK, NEW c \in Connections
    PROVE  /\ conn[c] \in Sessions
           /\ Reset(conn[c]) \in Sessions
           /\ Closed(c) \in Sessions
           /\ Len(conn[c].rcptTo) \in Nat
<1>1. conn[c] \in Sessions BY DEF TypeOK
<1>2. <<>> \in Seq(Addresses) /\ NoSender \in Messages \cup {NoSender} OBVIOUS
<1>3. Len(conn[c].rcptTo) \in Nat BY <1>1 DEF Sessions
<1> QED BY <1>1, <1>2, <1>3 DEF Sessions, Reset, Closed

\* A step that puts a session of the right shape in the place of another one.
LEMMA TypeOfOne ==
    ASSUME TypeOK, NEW c \in Connections, NEW s \in Sessions,
           conn' = [conn EXCEPT ![c] = s],
           Len(s.rcptTo) <= MaxRecipients,
           s.pc \in Delivering => s.mailFrom # NoSender /\ s.next > 0,
           server' = server, accounts' \subseteq Addresses,
           stored' \in [Messages -> [Addresses -> Nat]], mails' \in 0..MaxMails,
           asked' \in [Messages -> [Addresses -> Nat]], acked' \subseteq Messages \X Addresses,
           faults' \in 0..MaxFaults
    PROVE  TypeOK'
  BY DEF TypeOK

LEMMA TypeStep == TypeOK /\ EnvelopeOK /\ [Next]_vars => TypeOK'
<1> SUFFICES ASSUME TypeOK, EnvelopeOK, [Next]_vars PROVE TypeOK' OBVIOUS
<1> USE SmtpInboundAssumption
<1>s. \A c \in Connections :
        /\ conn[c] \in Sessions /\ Reset(conn[c]) \in Sessions
        /\ Len(conn[c].rcptTo) \in Nat /\ Len(conn[c].rcptTo) <= MaxRecipients
        /\ Reset(conn[c]).pc = conn[c].pc /\ Reset(conn[c]).rcptTo = <<>>
  BY SessionTypes DEF TypeOK, Reset, Sessions
<1>1. ASSUME NEW c \in Connections, Accept(c) \/ HandleConn(c) \/ Data(c) \/ Quit(c)
             \/ EndOfData(c) \/ DataDeadline(c)
      PROVE  TypeOK'
  <2>1. PICK s \in Sessions :
          /\ conn' = [conn EXCEPT ![c] = s]
          /\ s.rcptTo = conn[c].rcptTo /\ s.mailFrom = conn[c].mailFrom
          /\ s.pc \in Delivering => conn[c].pc = "data" /\ s.next > 0
    <3>1. CASE Accept(c)
      <4> DEFINE s == [conn[c] EXCEPT !.pc = "accepted"]
      <4>1. s \in Sessions BY <1>s DEF Sessions
      <4> QED BY <1>s, <3>1, <4>1 DEF Accept, Sessions, Delivering, TypeOK
    <3>2. CASE HandleConn(c)
      <4> DEFINE s == [conn[c] EXCEPT !.pc = "command", !.late = server # "listening"]
      <4>1. s \in Sessions BY <1>s DEF Sessions, Serving
      <4>2. conn' = [conn EXCEPT ![c] = s] BY <3>2 DEF HandleConn, TypeOK
      <4> QED BY <1>s, <4>1, <4>2 DEF Sessions, Delivering
    <3>3. CASE Data(c)
      <4> DEFINE s == [conn[c] EXCEPT !.pc = "data"]
      <4>1. s \in Sessions BY <1>s DEF Sessions, Serving
      <4> QED BY <1>s, <3>3, <4>1 DEF Data, Sessions, Delivering, TypeOK
    <3>4. CASE Quit(c) \/ DataDeadline(c)
      <4>1. PICK pc \in {"closed", "command"} : conn' = [conn EXCEPT ![c].pc = pc]
        BY <3>4 DEF Quit, DataDeadline
      <4> DEFINE s == [conn[c] EXCEPT !.pc = pc]
      <4>2. s \in Sessions BY <1>s DEF Sessions, Serving
      <4> QED BY <1>s, <4>1, <4>2 DEF Sessions, Delivering, TypeOK
    <3>5. CASE EndOfData(c)
      <4> DEFINE s == [conn[c] EXCEPT !.pc = "lookup", !.next = 1]
      <4>1. s \in Sessions BY <1>s DEF Sessions, Serving, Delivering
      <4>2. conn' = [conn EXCEPT ![c] = s] /\ conn[c].pc = "data" BY <3>5 DEF EndOfData, TypeOK
      <4>3. s.rcptTo = conn[c].rcptTo /\ s.mailFrom = conn[c].mailFrom /\ s.next = 1
        BY <1>s DEF Sessions
      <4>4. s.next > 0 BY <4>3
      <4> HIDE DEF s
      <4> QED BY <4>1, <4>2, <4>3, <4>4, Zenon
    <3> QED BY <1>1, <3>1, <3>2, <3>3, <3>4, <3>5
  <2>2. UNCHANGED <<server, accounts, stored, mails, asked, acked, faults>>
    BY <1>1 DEF Accept, HandleConn, Data, Quit, EndOfData, DataDeadline
  <2> QED BY <1>s, <2>1, <2>2, TypeOfOne DEF TypeOK, EnvelopeOK
<1>2. ASSUME NEW c \in Connections, Hello(c) \/ Rset(c) \/ TooLarge(c) PROVE TypeOK'
  <2>1. PICK s \in Sessions :
          conn' = [conn EXCEPT ![c] = s] /\ s.rcptTo = <<>> /\ s.pc = "command"
    <3> DEFINE h == [Reset(conn[c]) EXCEPT !.helo = TRUE]
               t == [Reset(conn[c]) EXCEPT !.pc = "command"]
    <3>1. h \in Sessions /\ h.rcptTo = <<>> /\ h.pc = conn[c].pc BY <1>s DEF Sessions
    <3>2. t \in Sessions /\ t.rcptTo = <<>> /\ t.pc = "command" BY <1>s DEF Sessions, Serving
    <3>3. \/ conn' = [conn EXCEPT ![c] = h] /\ conn[c].pc = "command"
          \/ conn' = [conn EXCEPT ![c] = Reset(conn[c])] /\ conn[c].pc = "command"
          \/ conn' = [conn EXCEPT ![c] = t]
      BY <1>2 DEF Hello, Rset, TooLarge
    <3> HIDE DEF h, t
    <3> QED BY <1>s, <3>1, <3>2, <3>3
  <2>2. UNCHANGED <<server, accounts, stored, mails, asked, acked, faults>>
    BY <1>2 DEF Hello, Rset, TooLarge
  <2> QED BY <2>1, <2>2, TypeOfOne DEF TypeOK, Delivering
<1>3. ASSUME NEW c \in Connections, NEW m \in Messages, Mail(c, m) PROVE TypeOK'
  <2> DEFINE s == [conn[c] EXCEPT !.mailFrom = m]
  <2>1. /\ s \in Sessions /\ s.rcptTo = conn[c].rcptTo /\ s.pc = "command"
        /\ conn' = [conn EXCEPT ![c] = s]
    BY <1>s, <1>3 DEF Mail, Sessions, TypeOK
  <2>2. mails' \in 0..MaxMails BY <1>3 DEF Mail, TypeOK
  <2> HIDE DEF s
  <2> QED BY <1>3, <1>s, <2>1, <2>2, TypeOfOne DEF Mail, TypeOK, Delivering
<1>4. ASSUME NEW c \in Connections, NEW a \in Addresses, Rcpt(c, a) PROVE TypeOK'
  <2> DEFINE s == [conn[c] EXCEPT !.rcptTo = Append(@, a)]
  <2>1. /\ Append(conn[c].rcptTo, a) \in Seq(Addresses)
        /\ Len(Append(conn[c].rcptTo, a)) = Len(conn[c].rcptTo) + 1
    <3>1. conn[c].rcptTo \in Seq(Addresses) BY <1>s DEF Sessions
    <3> QED BY <3>1
  <2>2. /\ s \in Sessions /\ s.rcptTo = Append(conn[c].rcptTo, a) /\ s.pc = "command"
        /\ conn' = [conn EXCEPT ![c] = s]
    BY <1>s, <1>4, <2>1 DEF Rcpt, Sessions, TypeOK
  <2>3. Len(s.rcptTo) <= MaxRecipients
    <3>1. Len(conn[c].rcptTo) < MaxRecipients BY <1>4 DEF Rcpt
    <3> HIDE DEF s
    <3> QED BY <1>s, <2>1, <2>2, <3>1
  <2>4. asked' \in [Messages -> [Addresses -> Nat]]
    <3>1. conn[c].mailFrom \in Messages BY <1>s, <1>4 DEF Rcpt, Sessions
    <3> QED BY <3>1, <1>4 DEF Rcpt, TypeOK
  <2> HIDE DEF s
  <2> QED BY <1>4, <2>2, <2>3, <2>4, TypeOfOne DEF Rcpt, TypeOK, Delivering
<1>5. ASSUME NEW c \in Connections, NEW pairs \in SUBSET (Messages \X Addresses), Reply(c, pairs),
             stored' \in [Messages -> [Addresses -> Nat]], faults' \in 0..MaxFaults,
             UNCHANGED <<server, accounts, mails, asked>>
      PROVE  TypeOK'
  <2> DEFINE s == [Reset(conn[c]) EXCEPT !.pc = "command", !.next = 0]
  <2>1. s \in Sessions /\ s.rcptTo = <<>> /\ s.pc = "command" BY <1>s DEF Sessions, Serving
  <2>2. conn' = [conn EXCEPT ![c] = s] /\ acked' = acked \cup pairs BY <1>5 DEF Reply
  <2> HIDE DEF s
  <2> QED BY <1>5, <2>1, <2>2, TypeOfOne DEF TypeOK, Delivering
<1>i. ASSUME NEW c \in Connections, Insert(c), conn[c].pc = "store", Now(c) \in accounts
      PROVE  stored' \in [Messages -> [Addresses -> Nat]]
  <2>1. conn[c].mailFrom \in Messages /\ Now(c) \in Addresses
    BY <1>i, <1>s DEF TypeOK, Sessions, Delivering
  <2> QED BY <1>i, <2>1 DEF Insert, TypeOK
<1>6. ASSUME NEW c \in Connections, Deliver(c) \/ Unparsable(c) PROVE TypeOK'
  <2>1. CASE FindUser(c)
    <3> DEFINE s == [conn[c] EXCEPT !.pc = "store"]
    <3>1. /\ s \in Sessions /\ s.rcptTo = conn[c].rcptTo /\ s.next = conn[c].next
          /\ s.mailFrom = conn[c].mailFrom
      BY <1>s DEF Sessions, Serving, Delivering
    <3>2. conn' = [conn EXCEPT ![c] = s] /\ conn[c].pc \in Delivering
      BY <2>1 DEF FindUser, Delivering
    <3> HIDE DEF s
    <3>3. s.pc \in Delivering => s.mailFrom # NoSender /\ s.next > 0 BY <3>1, <3>2 DEF TypeOK
    <3>4. Len(s.rcptTo) <= MaxRecipients BY <1>s, <3>1
    <3> QED BY <2>1, <3>1, <3>2, <3>3, <3>4, TypeOfOne DEF FindUser, TypeOK
  <2>2. CASE SkipUser(c) \/ StoreMessage(c)
    <3> DEFINE s == [conn[c] EXCEPT !.pc = "lookup", !.next = @ + 1]
    <3>1. /\ s \in Sessions /\ s.rcptTo = conn[c].rcptTo /\ s.next = conn[c].next + 1
          /\ s.mailFrom = conn[c].mailFrom /\ conn[c].next \in Nat
      <4>1. conn[c] \in Sessions /\ conn[c].next \in Nat /\ conn[c].next + 1 \in Nat
        BY <1>s DEF Sessions
      <4>2. "lookup" \in Serving BY DEF Serving, Delivering
      <4> QED BY <4>1, <4>2 DEF Sessions
    <3>2. conn' = [conn EXCEPT ![c] = s] /\ conn[c].pc \in Delivering
      <4>1. CASE SkipUser(c)
        <5>1. [conn[c] EXCEPT !.next = @ + 1] = s BY <4>1, <1>s DEF SkipUser, Sessions
        <5> QED BY <4>1, <5>1 DEF SkipUser, Delivering
      <4>2. CASE StoreMessage(c) BY <4>2 DEF StoreMessage, Delivering, TypeOK
      <4> QED BY <2>2, <4>1, <4>2
    <3>3. stored' \in [Messages -> [Addresses -> Nat]] /\ faults' \in 0..MaxFaults
      BY <2>2, <1>i DEF SkipUser, StoreMessage, TypeOK
    <3> HIDE DEF s
    <3>4. s.pc \in Delivering => s.mailFrom # NoSender /\ s.next > 0 BY <3>1, <3>2 DEF TypeOK
    <3>5. Len(s.rcptTo) <= MaxRecipients BY <1>s, <3>1
    <3>6. UNCHANGED <<server, accounts, mails, asked, acked>> BY <2>2 DEF SkipUser, StoreMessage
    <3> QED BY <3>1, <3>2, <3>3, <3>4, <3>5, <3>6, TypeOfOne DEF TypeOK
  <2>3. CASE StoreFails(c) \/ AttachmentFails(c) \/ Unparsable(c)
    <3>1. stored' \in [Messages -> [Addresses -> Nat]]
      <4>1. stored' = stored \/ AttachmentFails(c) BY <2>3 DEF StoreFails, Unparsable
      <4>2. CASE AttachmentFails(c) BY <4>2, <1>i DEF AttachmentFails
      <4> QED BY <4>1, <4>2 DEF TypeOK
    <3>2. faults' \in 0..MaxFaults BY <2>3 DEF StoreFails, AttachmentFails, Unparsable, TypeOK
    <3> QED BY <2>3, <3>1, <3>2, <1>5 DEF StoreFails, AttachmentFails, Unparsable
  <2>4. CASE Delivered(c)
    <3>1. conn[c].mailFrom \in Messages /\ ToSet(Rcpts(c)) \subseteq Addresses
      BY <2>4, <1>s DEF Delivered, TypeOK, Delivering, Sessions, ToSet, Rcpts
    <3> DEFINE pairs == {<<conn[c].mailFrom, a>> : a \in ToSet(Rcpts(c))}
    <3>2. pairs \in SUBSET (Messages \X Addresses) BY <3>1
    <3>3. Reply(c, pairs) /\ UNCHANGED <<server, accounts, stored, mails, asked, faults>>
      BY <2>4 DEF Delivered
    <3> HIDE DEF pairs
    <3>4. stored' \in [Messages -> [Addresses -> Nat]] /\ faults' \in 0..MaxFaults
      BY <3>3 DEF TypeOK
    <3> QED BY <3>2, <3>3, <3>4, <1>5
  <2> QED BY <1>6, <2>1, <2>2, <2>3, <2>4 DEF Deliver
<1>7. CASE BeginStop \/ EndStop BY <1>7 DEF BeginStop, EndStop, TypeOK
<1>8. CASE Exit \/ Crash
  <2>1. /\ conn' \in [Connections -> Sessions]
        /\ \A c \in Connections : conn'[c].rcptTo = conn[c].rcptTo /\ conn'[c].pc \notin Delivering
    BY <1>8, <1>s, SessionTypes DEF Exit, Crash, Closed, Sessions, Delivering
  <2>2. server' \in {"listening", "exited"} /\ faults' \in 0..MaxFaults
    BY <1>8 DEF Exit, Crash, TypeOK
  <2> QED BY <1>8, <2>1, <2>2 DEF Exit, Crash, TypeOK
<1>9. ASSUME NEW a \in Addresses, DeleteAccount(a) PROVE TypeOK' BY <1>9 DEF DeleteAccount, TypeOK
<1>10. CASE UNCHANGED vars BY <1>10 DEF vars, TypeOK
<1> QED BY <1>1, <1>2, <1>3, <1>4, <1>6, <1>7, <1>8, <1>9, <1>10 DEF Next, Command

\* The commands that empty the envelope.
LEMMA Emptied ==
    ASSUME TypeOK, NEW c \in Connections, Hello(c) \/ Rset(c) \/ TooLarge(c)
    PROVE  /\ \A d \in Connections : d # c => conn'[d] = conn[d]
           /\ conn'[c].rcptTo = <<>> /\ conn'[c].pc = "command"
<1>1. /\ conn \in [Connections -> Sessions] /\ Reset(conn[c]) \in Sessions
      /\ Reset(conn[c]).pc = conn[c].pc /\ Reset(conn[c]).rcptTo = <<>>
  BY SessionTypes DEF TypeOK, Reset, Sessions
<1>2. CASE Hello(c)
  <2>1. conn[c].pc = "command" /\ conn' = [conn EXCEPT ![c] = [Reset(conn[c]) EXCEPT !.helo = TRUE]]
    BY <1>2 DEF Hello
  <2> QED BY <1>1, <2>1 DEF Sessions
<1>3. CASE Rset(c) BY <1>1, <1>3 DEF Rset
<1>4. CASE TooLarge(c)
  <2>1. conn' = [conn EXCEPT ![c] = [Reset(conn[c]) EXCEPT !.pc = "command"]] BY <1>4 DEF TooLarge
  <2> QED BY <1>1, <2>1 DEF Sessions
<1> QED BY <1>2, <1>3, <1>4

LEMMA EnvelopeStep == TypeOK /\ EnvelopeOK /\ [Next]_vars => EnvelopeOK'
<1> SUFFICES ASSUME TypeOK, EnvelopeOK, [Next]_vars PROVE EnvelopeOK' OBVIOUS
<1> USE SmtpInboundAssumption
<1>s. \A c \in Connections : conn[c] \in Sessions BY DEF TypeOK
<1>f. conn \in [Connections -> Sessions] BY DEF TypeOK
<1>1. ASSUME NEW c \in Connections, Accept(c) \/ HandleConn(c) \/ Data(c) \/ Quit(c)
             \/ EndOfData(c) \/ DataDeadline(c)
      PROVE  EnvelopeOK'
  <2>1. /\ \A d \in Connections : d # c => conn'[d] = conn[d]
        /\ conn'[c].mailFrom = conn[c].mailFrom /\ conn'[c].rcptTo = conn[c].rcptTo
        /\ conn'[c].pc = "data" => conn[c].mailFrom # NoSender
        /\ conn'[c].pc # "store"
    BY <1>1, <1>s, <1>f DEF Accept, HandleConn, Data, Quit, EndOfData, DataDeadline, Sessions
  <2> QED BY <2>1 DEF EnvelopeOK
<1>2. ASSUME NEW c \in Connections, Hello(c) \/ Rset(c) \/ TooLarge(c) PROVE EnvelopeOK'
  <2>1. /\ \A d \in Connections : d # c => conn'[d] = conn[d]
        /\ conn'[c].rcptTo = <<>> /\ conn'[c].pc = "command"
    BY <1>2, Emptied
  <2> QED BY <2>1 DEF EnvelopeOK
<1>3. ASSUME NEW c \in Connections, NEW m \in Messages, Mail(c, m) PROVE EnvelopeOK'
  BY <1>3, <1>s, <1>f DEF Mail, EnvelopeOK, Sessions
<1>4. ASSUME NEW c \in Connections, NEW a \in Addresses, Rcpt(c, a) PROVE EnvelopeOK'
  BY <1>4, <1>s, <1>f DEF Rcpt, EnvelopeOK, Sessions
<1>5. ASSUME NEW c \in Connections, NEW pairs, Reply(c, pairs) PROVE EnvelopeOK'
  BY <1>5, <1>s, <1>f DEF Reply, Reset, EnvelopeOK, Sessions
<1>6. ASSUME NEW c \in Connections, Deliver(c) \/ Unparsable(c) PROVE EnvelopeOK'
  <2>1. CASE FindUser(c) \/ SkipUser(c) \/ StoreMessage(c)
    <3>1. /\ \A d \in Connections : d # c => conn'[d] = conn[d]
          /\ conn'[c].mailFrom = conn[c].mailFrom /\ conn'[c].rcptTo = conn[c].rcptTo
          /\ conn'[c].pc \in Delivering
          /\ conn'[c].pc = "store" =>
               conn'[c].next = conn[c].next /\ conn[c].next <= Len(conn[c].rcptTo)
      <4>1. CASE FindUser(c) BY <4>1, <1>s, <1>f DEF FindUser, Delivering, Sessions, Rcpts
      <4>2. CASE SkipUser(c) BY <4>2, <1>s, <1>f DEF SkipUser, Delivering, Sessions
      <4>3. CASE StoreMessage(c) BY <4>3, <1>s, <1>f DEF StoreMessage, Delivering, Sessions
      <4> QED BY <2>1, <4>1, <4>2, <4>3
    <3> QED BY <3>1 DEF EnvelopeOK, Delivering
  <2> QED BY <1>5, <1>6, <2>1 DEF Deliver, StoreFails, AttachmentFails, Delivered, Unparsable
<1>7. CASE BeginStop \/ EndStop BY <1>7 DEF BeginStop, EndStop, EnvelopeOK
<1>8. CASE Exit \/ Crash BY <1>8, <1>s, <1>f DEF Exit, Crash, Closed, EnvelopeOK, Sessions
<1>9. ASSUME NEW a \in Addresses, DeleteAccount(a) PROVE EnvelopeOK'
  BY <1>9 DEF DeleteAccount, EnvelopeOK
<1>10. CASE UNCHANGED vars BY <1>10 DEF vars, EnvelopeOK
<1> QED BY <1>1, <1>2, <1>3, <1>4, <1>6, <1>7, <1>8, <1>9, <1>10 DEF Next, Command

LEMMA LateStep == TypeOK /\ OnlyLateServed /\ [Next]_vars => OnlyLateServed'
<1> SUFFICES ASSUME TypeOK, OnlyLateServed, [Next]_vars PROVE OnlyLateServed' OBVIOUS
<1>s. \A c \in Connections : conn[c] \in Sessions BY DEF TypeOK
<1>f. conn \in [Connections -> Sessions] BY DEF TypeOK
<1>1. ASSUME NEW c \in Connections, Accept(c) \/ Quit(c)
      PROVE  OnlyLateServed'
  BY <1>1, <1>s, <1>f DEF Accept, Quit, OnlyLateServed, Serving, Delivering, Sessions
<1>2. ASSUME NEW c \in Connections, HandleConn(c) PROVE OnlyLateServed'
  BY <1>2, <1>s, <1>f DEF HandleConn, OnlyLateServed, Sessions
\* Commands and deliveries of a session that is served.
<1>3. ASSUME NEW c \in Connections, conn[c].pc \in Serving, server' = server,
             \A d \in Connections : d # c => conn'[d] = conn[d],
             conn'[c].late = conn[c].late
      PROVE  OnlyLateServed'
  BY <1>3, <1>f DEF OnlyLateServed
<1>4. ASSUME NEW c \in Connections, Data(c) \/ EndOfData(c) \/ DataDeadline(c)
      PROVE  OnlyLateServed'
  BY <1>3, <1>4, <1>s, <1>f DEF Data, EndOfData, DataDeadline, Serving, Sessions
<1>5. ASSUME NEW c \in Connections, Hello(c) \/ Rset(c) \/ TooLarge(c) PROVE OnlyLateServed'
  BY <1>3, <1>5, <1>s, <1>f DEF Hello, Rset, TooLarge, Reset, Serving, Sessions
<1>6. ASSUME NEW c \in Connections, NEW m \in Messages, Mail(c, m) PROVE OnlyLateServed'
  BY <1>3, <1>6, <1>s, <1>f DEF Mail, Serving, Sessions
<1>7. ASSUME NEW c \in Connections, NEW a \in Addresses, Rcpt(c, a) PROVE OnlyLateServed'
  BY <1>3, <1>7, <1>s, <1>f DEF Rcpt, Serving, Sessions
<1>8. ASSUME NEW c \in Connections, NEW pairs, Reply(c, pairs), conn[c].pc \in Serving,
             server' = server
      PROVE  OnlyLateServed'
  BY <1>3, <1>8, <1>s, <1>f DEF Reply, Reset, Sessions
<1>9. ASSUME NEW c \in Connections, Deliver(c) \/ Unparsable(c) PROVE OnlyLateServed'
  <2>1. CASE FindUser(c) \/ SkipUser(c) \/ StoreMessage(c)
    BY <1>3, <2>1, <1>s, <1>f DEF FindUser, SkipUser, StoreMessage, Serving, Delivering, Sessions
  <2> QED
    BY <1>8, <1>9, <2>1
    DEF Deliver, StoreFails, AttachmentFails, Delivered, Unparsable, Serving, Delivering
<1>10. CASE BeginStop \/ EndStop BY <1>10 DEF BeginStop, EndStop, OnlyLateServed
<1>11. CASE Exit \/ Crash
  BY <1>11, <1>s, <1>f DEF Exit, Crash, Closed, OnlyLateServed, Serving, Delivering, Sessions
<1>12. ASSUME NEW a \in Addresses, DeleteAccount(a) PROVE OnlyLateServed'
  BY <1>12 DEF DeleteAccount, OnlyLateServed
<1>13. CASE UNCHANGED vars BY <1>13 DEF vars, OnlyLateServed
<1> QED BY <1>1, <1>2, <1>4, <1>5, <1>6, <1>7, <1>9, <1>10, <1>11, <1>12, <1>13 DEF Next, Command

-----------------------------------------------------------------------------
(* Copies. *)

\* The pairs of a session and a place, told apart by the session.
LEMMA OutstandingMember ==
    ASSUME TypeOK, NEW m, NEW a, NEW c \in Connections, NEW i
    PROVE  <<c, i>> \in Outstanding(m, a) <=> i \in Due(conn[c], m, a)
<1>1. ASSUME i \in Due(conn[c], m, a) PROVE i \in 1..MaxRecipients
  <2>1. conn[c].rcptTo \in Seq(Addresses) /\ Len(conn[c].rcptTo) <= MaxRecipients
    BY DEF TypeOK, Sessions
  <2>2. i \in DOMAIN conn[c].rcptTo BY <1>1 DEF Due
  <2> QED BY <2>1, <2>2, SmtpInboundAssumption
<1> QED BY <1>1 DEF Outstanding

\* A step after which no session expects more than before, and nothing more is stored
\* than asked for, keeps the account.
LEMMA NothingMoreDue ==
    ASSUME TypeOK, TypeOK', EachWasAsked,
           \A c \in Connections, m \in Messages, a \in Addresses :
              Due(conn'[c], m, a) \subseteq Due(conn[c], m, a),
           \A m \in Messages, a \in Addresses : stored'[m][a] <= stored[m][a],
           asked' = asked
    PROVE  EachWasAsked'
<1> SUFFICES ASSUME NEW m \in Messages, NEW a \in Addresses
             PROVE  /\ IsFiniteSet(Outstanding(m, a)')
                    /\ stored'[m][a] + Cardinality(Outstanding(m, a)') <= asked'[m][a]
  BY DEF EachWasAsked
<1>1. Outstanding(m, a)' \subseteq Outstanding(m, a) BY DEF Outstanding
<1>2. /\ IsFiniteSet(Outstanding(m, a)) /\ Cardinality(Outstanding(m, a)) \in Nat
      /\ stored[m][a] + Cardinality(Outstanding(m, a)) <= asked[m][a]
  BY FS_CardinalityType DEF EachWasAsked
<1>3. /\ IsFiniteSet(Outstanding(m, a)') /\ Cardinality(Outstanding(m, a)') \in Nat
      /\ Cardinality(Outstanding(m, a)') <= Cardinality(Outstanding(m, a))
  BY <1>1, <1>2, FS_Subset, FS_CardinalityType
<1>4. stored[m][a] \in Nat /\ stored'[m][a] \in Nat /\ asked[m][a] \in Nat BY DEF TypeOK
<1>5. stored'[m][a] <= stored[m][a] OBVIOUS
<1> QED BY <1>2, <1>3, <1>4, <1>5

\* A copy is made from a place that was due and no longer is.
LEMMA OneCopyMade ==
    ASSUME TypeOK, TypeOK', EachWasAsked, NEW c \in Connections,
           conn[c].pc = "store", conn[c].next <= Len(conn[c].rcptTo), Insert(c),
           \A d \in Connections : d # c => conn'[d] = conn[d],
           \A m \in Messages, a \in Addresses :
              Due(conn'[c], m, a) \subseteq Due(conn[c], m, a) \ {conn[c].next},
           asked' = asked
    PROVE  EachWasAsked'
<1> DEFINE m0 == conn[c].mailFrom
           a0 == Now(c)
           i0 == conn[c].next
<1>1. /\ m0 \in Messages /\ i0 \in DOMAIN conn[c].rcptTo /\ a0 \in Addresses
      /\ conn[c].rcptTo[i0] = a0
  <2>1. /\ conn[c] \in Sessions /\ conn[c].next > 0 /\ conn[c].mailFrom # NoSender
    BY DEF TypeOK, Delivering
  <2>2. conn[c].rcptTo \in Seq(Addresses) /\ i0 \in 1..Len(conn[c].rcptTo) BY <2>1 DEF Sessions
  <2>3. i0 \in DOMAIN conn[c].rcptTo /\ conn[c].rcptTo[i0] \in Addresses BY <2>2
  <2>4. m0 \in Messages BY <2>1 DEF Sessions
  <2> QED BY <2>3, <2>4 DEF Now, Rcpts
<1> SUFFICES ASSUME NEW m \in Messages, NEW a \in Addresses
             PROVE  /\ IsFiniteSet(Outstanding(m, a)')
                    /\ stored'[m][a] + Cardinality(Outstanding(m, a)') <= asked'[m][a]
  BY DEF EachWasAsked
<1>2. stored'[m][a] = stored[m][a] + IF m = m0 /\ a = a0 THEN 1 ELSE 0
  <2>1. stored' = [stored EXCEPT ![m0][a0] = @ + 1] BY DEF Insert
  <2> HIDE DEF m0, a0
  <2> QED BY <1>1, <2>1 DEF TypeOK
<1>3. m = m0 /\ a = a0 => <<c, i0>> \in Outstanding(m, a)
  <2>1. m = m0 /\ a = a0 => i0 \in Due(conn[c], m, a) BY <1>1 DEF Due, Delivering, TypeOK, Sessions
  <2> QED BY <2>1, OutstandingMember
<1>4. Outstanding(m, a)' \subseteq Outstanding(m, a) \ {<<c, i0>>} BY DEF Outstanding
<1>5. /\ IsFiniteSet(Outstanding(m, a)) /\ Cardinality(Outstanding(m, a)) \in Nat
      /\ stored[m][a] + Cardinality(Outstanding(m, a)) <= asked[m][a]
  BY FS_CardinalityType DEF EachWasAsked
<1>6. /\ IsFiniteSet(Outstanding(m, a) \ {<<c, i0>>})
      /\ Cardinality(Outstanding(m, a) \ {<<c, i0>>}) <= Cardinality(Outstanding(m, a))
      /\ <<c, i0>> \in Outstanding(m, a) =>
            Cardinality(Outstanding(m, a) \ {<<c, i0>>}) = Cardinality(Outstanding(m, a)) - 1
  <2> DEFINE S == Outstanding(m, a)
             x == <<c, i0>>
  <2>1. IsFiniteSet(S) /\ Cardinality(S) \in Nat BY <1>5
  <2> HIDE DEF S, x
  <2>2. /\ IsFiniteSet(S \ {x})
        /\ Cardinality(S \ {x}) = IF x \in S THEN Cardinality(S) - 1 ELSE Cardinality(S)
    BY <2>1, FS_RemoveElement
  <2>3. /\ IsFiniteSet(S \ {x}) /\ Cardinality(S \ {x}) <= Cardinality(S)
        /\ x \in S => Cardinality(S \ {x}) = Cardinality(S) - 1
    BY <2>1, <2>2
  <2> QED BY <2>3 DEF S, x
<1>7. /\ IsFiniteSet(Outstanding(m, a)') /\ Cardinality(Outstanding(m, a)') \in Nat
      /\ Cardinality(Outstanding(m, a)') <= Cardinality(Outstanding(m, a) \ {<<c, i0>>})
      /\ Cardinality(Outstanding(m, a) \ {<<c, i0>>}) \in Nat
  BY <1>4, <1>6, FS_Subset, FS_CardinalityType
<1>8. stored[m][a] \in Nat /\ asked[m][a] \in Nat BY DEF TypeOK
<1> HIDE DEF m0, a0, i0
<1>9. stored'[m][a] + Cardinality(Outstanding(m, a)') <= stored[m][a] + Cardinality(Outstanding(m, a))
  <2>1. CASE m = m0 /\ a = a0 BY <2>1, <1>2, <1>3, <1>5, <1>6, <1>7, <1>8
  <2>2. CASE ~(m = m0 /\ a = a0) BY <2>2, <1>2, <1>5, <1>6, <1>7, <1>8
  <2> QED BY <2>1, <2>2
<1> QED BY <1>2, <1>5, <1>7, <1>8, <1>9

\* RCPT makes one place more, and is one command more.
LEMMA OnePlaceMore ==
    ASSUME TypeOK, TypeOK', EachWasAsked, NEW c \in Connections, NEW a \in Addresses, Rcpt(c, a)
    PROVE  EachWasAsked'
<1> DEFINE m0 == conn[c].mailFrom
           i0 == Len(conn[c].rcptTo) + 1
<1>1. /\ conn[c].rcptTo \in Seq(Addresses) /\ Len(conn[c].rcptTo) \in Nat /\ m0 \in Messages
      /\ conn[c].pc = "command"
  BY DEF Rcpt, TypeOK, Sessions
<1>2. /\ \A d \in Connections : d # c => conn'[d] = conn[d]
      /\ conn'[c].rcptTo = Append(conn[c].rcptTo, a) /\ conn'[c].mailFrom = m0
      /\ conn'[c].pc = "command"
  BY DEF Rcpt, TypeOK, Sessions
<1>3. \A m, b : Due(conn'[c], m, b) \subseteq
                  Due(conn[c], m, b) \cup (IF m = m0 /\ b = a THEN {i0} ELSE {})
  <2> SUFFICES ASSUME NEW m, NEW b, NEW i \in Due(conn'[c], m, b)
               PROVE  i \in Due(conn[c], m, b) \/ (m = m0 /\ b = a /\ i = i0)
    OBVIOUS
  <2>1. /\ i \in DOMAIN Append(conn[c].rcptTo, a) /\ m = m0
        /\ Append(conn[c].rcptTo, a)[i] = b
    BY <1>2 DEF Due
  <2>2. CASE i = i0 BY <1>1, <2>1, <2>2
  <2>3. CASE i # i0
    <3>1. i \in DOMAIN conn[c].rcptTo /\ conn[c].rcptTo[i] = b BY <1>1, <2>1, <2>3
    <3> QED BY <1>1, <2>1, <3>1 DEF Due, Delivering
  <2> QED BY <2>2, <2>3
<1>4. \A m \in Messages, b \in Addresses :
        asked'[m][b] = IF m = m0 /\ b = a THEN asked[m][b] + 1 ELSE asked[m][b]
  <2>1. asked' = [asked EXCEPT ![m0][a] = @ + 1] BY DEF Rcpt
  <2> HIDE DEF m0
  <2> QED BY <1>1, <2>1 DEF TypeOK
<1>5. stored' = stored BY DEF Rcpt
<1> SUFFICES ASSUME NEW m \in Messages, NEW b \in Addresses
             PROVE  /\ IsFiniteSet(Outstanding(m, b)')
                    /\ stored'[m][b] + Cardinality(Outstanding(m, b)') <= asked'[m][b]
  BY DEF EachWasAsked
<1>6. /\ IsFiniteSet(Outstanding(m, b)) /\ Cardinality(Outstanding(m, b)) \in Nat
      /\ stored[m][b] + Cardinality(Outstanding(m, b)) <= asked[m][b]
      /\ stored[m][b] \in Nat /\ asked[m][b] \in Nat
  BY FS_CardinalityType DEF EachWasAsked, TypeOK
<1> HIDE DEF m0, i0
<1>7. CASE m = m0 /\ b = a
  <2>1. Outstanding(m, b)' \subseteq Outstanding(m, b) \cup {<<c, i0>>}
    BY <1>2, <1>3, <1>7 DEF Outstanding
  <2>2. /\ IsFiniteSet(Outstanding(m, b) \cup {<<c, i0>>})
        /\ Cardinality(Outstanding(m, b) \cup {<<c, i0>>}) <= Cardinality(Outstanding(m, b)) + 1
    <3> DEFINE S == Outstanding(m, b)
               x == <<c, i0>>
    <3>1. IsFiniteSet(S) /\ Cardinality(S) \in Nat BY <1>6
    <3> HIDE DEF S, x
    <3>2. /\ IsFiniteSet(S \cup {x})
          /\ Cardinality(S \cup {x}) = IF x \in S THEN Cardinality(S) ELSE Cardinality(S) + 1
      BY <3>1, FS_AddElement
    <3>3. IsFiniteSet(S \cup {x}) /\ Cardinality(S \cup {x}) <= Cardinality(S) + 1 BY <3>1, <3>2
    <3> QED BY <3>3 DEF S, x
  <2>3. /\ IsFiniteSet(Outstanding(m, b)') /\ Cardinality(Outstanding(m, b)') \in Nat
        /\ Cardinality(Outstanding(m, b)') <= Cardinality(Outstanding(m, b) \cup {<<c, i0>>})
        /\ Cardinality(Outstanding(m, b) \cup {<<c, i0>>}) \in Nat
    BY <2>1, <2>2, FS_Subset, FS_CardinalityType
  <2>4. asked'[m][b] = asked[m][b] + 1 /\ stored'[m][b] = stored[m][b] BY <1>4, <1>5, <1>7
  <2> QED BY <1>6, <2>2, <2>3, <2>4
<1>8. CASE ~(m = m0 /\ b = a)
  <2>1. Outstanding(m, b)' \subseteq Outstanding(m, b) BY <1>2, <1>3, <1>8 DEF Outstanding
  <2>2. /\ IsFiniteSet(Outstanding(m, b)') /\ Cardinality(Outstanding(m, b)') \in Nat
        /\ Cardinality(Outstanding(m, b)') <= Cardinality(Outstanding(m, b))
    BY <1>6, <2>1, FS_Subset, FS_CardinalityType
  <2>3. asked'[m][b] = asked[m][b] /\ stored'[m][b] = stored[m][b] BY <1>4, <1>5, <1>8
  <2> QED BY <1>6, <2>2, <2>3
<1> QED BY <1>7, <1>8

LEMMA AskedStep == TypeOK /\ EnvelopeOK /\ EachWasAsked /\ [Next]_vars => EachWasAsked'
<1> SUFFICES ASSUME TypeOK, EnvelopeOK, EachWasAsked, [Next]_vars PROVE EachWasAsked' OBVIOUS
<1>t. TypeOK' BY TypeStep
<1>s. /\ conn \in [Connections -> Sessions] /\ \A c \in Connections : conn[c] \in Sessions
      /\ \A m \in Messages, a \in Addresses : stored[m][a] \in Nat /\ stored[m][a] <= stored[m][a]
  BY DEF TypeOK
\* One session changes, nothing is stored, and its places are as before or fewer.
<1>0. ASSUME NEW c \in Connections, \A d \in Connections : d # c => conn'[d] = conn[d],
             UNCHANGED <<stored, asked>>,
             \A m, a : Due(conn'[c], m, a) \subseteq Due(conn[c], m, a)
      PROVE  EachWasAsked'
  <2>1. \A d \in Connections, m \in Messages, a \in Addresses :
          Due(conn'[d], m, a) \subseteq Due(conn[d], m, a)
    BY <1>0, Zenon
  <2> QED BY <1>0, <1>t, <1>s, <2>1, NothingMoreDue
<1>e. ASSUME NEW s, s.rcptTo = <<>>, NEW m, NEW a PROVE Due(s, m, a) = {} BY <1>e DEF Due
<1>1. ASSUME NEW c \in Connections, Accept(c) \/ HandleConn(c) \/ Data(c) \/ Quit(c)
             \/ EndOfData(c) \/ DataDeadline(c)
      PROVE  EachWasAsked'
  <2>1. /\ \A d \in Connections : d # c => conn'[d] = conn[d]
        /\ conn'[c].mailFrom = conn[c].mailFrom /\ conn'[c].rcptTo = conn[c].rcptTo
        /\ conn[c].pc \notin Delivering \cup {"closed"}
    BY <1>1, <1>s DEF Accept, HandleConn, Data, Quit, EndOfData, DataDeadline, Sessions, Delivering
  <2>2. \A m, a : Due(conn'[c], m, a) \subseteq Due(conn[c], m, a) BY <2>1 DEF Due
  <2>3. UNCHANGED <<stored, asked>>
    BY <1>1 DEF Accept, HandleConn, Data, Quit, EndOfData, DataDeadline
  <2> QED BY <1>0, <2>1, <2>2, <2>3
<1>2. ASSUME NEW c \in Connections, Hello(c) \/ Rset(c) \/ TooLarge(c) PROVE EachWasAsked'
  <2>1. UNCHANGED <<stored, asked>> BY <1>2 DEF Hello, Rset, TooLarge
  <2>2. \A m, a : Due(conn'[c], m, a) = {} BY <1>2, <1>e, Emptied
  <2> QED BY <1>0, <1>2, <2>1, <2>2, Emptied
<1>3. ASSUME NEW c \in Connections, NEW m0 \in Messages, Mail(c, m0) PROVE EachWasAsked'
  <2>1. /\ \A d \in Connections : d # c => conn'[d] = conn[d]
        /\ conn'[c].rcptTo = <<>>
    BY <1>3, <1>s DEF Mail, EnvelopeOK, Sessions
  <2>2. \A m, a : Due(conn'[c], m, a) = {} BY <1>e, <2>1
  <2> QED BY <1>0, <1>3, <2>1, <2>2 DEF Mail
<1>4. ASSUME NEW c \in Connections, NEW a \in Addresses, Rcpt(c, a) PROVE EachWasAsked'
  BY <1>4, <1>t, OnePlaceMore
<1>5. ASSUME NEW c \in Connections, NEW pairs, Reply(c, pairs)
      PROVE  /\ \A d \in Connections : d # c => conn'[d] = conn[d]
             /\ \A m, a : Due(conn'[c], m, a) = {}
  <2>1. /\ \A d \in Connections : d # c => conn'[d] = conn[d]
        /\ conn'[c].rcptTo = <<>>
    BY <1>5, <1>s DEF Reply, Reset, Sessions
  <2> QED BY <2>1, <1>e
<1>6. ASSUME NEW c \in Connections, Deliver(c) \/ Unparsable(c) PROVE EachWasAsked'
  <2>1. CASE FindUser(c) \/ SkipUser(c)
    <3>1. /\ \A d \in Connections : d # c => conn'[d] = conn[d]
          /\ conn'[c].mailFrom = conn[c].mailFrom /\ conn'[c].rcptTo = conn[c].rcptTo
          /\ conn[c].pc \in Delivering /\ conn'[c].pc \in Delivering
          /\ conn'[c].next \in {conn[c].next, conn[c].next + 1} /\ conn[c].next \in Nat
      <4>1. CASE FindUser(c) BY <4>1, <1>s DEF FindUser, Delivering, Sessions
      <4>2. CASE SkipUser(c) BY <4>2, <1>s DEF SkipUser, Delivering, Sessions
      <4> QED BY <2>1, <4>1, <4>2
    <3>2. \A m, a : Due(conn'[c], m, a) \subseteq Due(conn[c], m, a)
      <4>1. conn[c].rcptTo \in Seq(Addresses) BY <1>s DEF Sessions
      <4> QED BY <3>1, <4>1 DEF Due, Delivering
    <3>3. UNCHANGED <<stored, asked>> BY <2>1 DEF FindUser, SkipUser
    <3> QED BY <1>0, <3>1, <3>2, <3>3
  <2>2. CASE StoreMessage(c)
    <3>1. /\ \A d \in Connections : d # c => conn'[d] = conn[d]
          /\ conn'[c].mailFrom = conn[c].mailFrom /\ conn'[c].rcptTo = conn[c].rcptTo
          /\ conn[c].pc \in Delivering /\ conn'[c].pc \in Delivering
          /\ conn'[c].next = conn[c].next + 1 /\ conn[c].next \in Nat
      BY <2>2, <1>s DEF StoreMessage, Delivering, Sessions
    <3>2. \A m, a : Due(conn'[c], m, a) \subseteq Due(conn[c], m, a) \ {conn[c].next}
      <4>1. conn[c].rcptTo \in Seq(Addresses) BY <1>s DEF Sessions
      <4> QED BY <3>1, <4>1 DEF Due, Delivering
    <3> QED BY <2>2, <1>t, <3>1, <3>2, OneCopyMade DEF StoreMessage, EnvelopeOK
  <2>3. CASE AttachmentFails(c) BY <2>3, <1>t, <1>5, OneCopyMade DEF AttachmentFails, EnvelopeOK
  <2>4. CASE StoreFails(c) \/ Delivered(c) \/ Unparsable(c)
    <3>1. UNCHANGED <<stored, asked>> /\ \E pairs : Reply(c, pairs)
      BY <2>4, Zenon DEF StoreFails, Delivered, Unparsable
    <3> QED BY <3>1, <1>0, <1>5
  <2> QED BY <1>6, <2>1, <2>2, <2>3, <2>4 DEF Deliver
<1>7. ASSUME conn' = conn, asked' = asked,
             \A m \in Messages, a \in Addresses : stored'[m][a] <= stored[m][a]
      PROVE  EachWasAsked'
  BY <1>7, <1>t, NothingMoreDue
<1>8. CASE BeginStop \/ EndStop BY <1>8, <1>s, <1>7 DEF BeginStop, EndStop
<1>9. CASE Exit \/ Crash
  <2>1. \A c \in Connections : conn'[c] = conn[c] \/ conn'[c].pc = "closed"
    BY <1>9, <1>s DEF Exit, Crash, Closed, Sessions
  <2>2. \A c \in Connections, m \in Messages, a \in Addresses :
          Due(conn'[c], m, a) \subseteq Due(conn[c], m, a)
    BY <2>1 DEF Due
  <2>3. UNCHANGED <<stored, asked>> BY <1>9 DEF Exit, Crash
  <2> QED BY <1>s, <1>t, <2>2, <2>3, NothingMoreDue
<1>10. ASSUME NEW b \in Addresses, DeleteAccount(b) PROVE EachWasAsked'
  <2>1. \A m \in Messages, a \in Addresses : stored'[m][a] = IF a = b THEN 0 ELSE stored[m][a]
    BY <1>10 DEF DeleteAccount, TypeOK
  <2> QED BY <1>s, <1>7, <1>10, <2>1 DEF DeleteAccount
<1>11. CASE UNCHANGED vars BY <1>s, <1>7, <1>11 DEF vars
<1> QED BY <1>1, <1>2, <1>3, <1>4, <1>6, <1>8, <1>9, <1>10, <1>11 DEF Next, Command

-----------------------------------------------------------------------------
(* Acknowledgements. *)

Kept == AckedIsStored /\ PassedHaveIt

LEMMA KeptStep == TypeOK /\ EnvelopeOK /\ Kept /\ [Next]_vars => Kept'
<1> SUFFICES ASSUME TypeOK, EnvelopeOK, Kept, [Next]_vars PROVE Kept' OBVIOUS
<1>s. /\ conn \in [Connections -> Sessions] /\ \A c \in Connections : conn[c] \in Sessions
      /\ faults \in Nat /\ acked \subseteq Messages \X Addresses
      /\ \A m \in Messages, a \in Addresses : stored[m][a] \in Nat
      /\ \A c \in Connections : conn[c].pc \in Delivering => conn[c].mailFrom \in Messages
      /\ \A c \in Connections : \A i \in DOMAIN conn[c].rcptTo :
            i \in 1..Len(conn[c].rcptTo) /\ conn[c].rcptTo[i] \in Addresses
  <2>1. \A c \in Connections : conn[c] \in Sessions BY DEF TypeOK
  <2>2. ASSUME NEW c \in Connections, NEW i \in DOMAIN conn[c].rcptTo
        PROVE  i \in 1..Len(conn[c].rcptTo) /\ conn[c].rcptTo[i] \in Addresses
    <3>1. conn[c].rcptTo \in Seq(Addresses) BY <2>1 DEF Sessions
    <3> QED BY <3>1
  <2> QED BY <2>1, <2>2 DEF TypeOK, Sessions
\* Nothing is promised of a state after a failure.
<1>k. ASSUME faults' # 0 PROVE Kept'
  BY <1>k DEF Kept, AckedIsStored, PassedHaveIt
\* A session that does not deliver when the step is done.
<1>o. ASSUME NEW c \in Connections, \A d \in Connections : d # c => conn'[d] = conn[d],
             conn'[c].pc \notin Delivering, UNCHANGED <<accounts, stored, acked, faults>>
      PROVE  Kept'
  BY <1>o DEF Kept, AckedIsStored, PassedHaveIt
<1>1. ASSUME NEW c \in Connections, Accept(c) \/ HandleConn(c) \/ Data(c) \/ Quit(c)
             \/ DataDeadline(c)
      PROVE  Kept'
  <2>1. /\ \A d \in Connections : d # c => conn'[d] = conn[d]
        /\ conn'[c].pc \notin Delivering
    BY <1>1, <1>s DEF Accept, HandleConn, Data, Quit, DataDeadline, Sessions, Delivering
  <2>2. UNCHANGED <<accounts, stored, acked, faults>>
    BY <1>1 DEF Accept, HandleConn, Data, Quit, DataDeadline
  <2> QED BY <1>o, <2>1, <2>2
<1>2. ASSUME NEW c \in Connections, Hello(c) \/ Rset(c) \/ TooLarge(c) PROVE Kept'
  <2>1. UNCHANGED <<accounts, stored, acked, faults>> BY <1>2 DEF Hello, Rset, TooLarge
  <2> QED BY <1>o, <1>2, <2>1, Emptied DEF Delivering
<1>3. ASSUME NEW c \in Connections, NEW m \in Messages, Mail(c, m) PROVE Kept'
  <2>1. \A d \in Connections : d # c => conn'[d] = conn[d] BY <1>3, <1>s DEF Mail
  <2>2. conn'[c].pc = "command" BY <1>3, <1>s DEF Mail, Sessions
  <2> QED BY <1>o, <1>3, <2>1, <2>2 DEF Mail, Delivering
<1>4. ASSUME NEW c \in Connections, NEW a \in Addresses, Rcpt(c, a) PROVE Kept'
  <2>1. \A d \in Connections : d # c => conn'[d] = conn[d] BY <1>4, <1>s DEF Rcpt
  <2>2. conn'[c].pc = "command" BY <1>4, <1>s DEF Rcpt, Sessions
  <2> QED BY <1>o, <1>4, <2>1, <2>2 DEF Rcpt, Delivering
<1>5. ASSUME NEW c \in Connections, EndOfData(c) PROVE Kept'
  <2>1. /\ \A d \in Connections : d # c => conn'[d] = conn[d]
        /\ conn'[c].next = 1 /\ conn'[c].rcptTo = conn[c].rcptTo
        /\ UNCHANGED <<accounts, stored, acked, faults>>
    BY <1>5, <1>s DEF EndOfData, Sessions
  <2>2. \A i \in DOMAIN conn'[c].rcptTo : ~(i < conn'[c].next) BY <1>s, <2>1
  <2> QED BY <2>1, <2>2 DEF Kept, AckedIsStored, PassedHaveIt
<1>r. ASSUME NEW c \in Connections, NEW pairs, Reply(c, pairs)
      PROVE  /\ \A d \in Connections : d # c => conn'[d] = conn[d]
             /\ conn'[c].pc = "command"
             /\ acked' = acked \cup pairs
  <2> DEFINE t == [Reset(conn[c]) EXCEPT !.pc = "command", !.next = 0]
  <2>1. Reset(conn[c]) \in Sessions BY SessionTypes
  <2>2. t.pc = "command" BY <2>1 DEF Sessions
  <2>3. conn' = [conn EXCEPT ![c] = t] /\ acked' = acked \cup pairs BY <1>r DEF Reply
  <2> HIDE DEF t
  <2> QED BY <1>s, <2>2, <2>3
<1>6. ASSUME NEW c \in Connections, Deliver(c) \/ Unparsable(c) PROVE Kept'
  <2>1. CASE FindUser(c)
    <3>1. /\ \A d \in Connections : d # c => conn'[d] = conn[d]
          /\ conn'[c].mailFrom = conn[c].mailFrom /\ conn'[c].rcptTo = conn[c].rcptTo
          /\ conn[c].pc \in Delivering /\ conn'[c].next = conn[c].next
          /\ UNCHANGED <<accounts, stored, acked, faults>>
      BY <2>1, <1>s DEF FindUser, Delivering, Sessions
    <3> QED BY <3>1 DEF Kept, AckedIsStored, PassedHaveIt
  <2>2. CASE SkipUser(c)
    <3>1. CASE faults' = faults + 1 BY <3>1, <1>k, <1>s
    <3>2. CASE Now(c) \notin accounts /\ UNCHANGED faults
      <4>1. /\ \A d \in Connections : d # c => conn'[d] = conn[d]
            /\ conn'[c].mailFrom = conn[c].mailFrom /\ conn'[c].rcptTo = conn[c].rcptTo
            /\ conn[c].pc \in Delivering /\ conn'[c].next = conn[c].next + 1
            /\ conn[c].next \in Nat /\ conn[c].rcptTo[conn[c].next] \notin accounts
            /\ UNCHANGED <<accounts, stored, acked, faults>>
        BY <2>2, <3>2, <1>s DEF SkipUser, Delivering, Sessions, Now, Rcpts
      <4>2. \A i \in DOMAIN conn[c].rcptTo :
              i < conn[c].next + 1 /\ conn[c].rcptTo[i] \in accounts => i < conn[c].next
        BY <1>s, <4>1
      <4> QED BY <4>1, <4>2 DEF Kept, AckedIsStored, PassedHaveIt
    <3> QED BY <2>2, <3>1, <3>2 DEF SkipUser
  <2>3. CASE StoreMessage(c)
    <3>1. /\ \A d \in Connections : d # c => conn'[d] = conn[d]
          /\ conn'[c].mailFrom = conn[c].mailFrom /\ conn'[c].rcptTo = conn[c].rcptTo
          /\ conn[c].pc \in Delivering /\ conn'[c].next = conn[c].next + 1
          /\ conn[c].next \in Nat
      BY <2>3, <1>s DEF StoreMessage, Delivering, Sessions
    <3>2. UNCHANGED <<accounts, acked, faults>> BY <2>3 DEF StoreMessage
    <3>3. Now(c) \in Addresses /\ Now(c) = conn[c].rcptTo[conn[c].next]
      BY <2>3 DEF StoreMessage, TypeOK, Now, Rcpts
    <3>4. /\ \A m \in Messages, a \in Addresses : stored[m][a] > 0 => stored'[m][a] > 0
          /\ stored'[conn[c].mailFrom][Now(c)] > 0
      <4> DEFINE m0 == conn[c].mailFrom
                 a0 == Now(c)
      <4>1. m0 \in Messages /\ a0 \in Addresses /\ stored' = [stored EXCEPT ![m0][a0] = @ + 1]
        BY <1>s, <2>3, <3>1, <3>3 DEF StoreMessage, Insert
      <4> HIDE DEF m0, a0
      <4>2. \A m \in Messages, a \in Addresses :
              stored'[m][a] = IF m = m0 /\ a = a0 THEN stored[m][a] + 1 ELSE stored[m][a]
        BY <4>1 DEF TypeOK
      <4>3. /\ \A m \in Messages, a \in Addresses : stored[m][a] > 0 => stored'[m][a] > 0
            /\ stored'[m0][a0] > 0
        BY <1>s, <4>1, <4>2
      <4> QED BY <4>3 DEF m0, a0
    <3>5. AckedIsStored'
      <4> SUFFICES ASSUME faults' = 0, NEW p \in acked', p[2] \in accounts'
                   PROVE  stored'[p[1]][p[2]] > 0
        BY DEF AckedIsStored
      <4>1. stored[p[1]][p[2]] > 0 BY <3>2 DEF Kept, AckedIsStored
      <4>2. p[1] \in Messages /\ p[2] \in Addresses BY <1>s, <3>2
      <4> QED BY <3>4, <4>1, <4>2
    <3>6. PassedHaveIt'
      <4> SUFFICES ASSUME faults' = 0, NEW d \in Connections, conn'[d].pc \in Delivering,
                          NEW i \in DOMAIN conn'[d].rcptTo,
                          i < conn'[d].next, conn'[d].rcptTo[i] \in accounts'
                   PROVE  stored'[conn'[d].mailFrom][conn'[d].rcptTo[i]] > 0
        BY DEF PassedHaveIt
      <4>1. /\ conn'[d].mailFrom = conn[d].mailFrom /\ conn'[d].rcptTo = conn[d].rcptTo
            /\ conn[d].pc \in Delivering /\ conn[d].mailFrom \in Messages
            /\ i \in DOMAIN conn[d].rcptTo /\ conn[d].rcptTo[i] \in Addresses /\ i \in Nat
        BY <1>s, <3>1
      <4>2. CASE i < conn[d].next
        <5>1. stored[conn[d].mailFrom][conn[d].rcptTo[i]] > 0
          BY <3>2, <4>1, <4>2 DEF Kept, PassedHaveIt
        <5> QED BY <3>4, <4>1, <5>1
      <4>3. CASE ~(i < conn[d].next)
        <5>1. d = c /\ i = conn[c].next BY <3>1, <4>1, <4>3
        <5> QED BY <3>3, <3>4, <4>1, <5>1
      <4> QED BY <4>2, <4>3
    <3> QED BY <3>5, <3>6 DEF Kept
  <2>4. CASE AttachmentFails(c) BY <2>4, <1>k, <1>s DEF AttachmentFails
  <2>5. CASE StoreFails(c) \/ Unparsable(c)
    <3>1. CASE faults' # 0 BY <3>1, <1>k
    <3>2. CASE faults' = 0
      <4>1. Reply(c, {}) /\ UNCHANGED <<accounts, stored, faults>>
        BY <2>5, <3>2, <1>s DEF StoreFails, Unparsable
      <4>2. acked' = acked BY <4>1, <1>r
      <4> QED BY <4>1, <4>2, <1>r, <1>o DEF Delivering
    <3> QED BY <3>1, <3>2
  <2>6. CASE Delivered(c)
    <3> DEFINE pairs == {<<conn[c].mailFrom, a>> : a \in ToSet(Rcpts(c))}
    <3>1. /\ Reply(c, pairs) /\ conn[c].pc \in Delivering
          /\ conn[c].next > Len(conn[c].rcptTo) /\ conn[c].next \in Nat
          /\ UNCHANGED <<accounts, stored, faults>>
      BY <2>6, <1>s DEF Delivered, Delivering, Rcpts, Sessions
    <3>2. ASSUME faults = 0, NEW p \in pairs, p[2] \in accounts PROVE stored[p[1]][p[2]] > 0
      <4>1. PICK i \in DOMAIN conn[c].rcptTo : p = <<conn[c].mailFrom, conn[c].rcptTo[i]>>
        BY DEF ToSet, Rcpts
      <4>2. i < conn[c].next
        <5>1. conn[c].rcptTo \in Seq(Addresses) BY <1>s DEF Sessions
        <5> QED BY <3>1, <5>1, <1>s
      <4> QED BY <3>1, <3>2, <4>1, <4>2 DEF Kept, PassedHaveIt
    <3>3. acked' = acked \cup pairs BY <3>1, <1>r
    <3> HIDE DEF pairs
    <3>4. AckedIsStored' BY <3>1, <3>2, <3>3 DEF Kept, AckedIsStored
    <3>5. PassedHaveIt' BY <3>1, <1>r DEF Kept, PassedHaveIt, Delivering
    <3> QED BY <3>4, <3>5 DEF Kept
  <2> QED BY <1>6, <2>1, <2>2, <2>3, <2>4, <2>5, <2>6 DEF Deliver
<1>7. CASE BeginStop \/ EndStop BY <1>7 DEF BeginStop, EndStop, Kept, AckedIsStored, PassedHaveIt
<1>8. CASE Exit
  <2>1. \A c \in Connections : conn'[c].pc \notin Delivering
    BY <1>8, <1>s DEF Exit, Closed, Delivering, Sessions
  <2> QED BY <1>8, <2>1 DEF Exit, Kept, AckedIsStored, PassedHaveIt
<1>9. CASE Crash BY <1>9, <1>k, <1>s DEF Crash
<1>10. ASSUME NEW b \in Addresses, DeleteAccount(b) PROVE Kept'
  <2>1. \A m \in Messages, a \in Addresses : a # b => stored'[m][a] = stored[m][a]
    BY <1>10 DEF DeleteAccount, TypeOK
  <2>2. accounts' = accounts \ {b} /\ UNCHANGED <<conn, acked, faults>> BY <1>10 DEF DeleteAccount
  <2>3. AckedIsStored'
    <3> SUFFICES ASSUME faults' = 0, NEW p \in acked', p[2] \in accounts'
                 PROVE  stored'[p[1]][p[2]] > 0
      BY DEF AckedIsStored
    <3>1. p[1] \in Messages /\ p[2] \in Addresses /\ p[2] # b BY <1>s, <2>2
    <3>2. stored[p[1]][p[2]] > 0 BY <2>2 DEF Kept, AckedIsStored
    <3> QED BY <2>1, <3>1, <3>2
  <2>4. PassedHaveIt'
    <3> SUFFICES ASSUME faults' = 0, NEW d \in Connections, conn[d].pc \in Delivering,
                        NEW i \in DOMAIN conn[d].rcptTo,
                        i < conn[d].next, conn[d].rcptTo[i] \in accounts'
                 PROVE  stored'[conn[d].mailFrom][conn[d].rcptTo[i]] > 0
      BY <2>2 DEF PassedHaveIt
    <3>1. stored[conn[d].mailFrom][conn[d].rcptTo[i]] > 0 BY <2>2 DEF Kept, PassedHaveIt
    <3> QED BY <1>s, <2>1, <2>2, <3>1
  <2> QED BY <2>3, <2>4 DEF Kept
<1>11. CASE UNCHANGED vars BY <1>11 DEF vars, Kept, AckedIsStored, PassedHaveIt
<1> QED BY <1>1, <1>2, <1>3, <1>4, <1>5, <1>6, <1>7, <1>8, <1>9, <1>10, <1>11 DEF Next, Command

-----------------------------------------------------------------------------
(* The invariant and the theorems. *)

LEMMA InvInit == Init => SmtpInv
<1> SUFFICES ASSUME Init PROVE SmtpInv OBVIOUS
<1> USE SmtpInboundAssumption DEF Init, NoConnection
<1>1. TypeOK
  <2>1. <<>> \in Seq(Addresses) /\ Len(<<>>) = 0 OBVIOUS
  <2>2. \A c \in Connections : conn[c] \in Sessions BY <2>1 DEF Sessions
  <2>3. \A c \in Connections :
          Len(conn[c].rcptTo) <= MaxRecipients /\ conn[c].pc \notin Delivering
    BY <2>1 DEF Delivering
  <2>4. conn \in [Connections -> Sessions] BY <2>2
  <2>5. /\ stored \in [Messages -> [Addresses -> Nat]]
        /\ asked \in [Messages -> [Addresses -> Nat]]
    OBVIOUS
  <2>6. /\ server \in {"listening", "stopping", "stopped", "exited"}
        /\ accounts \subseteq Addresses /\ acked \subseteq Messages \X Addresses
        /\ mails \in 0..MaxMails /\ faults \in 0..MaxFaults
    OBVIOUS
  <2> HIDE DEF Init
  <2> QED BY <2>3, <2>4, <2>5, <2>6 DEF TypeOK
<1>2. EachWasAsked
  <2> SUFFICES ASSUME NEW m \in Messages, NEW a \in Addresses
               PROVE  /\ IsFiniteSet(Outstanding(m, a))
                      /\ stored[m][a] + Cardinality(Outstanding(m, a)) <= asked[m][a]
    BY DEF EachWasAsked
  <2>1. \A c \in Connections : Due(conn[c], m, a) = {} BY DEF Due
  <2>2. Outstanding(m, a) = {} BY <2>1 DEF Outstanding
  <2>3. IsFiniteSet({}) /\ Cardinality({}) = 0 BY FS_EmptySet
  <2> QED BY <2>2, <2>3
<1>3. EnvelopeOK /\ AckedIsStored /\ PassedHaveIt /\ OnlyLateServed
  BY DEF EnvelopeOK, AckedIsStored, PassedHaveIt, OnlyLateServed, Delivering, Serving
<1> QED BY <1>1, <1>2, <1>3 DEF SmtpInv

LEMMA InvStep == SmtpInv /\ [Next]_vars => SmtpInv'
  BY TypeStep, EnvelopeStep, AskedStep, KeptStep, LateStep DEF SmtpInv, Kept

LEMMA Invariance == Spec => []SmtpInv
  BY InvInit, InvStep, PTL DEF Spec

\* The server's state, its sessions and the rows it stores have their types whatever
\* clients send, databases fail and accounts go: no session holds more than
\* maxRecipients, and one that delivers has a sender.
THEOREM SmtpTypes == Spec => []TypeOK
<1>1. SmtpInv => TypeOK BY DEF SmtpInv
<1> QED BY <1>1, Invariance, PTL

\* No address gets more copies of a message than the client named it for that message,
\* and until something fails a 250 after DATA means that each recipient with an account
\* has it.
THEOREM StoredAsAsked == Spec => []DeliveredAsAsked
<1>1. SmtpInv => DeliveredAsAsked
  <2> SUFFICES ASSUME SmtpInv PROVE DeliveredAsAsked OBVIOUS
  <2>1. ASSUME NEW m \in Messages, NEW a \in Addresses PROVE stored[m][a] <= asked[m][a]
    <3>1. /\ IsFiniteSet(Outstanding(m, a))
          /\ stored[m][a] + Cardinality(Outstanding(m, a)) <= asked[m][a]
      BY DEF SmtpInv, EachWasAsked
    <3>2. Cardinality(Outstanding(m, a)) \in Nat BY <3>1, FS_CardinalityType
    <3>3. stored[m][a] \in Nat /\ asked[m][a] \in Nat BY DEF SmtpInv, TypeOK
    <3> QED BY <3>1, <3>2, <3>3
  <2> QED BY <2>1 DEF SmtpInv, DeliveredAsAsked, CopiesBounded
<1> QED BY <1>1, Invariance, PTL

LEMMA OnlyTheLateAreCut ==
    ASSUME SmtpInv, [Next]_vars, NEW c \in Connections,
           conn[c].pc \in Delivering, conn'[c].pc = "closed"
    PROVE  faults' > faults \/ conn[c].late
<1>s. /\ conn \in [Connections -> Sessions] /\ faults \in Nat
      /\ \A d \in Connections : conn[d] \in Sessions
  BY DEF SmtpInv, TypeOK
<1> USE DEF Delivering
<1>1. ASSUME NEW d \in Connections, Accept(d) \/ HandleConn(d) \/ Command(d) \/ EndOfData(d)
             \/ Unparsable(d) \/ DataDeadline(d) \/ TooLarge(d)
      PROVE  FALSE
  <2>1. conn'[c] = conn[c] \/ (d = c /\ conn[d].pc \notin Delivering)
    BY <1>1, <1>s
    DEF Accept, HandleConn, Command, Hello, Rset, Data, Quit, Mail, Rcpt, EndOfData,
        Unparsable, DataDeadline, TooLarge, Reply
  <2> QED BY <2>1
<1>2. ASSUME NEW d \in Connections, Deliver(d) PROVE FALSE
  <2>1. CASE FindUser(d) \/ SkipUser(d) \/ StoreMessage(d)
    BY <2>1, <1>s DEF FindUser, SkipUser, StoreMessage, Sessions
  <2>2. ASSUME NEW pairs, Reply(d, pairs) PROVE FALSE BY <2>2, <1>s DEF Reply, Reset, Sessions
  <2> QED BY <1>2, <2>1, <2>2 DEF Deliver, StoreFails, AttachmentFails, Delivered
<1>3. CASE Exit BY <1>3 DEF Exit, SmtpInv, OnlyLateServed, Serving
<1>4. CASE Crash BY <1>4, <1>s DEF Crash
<1>5. CASE BeginStop \/ EndStop \/ (\E a \in Addresses : DeleteAccount(a)) \/ UNCHANGED vars
  BY <1>5 DEF BeginStop, EndStop, DeleteAccount, vars
<1> QED BY <1>1, <1>2, <1>3, <1>4, <1>5 DEF Next

\* Stop lets every delivery end but those of connections that came too late for it:
\* wg.Wait() is passed only when no session is served that wg.Add(1) had counted.
THEOREM StopIsGraceful == Spec => GracefulStop
<1>1. SmtpInv /\ [Next]_vars =>
        [\A c \in Connections :
           conn[c].pc \in Delivering /\ conn[c].pc' = "closed" =>
             faults' > faults \/ conn[c].late]_vars
  <2> SUFFICES ASSUME SmtpInv, [Next]_vars,
                      NEW c \in Connections, conn[c].pc \in Delivering, conn[c].pc' = "closed"
               PROVE  faults' > faults \/ conn[c].late
    OBVIOUS
  <2> QED BY OnlyTheLateAreCut
<1> QED BY <1>1, Invariance, PTL DEF Spec, GracefulStop

-------------------------------------------------------------------------------
(* II. The auth service. *)
-----------------------------------------------------------------------------
(* The scripts of the handlers. *)

\* The statements of the longer handlers, one by one.
LEMMA LongScripts ==
    /\ handleRegister \in Seq(Statements) /\ Len(handleRegister) = 9
    /\ handleRegister[1] = <<"absent", "user">> /\ handleRegister[2] = <<"insert", "user">>
    /\ handleRegister[3] = <<"insert", "resources">> /\ handleRegister[4] = <<"insert", "keys">>
    /\ handleRegister[5] = <<"clear", "recovery">> /\ handleRegister[6] = <<"insert", "recovery">>
    /\ handleRegister[7] = <<"clear", "verification">>
    /\ handleRegister[8] = <<"insert", "verification">>
    /\ handleRegister[9] = <<"insert", "session">>
<1> DEFINE a == << <<"absent", "user">>, <<"insert", "user">>, <<"insert", "resources">>, <<"insert", "keys">> >>
           b == Replace("recovery")
           c == Replace("verification")
           d == << <<"insert", "session">> >>
<1>1. a \in Seq(Statements) /\ b \in Seq(Statements) /\ c \in Seq(Statements) /\ d \in Seq(Statements)
  BY DEF Replace, Statements, Verbs, Things, Tables
<1>2. a \o b \in Seq(Statements) /\ (a \o b) \o c \in Seq(Statements) BY <1>1, ConcatProperties
<1>3. ((a \o b) \o c) \o d \in Seq(Statements) BY <1>1, <1>2, ConcatProperties
<1>4. handleRegister = ((a \o b) \o c) \o d BY DEF handleRegister
<1> QED BY <1>3, <1>4 DEF Replace

LEMMA Replacing ==
    ASSUME NEW t \in Tables
    PROVE  /\ Replace(t) \in Seq(Statements) /\ Len(Replace(t)) = 2
           /\ Replace(t)[1] = <<"clear", t>> /\ Replace(t)[2] = <<"insert", t>>
  BY DEF Replace, Statements, Verbs, Things, Tables

LEMMA ForgotScript ==
    /\ handleForgotPassword \in Seq(Statements) /\ Len(handleForgotPassword) = 3
    /\ handleForgotPassword[1] = <<"exists", "user">>
    /\ handleForgotPassword[2] = <<"clear", "reset">>
    /\ handleForgotPassword[3] = <<"insert", "reset">>
<1>1. << <<"exists", "user">> >> \in Seq(Statements) /\ Replace("reset") \in Seq(Statements)
  BY DEF Replace, Statements, Verbs, Things, Tables
<1>2. << <<"exists", "user">> >> \o Replace("reset") \in Seq(Statements) BY <1>1, ConcatProperties
<1> QED BY <1>2 DEF handleForgotPassword, Replace

\* A handler behind authMiddleware.
Behind(s) == Authorize \o s

LEMMA Authorized ==
    ASSUME NEW s \in Seq(Statements)
    PROVE  /\ Behind(s) \in Seq(Statements)
           /\ Behind(s)[1] = <<"validate", "session">>
           /\ Behind(s)[2] = <<"authorize", "user">>
           /\ Len(s) = 1 => Len(Behind(s)) = 3 /\ Behind(s)[3] = s[1]
           /\ Len(s) = 2 => Len(Behind(s)) = 4 /\ Behind(s)[3] = s[1] /\ Behind(s)[4] = s[2]
           /\ Len(s) = 3 => /\ Len(Behind(s)) = 5 /\ Behind(s)[3] = s[1]
                            /\ Behind(s)[4] = s[2] /\ Behind(s)[5] = s[3]
<1>1. /\ Authorize \in Seq(Statements) /\ Len(Authorize) = 2
      /\ Authorize[1] = <<"validate", "session">> /\ Authorize[2] = <<"authorize", "user">>
  BY DEF Authorize, Statements, Verbs, Things, Tables
<1> HIDE DEF Statements
<1>2. /\ Behind(s) \in Seq(Statements) /\ Len(Behind(s)) = Len(Authorize) + Len(s)
      /\ \A i \in 1 .. Len(Authorize) + Len(s) : Behind(s)[i] =
                     IF i <= Len(Authorize) THEN Authorize[i] ELSE s[i - Len(Authorize)]
  BY <1>1, ConcatProperties DEF Behind
<1>3. Len(s) \in Nat OBVIOUS
<1>4. \A i \in {1, 2} : i \in 1 .. Len(Authorize) + Len(s) /\ i <= Len(Authorize) BY <1>1, <1>3
<1>5. \A j \in {1, 2, 3} : Len(s) >= j =>
        /\ j + 2 \in 1 .. Len(Authorize) + Len(s)
        /\ ~(j + 2 <= Len(Authorize)) /\ (j + 2) - Len(Authorize) = j
  BY <1>1, <1>3
<1>6. \A j \in {1, 2, 3} : Len(s) >= j => Behind(s)[j + 2] = s[j] BY <1>2, <1>5
<1>7. Len(Behind(s)) = 2 + Len(s) /\ Behind(s)[1] = Authorize[1] /\ Behind(s)[2] = Authorize[2]
  BY <1>1, <1>2, <1>4
<1>8. /\ Len(s) >= 1 => Behind(s)[3] = s[1]
      /\ Len(s) >= 2 => Behind(s)[4] = s[2]
      /\ Len(s) >= 3 => Behind(s)[5] = s[3]
  BY <1>6
<1>9. CASE Len(s) = 1 BY <1>1, <1>2, <1>7, <1>8, <1>9
<1>10. CASE Len(s) = 2 BY <1>1, <1>2, <1>7, <1>8, <1>10
<1>11. CASE Len(s) = 3 BY <1>1, <1>2, <1>7, <1>8, <1>11
<1> QED BY <1>1, <1>2, <1>7, <1>9, <1>10, <1>11

\* Every statement of every handler.
LEMMA KindsAre ==
    /\ Kinds =
         {"register", "login", "loginMFA", "logout", "verifyEmail", "forgot", "resetPassword",
          "changePassword", "recoveryKey", "mfaSetup", "mfaVerify", "mfaDisable", "signOutAll",
          "revoke", "deleteAccount", "suspend", "reactivate", "enforce", "relax", "adminVerify"}
    /\ Program["register"] = handleRegister /\ Program["forgot"] = handleForgotPassword
  BY DEF Kinds, Program

\* The handlers that begin with the session of the request.
LEMMA AuthorizedScripts ==
    /\ Program["changePassword"] \in Seq(Statements) /\ Len(Program["changePassword"]) = 5
    /\ Program["changePassword"][3] = <<"verify", "password">>
    /\ Program["changePassword"][4] = <<"set", "password">>
    /\ Program["changePassword"][5] = <<"delete", "others">>
    /\ Program["changePassword"][1] = <<"validate", "session">>
    /\ Program["changePassword"][2] = <<"authorize", "user">>
    /\ Program["recoveryKey"] \in Seq(Statements) /\ Len(Program["recoveryKey"]) = 4
    /\ Program["recoveryKey"][3] = <<"clear", "recovery">>
    /\ Program["recoveryKey"][4] = <<"insert", "recovery">>
    /\ Program["recoveryKey"][1] = <<"validate", "session">>
    /\ Program["recoveryKey"][2] = <<"authorize", "user">>
    /\ Program["mfaSetup"] \in Seq(Statements) /\ Len(Program["mfaSetup"]) = 4
    /\ Program["mfaSetup"][3] = <<"exists", "user">>
    /\ Program["mfaSetup"][4] = <<"upsert", "mfa">>
    /\ Program["mfaSetup"][1] = <<"validate", "session">>
    /\ Program["mfaSetup"][2] = <<"authorize", "user">>
    /\ Program["mfaVerify"] \in Seq(Statements) /\ Len(Program["mfaVerify"]) = 4
    /\ Program["mfaVerify"][3] = <<"code", "mfa">>
    /\ Program["mfaVerify"][4] = <<"enable", "mfa">>
    /\ Program["mfaVerify"][1] = <<"validate", "session">>
    /\ Program["mfaVerify"][2] = <<"authorize", "user">>
    /\ Program["mfaDisable"] \in Seq(Statements) /\ Len(Program["mfaDisable"]) = 4
    /\ Program["mfaDisable"][3] = <<"optional", "mfa">>
    /\ Program["mfaDisable"][4] = <<"delete", "mfa">>
    /\ Program["mfaDisable"][1] = <<"validate", "session">>
    /\ Program["mfaDisable"][2] = <<"authorize", "user">>
    /\ Program["signOutAll"] \in Seq(Statements) /\ Len(Program["signOutAll"]) = 3
    /\ Program["signOutAll"][3] = <<"delete", "sessions">>
    /\ Program["signOutAll"][1] = <<"validate", "session">>
    /\ Program["signOutAll"][2] = <<"authorize", "user">>
    /\ Program["revoke"] \in Seq(Statements) /\ Len(Program["revoke"]) = 3
    /\ Program["revoke"][3] = <<"delete", "one">>
    /\ Program["revoke"][1] = <<"validate", "session">>
    /\ Program["revoke"][2] = <<"authorize", "user">>
    /\ Program["deleteAccount"] \in Seq(Statements) /\ Len(Program["deleteAccount"]) = 3
    /\ Program["deleteAccount"][3] = <<"delete", "user">>
    /\ Program["deleteAccount"][1] = <<"validate", "session">>
    /\ Program["deleteAccount"][2] = <<"authorize", "user">>
<1>1. /\ Program["changePassword"] \in Seq(Statements) /\ Len(Program["changePassword"]) = 5
      /\ Program["changePassword"][3] = <<"verify", "password">>
      /\ Program["changePassword"][4] = <<"set", "password">>
      /\ Program["changePassword"][5] = <<"delete", "others">>
      /\ Program["changePassword"][1] = <<"validate", "session">>
      /\ Program["changePassword"][2] = <<"authorize", "user">>
  <2> DEFINE s == << <<"verify", "password">>, <<"set", "password">>, <<"delete", "others">> >>
  <2>1. /\ s \in Seq(Statements) /\ Len(s) = 3
        /\ s[1] = <<"verify", "password">> /\ s[2] = <<"set", "password">> /\ s[3] = <<"delete", "others">>
    BY DEF Statements, Verbs, Things, Tables
  <2>2. Program["changePassword"] = Behind(s) BY DEF Program, Behind, handleChangePassword
  <2> HIDE DEF s
  <2> QED BY <2>1, <2>2, Authorized
<1>2. /\ Program["recoveryKey"] \in Seq(Statements) /\ Len(Program["recoveryKey"]) = 4
      /\ Program["recoveryKey"][3] = <<"clear", "recovery">>
      /\ Program["recoveryKey"][4] = <<"insert", "recovery">>
      /\ Program["recoveryKey"][1] = <<"validate", "session">>
      /\ Program["recoveryKey"][2] = <<"authorize", "user">>
  <2> DEFINE s == Replace("recovery")
  <2>1. /\ s \in Seq(Statements) /\ Len(s) = 2
        /\ s[1] = <<"clear", "recovery">> /\ s[2] = <<"insert", "recovery">>
    BY Replacing DEF Tables
  <2>2. Program["recoveryKey"] = Behind(s) BY DEF Program, Behind, handleRecoveryKey
  <2> HIDE DEF s
  <2> QED BY <2>1, <2>2, Authorized
<1>3. /\ Program["mfaSetup"] \in Seq(Statements) /\ Len(Program["mfaSetup"]) = 4
      /\ Program["mfaSetup"][3] = <<"exists", "user">>
      /\ Program["mfaSetup"][4] = <<"upsert", "mfa">>
      /\ Program["mfaSetup"][1] = <<"validate", "session">>
      /\ Program["mfaSetup"][2] = <<"authorize", "user">>
  <2> DEFINE s == << <<"exists", "user">>, <<"upsert", "mfa">> >>
  <2>1. /\ s \in Seq(Statements) /\ Len(s) = 2
        /\ s[1] = <<"exists", "user">> /\ s[2] = <<"upsert", "mfa">>
    BY DEF Statements, Verbs, Things, Tables
  <2>2. Program["mfaSetup"] = Behind(s) BY DEF Program, Behind, handleMFASetup
  <2> HIDE DEF s
  <2> QED BY <2>1, <2>2, Authorized
<1>4. /\ Program["mfaVerify"] \in Seq(Statements) /\ Len(Program["mfaVerify"]) = 4
      /\ Program["mfaVerify"][3] = <<"code", "mfa">>
      /\ Program["mfaVerify"][4] = <<"enable", "mfa">>
      /\ Program["mfaVerify"][1] = <<"validate", "session">>
      /\ Program["mfaVerify"][2] = <<"authorize", "user">>
  <2> DEFINE s == << <<"code", "mfa">>, <<"enable", "mfa">> >>
  <2>1. /\ s \in Seq(Statements) /\ Len(s) = 2
        /\ s[1] = <<"code", "mfa">> /\ s[2] = <<"enable", "mfa">>
    BY DEF Statements, Verbs, Things, Tables
  <2>2. Program["mfaVerify"] = Behind(s) BY DEF Program, Behind, handleMFAVerifySetup
  <2> HIDE DEF s
  <2> QED BY <2>1, <2>2, Authorized
<1>5. /\ Program["mfaDisable"] \in Seq(Statements) /\ Len(Program["mfaDisable"]) = 4
      /\ Program["mfaDisable"][3] = <<"optional", "mfa">>
      /\ Program["mfaDisable"][4] = <<"delete", "mfa">>
      /\ Program["mfaDisable"][1] = <<"validate", "session">>
      /\ Program["mfaDisable"][2] = <<"authorize", "user">>
  <2> DEFINE s == << <<"optional", "mfa">>, <<"delete", "mfa">> >>
  <2>1. /\ s \in Seq(Statements) /\ Len(s) = 2
        /\ s[1] = <<"optional", "mfa">> /\ s[2] = <<"delete", "mfa">>
    BY DEF Statements, Verbs, Things, Tables
  <2>2. Program["mfaDisable"] = Behind(s) BY DEF Program, Behind, handleMFADisable
  <2> HIDE DEF s
  <2> QED BY <2>1, <2>2, Authorized
<1>6. /\ Program["signOutAll"] \in Seq(Statements) /\ Len(Program["signOutAll"]) = 3
      /\ Program["signOutAll"][3] = <<"delete", "sessions">>
      /\ Program["signOutAll"][1] = <<"validate", "session">>
      /\ Program["signOutAll"][2] = <<"authorize", "user">>
  <2> DEFINE s == << <<"delete", "sessions">> >>
  <2>1. s \in Seq(Statements) /\ Len(s) = 1 /\ s[1] = <<"delete", "sessions">>
    BY DEF Statements, Verbs, Things, Tables
  <2>2. Program["signOutAll"] = Behind(s) BY DEF Program, Behind, handleSessionDeleteAll
  <2> HIDE DEF s
  <2> QED BY <2>1, <2>2, Authorized
<1>7. /\ Program["revoke"] \in Seq(Statements) /\ Len(Program["revoke"]) = 3
      /\ Program["revoke"][3] = <<"delete", "one">>
      /\ Program["revoke"][1] = <<"validate", "session">>
      /\ Program["revoke"][2] = <<"authorize", "user">>
  <2> DEFINE s == << <<"delete", "one">> >>
  <2>1. s \in Seq(Statements) /\ Len(s) = 1 /\ s[1] = <<"delete", "one">>
    BY DEF Statements, Verbs, Things, Tables
  <2>2. Program["revoke"] = Behind(s) BY DEF Program, Behind, handleRevokeSession
  <2> HIDE DEF s
  <2> QED BY <2>1, <2>2, Authorized
<1>8. /\ Program["deleteAccount"] \in Seq(Statements) /\ Len(Program["deleteAccount"]) = 3
      /\ Program["deleteAccount"][3] = <<"delete", "user">>
      /\ Program["deleteAccount"][1] = <<"validate", "session">>
      /\ Program["deleteAccount"][2] = <<"authorize", "user">>
  <2> DEFINE s == << <<"delete", "user">> >>
  <2>1. s \in Seq(Statements) /\ Len(s) = 1 /\ s[1] = <<"delete", "user">>
    BY DEF Statements, Verbs, Things, Tables
  <2>2. Program["deleteAccount"] = Behind(s) BY DEF Program, Behind, handleDeleteAccount
  <2> HIDE DEF s
  <2> QED BY <2>1, <2>2, Authorized
<1> QED BY <1>1, <1>2, <1>3, <1>4, <1>5, <1>6, <1>7, <1>8

\* The others.
LEMMA OtherScripts ==
    /\ Program["login"] \in Seq(Statements) /\ Len(Program["login"]) = 3
    /\ Program["login"][1] = <<"credentials", "user">>
    /\ Program["login"][2] = <<"enabled", "mfa">>
    /\ Program["login"][3] = <<"insert", "session">>
    /\ Program["loginMFA"] \in Seq(Statements) /\ Len(Program["loginMFA"]) = 4
    /\ Program["loginMFA"][1] = <<"consume", "challenge">>
    /\ Program["loginMFA"][2] = <<"validate", "mfa">>
    /\ Program["loginMFA"][3] = <<"exists", "user">>
    /\ Program["loginMFA"][4] = <<"insert", "session">>
    /\ Program["logout"] \in Seq(Statements) /\ Len(Program["logout"]) = 1
    /\ Program["logout"][1] = <<"delete", "session">>
    /\ Program["verifyEmail"] \in Seq(Statements) /\ Len(Program["verifyEmail"]) = 2
    /\ Program["verifyEmail"][1] = <<"consume", "verification">>
    /\ Program["verifyEmail"][2] = <<"set", "verified">>
    /\ Program["resetPassword"] \in Seq(Statements) /\ Len(Program["resetPassword"]) = 4
    /\ Program["resetPassword"][1] = <<"consume", "reset">>
    /\ Program["resetPassword"][2] = <<"set", "password">>
    /\ Program["resetPassword"][3] = <<"delete", "sessions">>
    /\ Program["resetPassword"][4] = <<"insert", "session">>
    /\ Program["suspend"] \in Seq(Statements) /\ Len(Program["suspend"]) = 2
    /\ Program["suspend"][1] = <<"set", "suspended">>
    /\ Program["suspend"][2] = <<"delete", "sessions">>
    /\ Program["reactivate"] \in Seq(Statements) /\ Len(Program["reactivate"]) = 1
    /\ Program["reactivate"][1] = <<"clear", "suspended">>
    /\ Program["enforce"] \in Seq(Statements) /\ Len(Program["enforce"]) = 1
    /\ Program["enforce"][1] = <<"set", "enforced">>
    /\ Program["relax"] \in Seq(Statements) /\ Len(Program["relax"]) = 1
    /\ Program["relax"][1] = <<"clear", "enforced">>
    /\ Program["adminVerify"] \in Seq(Statements) /\ Len(Program["adminVerify"]) = 1
    /\ Program["adminVerify"][1] = <<"set", "verified">>
<1>1. /\ Program["login"] \in Seq(Statements) /\ Len(Program["login"]) = 3
      /\ Program["login"][1] = <<"credentials", "user">>
      /\ Program["login"][2] = <<"enabled", "mfa">>
      /\ Program["login"][3] = <<"insert", "session">>
  BY DEF Program, handleLogin, Statements, Verbs, Things, Tables
<1>2. /\ Program["loginMFA"] \in Seq(Statements) /\ Len(Program["loginMFA"]) = 4
      /\ Program["loginMFA"][1] = <<"consume", "challenge">>
      /\ Program["loginMFA"][2] = <<"validate", "mfa">>
      /\ Program["loginMFA"][3] = <<"exists", "user">>
      /\ Program["loginMFA"][4] = <<"insert", "session">>
  BY DEF Program, handleLoginMFA, Statements, Verbs, Things, Tables
<1>3. /\ Program["logout"] \in Seq(Statements) /\ Len(Program["logout"]) = 1
      /\ Program["logout"][1] = <<"delete", "session">>
  BY DEF Program, handleLogout, Statements, Verbs, Things, Tables
<1>4. /\ Program["verifyEmail"] \in Seq(Statements) /\ Len(Program["verifyEmail"]) = 2
      /\ Program["verifyEmail"][1] = <<"consume", "verification">>
      /\ Program["verifyEmail"][2] = <<"set", "verified">>
  BY DEF Program, handleVerifyEmail, Statements, Verbs, Things, Tables
<1>5. /\ Program["resetPassword"] \in Seq(Statements) /\ Len(Program["resetPassword"]) = 4
      /\ Program["resetPassword"][1] = <<"consume", "reset">>
      /\ Program["resetPassword"][2] = <<"set", "password">>
      /\ Program["resetPassword"][3] = <<"delete", "sessions">>
      /\ Program["resetPassword"][4] = <<"insert", "session">>
  BY DEF Program, handleResetPassword, Statements, Verbs, Things, Tables
<1>6. /\ Program["suspend"] \in Seq(Statements) /\ Len(Program["suspend"]) = 2
      /\ Program["suspend"][1] = <<"set", "suspended">>
      /\ Program["suspend"][2] = <<"delete", "sessions">>
  BY DEF Program, handleAdminSuspend, Statements, Verbs, Things, Tables
<1>7. /\ Program["reactivate"] \in Seq(Statements) /\ Len(Program["reactivate"]) = 1
      /\ Program["reactivate"][1] = <<"clear", "suspended">>
  BY DEF Program, handleAdminReactivate, Statements, Verbs, Things, Tables
<1>8. /\ Program["enforce"] \in Seq(Statements) /\ Len(Program["enforce"]) = 1
      /\ Program["enforce"][1] = <<"set", "enforced">>
  BY DEF Program, handleAdminMFAEnforce, Statements, Verbs, Things, Tables
<1>9. /\ Program["relax"] \in Seq(Statements) /\ Len(Program["relax"]) = 1
      /\ Program["relax"][1] = <<"clear", "enforced">>
  BY DEF Program, handleAdminMFAEnforce, Statements, Verbs, Things, Tables
<1>10. /\ Program["adminVerify"] \in Seq(Statements) /\ Len(Program["adminVerify"]) = 1
       /\ Program["adminVerify"][1] = <<"set", "verified">>
  BY DEF Program, handleAdminVerifyEmail, Statements, Verbs, Things, Tables
<1> QED BY <1>1, <1>2, <1>3, <1>4, <1>5, <1>6, <1>7, <1>8, <1>9, <1>10

\* Which statement of a handler follows which.
Start == <<"start", "start">>
End   == <<"end", "end">>

Following ==
    {<<"register", Start, <<"absent", "user">>>>,
     <<"register", <<"absent", "user">>, <<"insert", "user">>>>,
     <<"register", <<"insert", "user">>, <<"insert", "resources">>>>,
     <<"register", <<"insert", "resources">>, <<"insert", "keys">>>>,
     <<"register", <<"insert", "keys">>, <<"clear", "recovery">>>>,
     <<"register", <<"clear", "recovery">>, <<"insert", "recovery">>>>,
     <<"register", <<"insert", "recovery">>, <<"clear", "verification">>>>,
     <<"register", <<"clear", "verification">>, <<"insert", "verification">>>>,
     <<"register", <<"insert", "verification">>, <<"insert", "session">>>>,
     <<"register", <<"insert", "session">>, End>>, <<"login", Start, <<"credentials", "user">>>>,
     <<"login", <<"credentials", "user">>, <<"enabled", "mfa">>>>,
     <<"login", <<"enabled", "mfa">>, <<"insert", "session">>>>,
     <<"login", <<"insert", "session">>, End>>,
     <<"login", <<"clear", "challenge">>, <<"insert", "challenge">>>>,
     <<"login", <<"insert", "challenge">>, End>>,
     <<"loginMFA", Start, <<"consume", "challenge">>>>,
     <<"loginMFA", <<"consume", "challenge">>, <<"validate", "mfa">>>>,
     <<"loginMFA", <<"validate", "mfa">>, <<"exists", "user">>>>,
     <<"loginMFA", <<"exists", "user">>, <<"insert", "session">>>>,
     <<"loginMFA", <<"insert", "session">>, End>>, <<"logout", Start, <<"delete", "session">>>>,
     <<"logout", <<"delete", "session">>, End>>,
     <<"verifyEmail", Start, <<"consume", "verification">>>>,
     <<"verifyEmail", <<"consume", "verification">>, <<"set", "verified">>>>,
     <<"verifyEmail", <<"set", "verified">>, End>>, <<"forgot", Start, <<"exists", "user">>>>,
     <<"forgot", <<"exists", "user">>, <<"clear", "reset">>>>,
     <<"forgot", <<"clear", "reset">>, <<"insert", "reset">>>>,
     <<"forgot", <<"insert", "reset">>, End>>,
     <<"resetPassword", Start, <<"consume", "reset">>>>,
     <<"resetPassword", <<"consume", "reset">>, <<"set", "password">>>>,
     <<"resetPassword", <<"set", "password">>, <<"delete", "sessions">>>>,
     <<"resetPassword", <<"delete", "sessions">>, <<"insert", "session">>>>,
     <<"resetPassword", <<"insert", "session">>, End>>,
     <<"changePassword", Start, <<"validate", "session">>>>,
     <<"changePassword", <<"validate", "session">>, <<"authorize", "user">>>>,
     <<"changePassword", <<"authorize", "user">>, <<"verify", "password">>>>,
     <<"changePassword", <<"verify", "password">>, <<"set", "password">>>>,
     <<"changePassword", <<"set", "password">>, <<"delete", "others">>>>,
     <<"changePassword", <<"delete", "others">>, End>>,
     <<"recoveryKey", Start, <<"validate", "session">>>>,
     <<"recoveryKey", <<"validate", "session">>, <<"authorize", "user">>>>,
     <<"recoveryKey", <<"authorize", "user">>, <<"clear", "recovery">>>>,
     <<"recoveryKey", <<"clear", "recovery">>, <<"insert", "recovery">>>>,
     <<"recoveryKey", <<"insert", "recovery">>, End>>,
     <<"mfaSetup", Start, <<"validate", "session">>>>,
     <<"mfaSetup", <<"validate", "session">>, <<"authorize", "user">>>>,
     <<"mfaSetup", <<"authorize", "user">>, <<"exists", "user">>>>,
     <<"mfaSetup", <<"exists", "user">>, <<"upsert", "mfa">>>>,
     <<"mfaSetup", <<"upsert", "mfa">>, End>>, <<"mfaVerify", Start, <<"validate", "session">>>>,
     <<"mfaVerify", <<"validate", "session">>, <<"authorize", "user">>>>,
     <<"mfaVerify", <<"authorize", "user">>, <<"code", "mfa">>>>,
     <<"mfaVerify", <<"code", "mfa">>, <<"enable", "mfa">>>>,
     <<"mfaVerify", <<"enable", "mfa">>, End>>,
     <<"mfaDisable", Start, <<"validate", "session">>>>,
     <<"mfaDisable", <<"validate", "session">>, <<"authorize", "user">>>>,
     <<"mfaDisable", <<"authorize", "user">>, <<"optional", "mfa">>>>,
     <<"mfaDisable", <<"optional", "mfa">>, <<"delete", "mfa">>>>,
     <<"mfaDisable", <<"delete", "mfa">>, End>>,
     <<"signOutAll", Start, <<"validate", "session">>>>,
     <<"signOutAll", <<"validate", "session">>, <<"authorize", "user">>>>,
     <<"signOutAll", <<"authorize", "user">>, <<"delete", "sessions">>>>,
     <<"signOutAll", <<"delete", "sessions">>, End>>,
     <<"revoke", Start, <<"validate", "session">>>>,
     <<"revoke", <<"validate", "session">>, <<"authorize", "user">>>>,
     <<"revoke", <<"authorize", "user">>, <<"delete", "one">>>>,
     <<"revoke", <<"delete", "one">>, End>>,
     <<"deleteAccount", Start, <<"validate", "session">>>>,
     <<"deleteAccount", <<"validate", "session">>, <<"authorize", "user">>>>,
     <<"deleteAccount", <<"authorize", "user">>, <<"delete", "user">>>>,
     <<"deleteAccount", <<"delete", "user">>, End>>,
     <<"suspend", Start, <<"set", "suspended">>>>,
     <<"suspend", <<"set", "suspended">>, <<"delete", "sessions">>>>,
     <<"suspend", <<"delete", "sessions">>, End>>,
     <<"reactivate", Start, <<"clear", "suspended">>>>,
     <<"reactivate", <<"clear", "suspended">>, End>>,
     <<"enforce", Start, <<"set", "enforced">>>>, <<"enforce", <<"set", "enforced">>, End>>,
     <<"relax", Start, <<"clear", "enforced">>>>, <<"relax", <<"clear", "enforced">>, End>>,
     <<"adminVerify", Start, <<"set", "verified">>>>,
     <<"adminVerify", <<"set", "verified">>, End>>}

\* The i-th statement of a script and the one after it.
Nth(P, i)  == IF i = 0 THEN Start ELSE IF i = Len(P) + 1 THEN End ELSE P[i]

LEMMA FollowingIs ==
    ASSUME NEW k \in Kinds, NEW i \in 0..Len(Program[k])
    PROVE  <<k, Nth(Program[k], i), Nth(Program[k], i + 1)>> \in Following
<1>1. CASE k = "register"
  <2>1. Len(Program[k]) = 9 BY <1>1, KindsAre, LongScripts
  <2>2. i \in {0, 1, 2, 3, 4, 5, 6, 7, 8, 9} BY <2>1
  <2> QED BY <1>1, <2>1, <2>2, KindsAre, LongScripts DEF Following, Nth
<1>2. CASE k = "login"
  <2>1. Len(Program[k]) = 3 BY <1>2, OtherScripts
  <2>2. i \in {0, 1, 2, 3} BY <2>1
  <2> QED BY <1>2, <2>1, <2>2, OtherScripts DEF Following, Nth
<1>3. CASE k = "loginMFA"
  <2>1. Len(Program[k]) = 4 BY <1>3, OtherScripts
  <2>2. i \in {0, 1, 2, 3, 4} BY <2>1
  <2> QED BY <1>3, <2>1, <2>2, OtherScripts DEF Following, Nth
<1>4. CASE k = "logout"
  <2>1. Len(Program[k]) = 1 BY <1>4, OtherScripts
  <2>2. i \in {0, 1} BY <2>1
  <2> QED BY <1>4, <2>1, <2>2, OtherScripts DEF Following, Nth
<1>5. CASE k = "verifyEmail"
  <2>1. Len(Program[k]) = 2 BY <1>5, OtherScripts
  <2>2. i \in {0, 1, 2} BY <2>1
  <2> QED BY <1>5, <2>1, <2>2, OtherScripts DEF Following, Nth
<1>6. CASE k = "forgot"
  <2>1. Len(Program[k]) = 3 BY <1>6, KindsAre, ForgotScript
  <2>2. i \in {0, 1, 2, 3} BY <2>1
  <2> QED BY <1>6, <2>1, <2>2, KindsAre, ForgotScript DEF Following, Nth
<1>7. CASE k = "resetPassword"
  <2>1. Len(Program[k]) = 4 BY <1>7, OtherScripts
  <2>2. i \in {0, 1, 2, 3, 4} BY <2>1
  <2> QED BY <1>7, <2>1, <2>2, OtherScripts DEF Following, Nth
<1>8. CASE k = "changePassword"
  <2>1. Len(Program[k]) = 5 BY <1>8, AuthorizedScripts
  <2>2. i \in {0, 1, 2, 3, 4, 5} BY <2>1
  <2> QED BY <1>8, <2>1, <2>2, AuthorizedScripts DEF Following, Nth
<1>9. CASE k = "recoveryKey"
  <2>1. Len(Program[k]) = 4 BY <1>9, AuthorizedScripts
  <2>2. i \in {0, 1, 2, 3, 4} BY <2>1
  <2> QED BY <1>9, <2>1, <2>2, AuthorizedScripts DEF Following, Nth
<1>10. CASE k = "mfaSetup"
  <2>1. Len(Program[k]) = 4 BY <1>10, AuthorizedScripts
  <2>2. i \in {0, 1, 2, 3, 4} BY <2>1
  <2> QED BY <1>10, <2>1, <2>2, AuthorizedScripts DEF Following, Nth
<1>11. CASE k = "mfaVerify"
  <2>1. Len(Program[k]) = 4 BY <1>11, AuthorizedScripts
  <2>2. i \in {0, 1, 2, 3, 4} BY <2>1
  <2> QED BY <1>11, <2>1, <2>2, AuthorizedScripts DEF Following, Nth
<1>12. CASE k = "mfaDisable"
  <2>1. Len(Program[k]) = 4 BY <1>12, AuthorizedScripts
  <2>2. i \in {0, 1, 2, 3, 4} BY <2>1
  <2> QED BY <1>12, <2>1, <2>2, AuthorizedScripts DEF Following, Nth
<1>13. CASE k = "signOutAll"
  <2>1. Len(Program[k]) = 3 BY <1>13, AuthorizedScripts
  <2>2. i \in {0, 1, 2, 3} BY <2>1
  <2> QED BY <1>13, <2>1, <2>2, AuthorizedScripts DEF Following, Nth
<1>14. CASE k = "revoke"
  <2>1. Len(Program[k]) = 3 BY <1>14, AuthorizedScripts
  <2>2. i \in {0, 1, 2, 3} BY <2>1
  <2> QED BY <1>14, <2>1, <2>2, AuthorizedScripts DEF Following, Nth
<1>15. CASE k = "deleteAccount"
  <2>1. Len(Program[k]) = 3 BY <1>15, AuthorizedScripts
  <2>2. i \in {0, 1, 2, 3} BY <2>1
  <2> QED BY <1>15, <2>1, <2>2, AuthorizedScripts DEF Following, Nth
<1>16. CASE k = "suspend"
  <2>1. Len(Program[k]) = 2 BY <1>16, OtherScripts
  <2>2. i \in {0, 1, 2} BY <2>1
  <2> QED BY <1>16, <2>1, <2>2, OtherScripts DEF Following, Nth
<1>17. CASE k = "reactivate"
  <2>1. Len(Program[k]) = 1 BY <1>17, OtherScripts
  <2>2. i \in {0, 1} BY <2>1
  <2> QED BY <1>17, <2>1, <2>2, OtherScripts DEF Following, Nth
<1>18. CASE k = "enforce"
  <2>1. Len(Program[k]) = 1 BY <1>18, OtherScripts
  <2>2. i \in {0, 1} BY <2>1
  <2> QED BY <1>18, <2>1, <2>2, OtherScripts DEF Following, Nth
<1>19. CASE k = "relax"
  <2>1. Len(Program[k]) = 1 BY <1>19, OtherScripts
  <2>2. i \in {0, 1} BY <2>1
  <2> QED BY <1>19, <2>1, <2>2, OtherScripts DEF Following, Nth
<1>20. CASE k = "adminVerify"
  <2>1. Len(Program[k]) = 1 BY <1>20, OtherScripts
  <2>2. i \in {0, 1} BY <2>1
  <2> QED BY <1>20, <2>1, <2>2, OtherScripts DEF Following, Nth
<1> QED
  BY KindsAre, <1>1, <1>2, <1>3, <1>4, <1>5, <1>6, <1>7, <1>8, <1>9, <1>10, <1>11, <1>12, <1>13, <1>14, <1>15, <1>16, <1>17, <1>18, <1>19, <1>20

LEMMA ScriptTypes ==
    ASSUME NEW k \in Kinds
    PROVE  Program[k] \in Seq(Statements) /\ Len(Program[k]) \in Nat /\ Program[k] # <<>>
<1>1. Program[k] \in Seq(Statements) /\ Len(Program[k]) > 0
  <2>1. CASE k \in {"register", "forgot"} BY <2>1, KindsAre, LongScripts, ForgotScript
  <2>2. CASE k \in {"changePassword", "recoveryKey", "mfaSetup", "mfaVerify"}
    BY <2>2, AuthorizedScripts
  <2>4. CASE k \in {"mfaDisable", "signOutAll", "revoke", "deleteAccount"}
    BY <2>4, AuthorizedScripts
  <2>3. CASE k \in {"login", "loginMFA", "logout", "verifyEmail", "resetPassword", "suspend",
                   "reactivate", "enforce", "relax", "adminVerify"}
    BY <2>3, OtherScripts
  <2> QED BY <2>1, <2>2, <2>3, <2>4, KindsAre
<1>2. Len(<<>>) = 0 OBVIOUS
<1> QED BY <1>1, <1>2

\* What is left of a script.
LEMMA RestOf ==
    ASSUME NEW P \in Seq(Statements), NEW i \in 1..Len(P) + 1
    PROVE  /\ Rest(P, i) \in Seq(Statements)
           /\ Rest(P, i) = <<>> <=> i = Len(P) + 1
           /\ i # Len(P) + 1 => i \in 1..Len(P) /\ i + 1 \in 1..Len(P) + 1
           /\ i # Len(P) + 1 => Head(Rest(P, i)) = P[i] /\ Tail(Rest(P, i)) = Rest(P, i + 1)
<1>1. Len(P) \in Nat /\ i \in Int /\ Len(P) \in Int OBVIOUS
<1>2. \A j \in i..Len(P) : P[j] \in Statements BY <1>1
<1>3. Rest(P, i) \in Seq(Statements) /\ Len(Rest(P, i)) = IF i <= Len(P) THEN Len(P) - i + 1 ELSE 0
  BY <1>1, <1>2, SubSeqProperties DEF Rest
<1>4. CASE i = Len(P) + 1
  <2>1. Rest(P, i) = <<>> BY <1>1, <1>4, SubSeqEmpty DEF Rest
  <2> QED BY <1>3, <1>4, <2>1
<1>5. CASE i # Len(P) + 1
  <2>1. i \in 1..Len(P) /\ Len(P) \in i..Len(P) /\ i + 1 \in 1..Len(P) + 1 BY <1>1, <1>5
  <2>2. Head(Rest(P, i)) = P[i] /\ Tail(Rest(P, i)) = Rest(P, i + 1)
    BY <2>1, HeadTailOfSubSeq DEF Rest
  <2>3. Rest(P, i) # <<>>
    <3>1. Len(Rest(P, i)) > 0 BY <1>1, <1>3, <2>1
    <3> QED BY <3>1
  <2> QED BY <1>3, <1>5, <2>1, <2>2, <2>3
<1> QED BY <1>4, <1>5

-----------------------------------------------------------------------------
(* What a step does to the requests. *)

\* What never changes of a request.
Fixed(q) ==
    /\ request'[q].kind = request[q].kind /\ request'[q].uses = request[q].uses
    /\ request'[q].code = request[q].code /\ request'[q].typed = request[q].typed
    /\ request'[q].new = request[q].new /\ request'[q].past = request[q].past

\* r alone moves.
Alone(r) ==
    /\ r \in Begun /\ ~Over(r) /\ request' # <<>> /\ Len(request') = Len(request)
    /\ \A q \in Begun : q # r => request'[q] = request[q]
    /\ Fixed(r)

Upcoming(r) == IF Over(r) THEN End ELSE Statement(r)

\* r makes its statement, or is refused.
Went(r) ==
    /\ Alone(r)
    /\ <<request[r].kind, Statement(r), Upcoming(r)'>> \in Following
    /\ request'[r].factor = request[r].factor
    /\ request'[r].ok <=> Over(r)'
GaveUp(r) == Alone(r) /\ Over(r)' /\ ~request'[r].ok /\ request'[r].enforced = request[r].enforced

LEMMA RequestTypes ==
    ASSUME RequestsOK
    PROVE  /\ Len(request) \in Nat /\ request \in [Begun -> RequestRecords]
           /\ \A r \in Begun : request[r] \in RequestRecords /\ r \in Nat /\ r \in Numbers
<1>1. request \in Seq(RequestRecords) /\ Len(request) <= MaxRequests BY DEF RequestsOK
<1>2. Len(request) \in Nat /\ request \in [Begun -> RequestRecords] BY <1>1, LenProperties DEF Begun
<1>3. \A r \in Begun : r \in Nat /\ r \in Numbers
  BY <1>1, <1>2, AuthServiceAssumption DEF Begun, Numbers
<1> QED BY <1>2, <1>3

\* A request that is not over has a statement of its script before it.
LEMMA Position ==
    ASSUME RequestsOK, NEW r \in Begun
    PROVE  /\ Script(r) \in Seq(Statements)
           /\ \/ Script(r) = Program[request[r].kind] /\ ~request[r].factor
              \/ Script(r) = Replace("challenge") /\ request[r].kind = "login" /\ request[r].factor
           /\ \E i \in 1..Len(Script(r)) + 1 :
                /\ request[r].todo = Rest(Script(r), i)
                /\ Over(r) <=> i = Len(Script(r)) + 1
                /\ ~Over(r) => /\ i \in 1..Len(Script(r)) /\ i + 1 \in 1..Len(Script(r)) + 1
                               /\ Statement(r) = Script(r)[i]
                               /\ Tail(request[r].todo) = Rest(Script(r), i + 1)
<1>1. request[r].kind \in Kinds /\ request[r].factor \in BOOLEAN BY RequestTypes DEF RequestRecords
<1>2. \/ Script(r) = Program[request[r].kind] /\ ~request[r].factor
      \/ Script(r) = Replace("challenge") /\ request[r].kind = "login" /\ request[r].factor
  BY <1>1 DEF RequestsOK, Script
<1>3. Script(r) \in Seq(Statements) BY <1>1, <1>2, ScriptTypes, Replacing DEF Tables
<1>4. PICK i \in 1..Len(Script(r)) + 1 : request[r].todo = Rest(Script(r), i) BY DEF RequestsOK
<1>5. /\ request[r].todo = <<>> <=> i = Len(Script(r)) + 1
      /\ i # Len(Script(r)) + 1 =>
           /\ i \in 1..Len(Script(r)) /\ i + 1 \in 1..Len(Script(r)) + 1
           /\ Head(request[r].todo) = Script(r)[i]
           /\ Tail(request[r].todo) = Rest(Script(r), i + 1)
  BY <1>3, <1>4, RestOf
<1>6. /\ Over(r) <=> i = Len(Script(r)) + 1
      /\ ~Over(r) => /\ i \in 1..Len(Script(r)) /\ i + 1 \in 1..Len(Script(r)) + 1
                     /\ Statement(r) = Script(r)[i]
                     /\ Tail(request[r].todo) = Rest(Script(r), i + 1)
  BY <1>5 DEF Over, Statement
<1>7. \E j \in 1..Len(Script(r)) + 1 :
        /\ request[r].todo = Rest(Script(r), j)
        /\ Over(r) <=> j = Len(Script(r)) + 1
        /\ ~Over(r) => /\ j \in 1..Len(Script(r)) /\ j + 1 \in 1..Len(Script(r)) + 1
                       /\ Statement(r) = Script(r)[j]
                       /\ Tail(request[r].todo) = Rest(Script(r), j + 1)
  BY <1>4, <1>6, Zenon
<1> QED BY <1>2, <1>3, <1>7

\* x is r at another place of a script.
Goes(r, x) ==
    /\ x \in RequestRecords
    /\ x.kind = request[r].kind /\ x.uses = request[r].uses /\ x.code = request[r].code
    /\ x.typed = request[r].typed /\ x.new = request[r].new /\ x.past = request[r].past
    /\ x.factor => x.kind = "login"
    /\ x.ok => x.todo = <<>>
Along(x, script) ==
    /\ script = IF x.factor THEN Replace("challenge") ELSE Program[x.kind]
    /\ \E i \in 1..Len(script) + 1 : x.todo = Rest(script, i)

\* A request of another shape in the place of one that is under way.
LEMMA OneChanges ==
    ASSUME RequestsOK, NEW r \in Begun, ~Over(r), NEW x, Goes(r, x), NEW P, Along(x, P),
           request' = [request EXCEPT ![r] = x]
    PROVE  RequestsOK' /\ Alone(r) /\ request'[r] = x
<1>0. /\ x \in RequestRecords
      /\ x.kind = request[r].kind /\ x.uses = request[r].uses /\ x.code = request[r].code
      /\ x.typed = request[r].typed /\ x.new = request[r].new /\ x.past = request[r].past
      /\ x.factor => x.kind = "login"
      /\ x.ok => x.todo = <<>>
      /\ P = IF x.factor THEN Replace("challenge") ELSE Program[x.kind]
      /\ \E i \in 1..Len(P) + 1 : x.todo = Rest(P, i)
  BY DEF Goes, Along
<1>1. /\ request' \in Seq(RequestRecords) /\ Len(request') = Len(request)
      /\ \A q \in 1..Len(request) : request'[q] = IF q = r THEN x ELSE request[q]
  BY <1>0, ExceptSeq DEF RequestsOK, Begun
<1>2. Begun' = Begun /\ request'[r] = x /\ \A q \in Begun : q # r => request'[q] = request[q]
  BY <1>1 DEF Begun
<1>3. request' # <<>> BY <1>1, RequestTypes DEF Begun
<1>4. Alone(r) BY <1>0, <1>1, <1>2, <1>3 DEF Alone, Fixed
<1>5. \A q \in Begun : Over(q) => Over(q)' BY <1>2 DEF Over
<1>6. \A q \in Begun : q # r => Script(q)' = Script(q) BY <1>2 DEF Script
<1>7. Script(r)' = P BY <1>0, <1>2 DEF Script
<1>8. ASSUME NEW q \in Begun'
      PROVE  /\ \E j \in 1..Len(Script(q)') + 1 : request'[q].todo = Rest(Script(q)', j)
             /\ request'[q].factor => request'[q].kind = "login"
             /\ request'[q].ok => Over(q)'
             /\ request'[q].past \cup ({request'[q].uses, request'[q].code} \ {0})
                  \subseteq {p \in 1..(q - 1) : Over(p)'}
             /\ request'[q].kind = "register" =>
                  request'[q].typed = FirstPassword /\ request'[q].new = FirstPassword
  <2>1. {p \in 1..(q - 1) : Over(p)} \subseteq {p \in 1..(q - 1) : Over(p)'}
    <3>1. \A p \in 1..(q - 1) : p \in Begun BY <1>2, RequestTypes DEF Begun
    <3> QED BY <1>5, <3>1
  <2>2. /\ request'[q].past = request[q].past /\ request'[q].uses = request[q].uses
        /\ request'[q].code = request[q].code /\ request'[q].kind = request[q].kind
        /\ request'[q].typed = request[q].typed /\ request'[q].new = request[q].new
    BY <1>0, <1>2
  <2>3. /\ request[q].past \cup ({request[q].uses, request[q].code} \ {0})
             \subseteq {p \in 1..(q - 1) : Over(p)}
        /\ request[q].kind = "register" =>
             request[q].typed = FirstPassword /\ request[q].new = FirstPassword
    BY <1>2 DEF RequestsOK
  <2>4. CASE q = r BY <1>0, <1>2, <1>7, <2>1, <2>2, <2>3, <2>4 DEF Over
  <2>5. CASE q # r
    <3>1. /\ \E j \in 1..Len(Script(q)) + 1 : request[q].todo = Rest(Script(q), j)
          /\ request[q].factor => request[q].kind = "login"
          /\ request[q].ok => Over(q)
      BY <1>2 DEF RequestsOK
    <3> QED BY <1>2, <1>5, <1>6, <2>1, <2>2, <2>3, <2>5, <3>1
  <2> QED BY <2>4, <2>5
<1> QED BY <1>1, <1>2, <1>4, <1>8 DEF RequestsOK

\* The statement after the i-th of a script.
LEMMA OnTheCourse ==
    ASSUME RequestsOK, NEW r \in Begun, NEW i \in 1..Len(Script(r)),
           NEW statement, statement = Script(r)[i],
           NEW P, P = Script(r), NEW todo, todo = Rest(P, i + 1)
    PROVE  <<request[r].kind, statement, IF todo = <<>> THEN End ELSE Head(todo)>> \in Following
<1>1. P \in Seq(Statements) /\ Len(P) \in Nat /\ i \in Nat BY Position
<1>2. i + 1 \in 1..Len(P) + 1 BY <1>1
<1>3. (IF todo = <<>> THEN End ELSE Head(todo)) = IF i = Len(P) THEN End ELSE P[i + 1]
  <2>1. /\ todo = <<>> <=> i + 1 = Len(P) + 1
        /\ i + 1 # Len(P) + 1 => Head(todo) = P[i + 1]
    BY <1>1, <1>2, RestOf
  <2> QED BY <1>1, <2>1
<1>4. CASE P = Program[request[r].kind]
  <2>1. request[r].kind \in Kinds /\ i \in 0..Len(P) BY <1>1, RequestTypes DEF RequestRecords
  <2>2. <<request[r].kind, Nth(P, i), Nth(P, i + 1)>> \in Following BY <1>4, <2>1, FollowingIs
  <2>3. Nth(P, i) = P[i] /\ Nth(P, i + 1) = IF i = Len(P) THEN End ELSE P[i + 1] BY <1>1 DEF Nth
  <2> QED BY <1>3, <2>2, <2>3
<1>5. CASE P = Replace("challenge") /\ request[r].kind = "login"
  <2>1. /\ Len(P) = 2 /\ P[1] = <<"clear", "challenge">> /\ P[2] = <<"insert", "challenge">>
    BY <1>5, Replacing DEF Tables
  <2>2. i \in {1, 2}
    <3>1. i \in 1..Len(P) OBVIOUS
    <3> QED BY <2>1, <3>1
  <2> QED BY <1>3, <1>5, <2>1, <2>2 DEF Following
<1> QED BY <1>4, <1>5, Position

LEMMA Proceeding ==
    ASSUME RequestsOK, NEW r \in Begun, ~Over(r), Proceeds(r)
    PROVE  RequestsOK' /\ Went(r) /\ request'[r].enforced = request[r].enforced
<1>1. PICK i \in 1..Len(Script(r)) :
        /\ Script(r) \in Seq(Statements) /\ i + 1 \in 1..Len(Script(r)) + 1
        /\ Statement(r) = Script(r)[i]
        /\ Tail(request[r].todo) = Rest(Script(r), i + 1)
  BY Position
<1> DEFINE todo == Tail(request[r].todo)
           x == [request[r] EXCEPT !.todo = todo, !.ok = (todo = <<>>)]
<1>2. todo \in Seq(Statements) BY <1>1, RestOf
<1>t. request[r] \in RequestRecords BY RequestTypes
<1>3. /\ x \in RequestRecords /\ x.todo = todo /\ (x.ok <=> todo = <<>>)
      /\ x.kind = request[r].kind /\ x.uses = request[r].uses /\ x.code = request[r].code
      /\ x.typed = request[r].typed /\ x.new = request[r].new /\ x.past = request[r].past
      /\ x.factor = request[r].factor /\ x.enforced = request[r].enforced
  BY <1>2, <1>t DEF RequestRecords
<1>4. request' = [request EXCEPT ![r] = x] BY RequestTypes DEF Proceeds, GoesOn
<1> HIDE DEF x, todo
<1>5. /\ x.factor => x.kind = "login"
      /\ Script(r) = IF x.factor THEN Replace("challenge") ELSE Program[x.kind]
  BY <1>3 DEF RequestsOK, Script
<1>j. \E j \in 1..Len(Script(r)) + 1 : x.todo = Rest(Script(r), j) BY <1>1, <1>3 DEF todo
<1>g. Goes(r, x) /\ Along(x, Script(r)) BY <1>3, <1>5, <1>j DEF Goes, Along
<1>6. RequestsOK' /\ Alone(r) /\ request'[r] = x BY <1>4, <1>g, OneChanges
<1>7. <<request[r].kind, Statement(r), IF todo = <<>> THEN End ELSE Head(todo)>> \in Following
  BY <1>1, OnTheCourse DEF todo
<1>8. Upcoming(r)' = IF todo = <<>> THEN End ELSE Head(todo)
  BY <1>3, <1>6 DEF Upcoming, Over, Statement
<1> QED BY <1>3, <1>6, <1>7, <1>8 DEF Went, Over

LEMMA Refusing ==
    ASSUME RequestsOK, NEW r \in Begun, ~Over(r), Refused(r)
    PROVE  RequestsOK' /\ GaveUp(r)
<1>1. Script(r) \in Seq(Statements) /\ Len(Script(r)) \in Nat BY Position
<1> DEFINE x == [request[r] EXCEPT !.todo = <<>>]
           i == Len(Script(r)) + 1
<1>2. i \in 1..Len(Script(r)) + 1 /\ Rest(Script(r), i) = <<>> /\ <<>> \in Seq(Statements)
  BY <1>1, RestOf
<1>t. request[r] \in RequestRecords /\ (request[r].ok => Over(r)) /\ ~Over(r)
  BY RequestTypes DEF RequestsOK
<1>e. x.todo = <<>> /\ ~x.ok BY <1>t DEF RequestRecords
<1>3. /\ x \in RequestRecords
      /\ x.kind = request[r].kind /\ x.uses = request[r].uses /\ x.code = request[r].code
      /\ x.typed = request[r].typed /\ x.new = request[r].new /\ x.past = request[r].past
      /\ x.factor = request[r].factor /\ x.enforced = request[r].enforced
  BY <1>2, <1>t DEF RequestRecords
<1>4. request' = [request EXCEPT ![r] = x] BY RequestTypes DEF Refused
<1> HIDE DEF x, i
<1>5. /\ x.factor => x.kind = "login"
      /\ Script(r) = IF x.factor THEN Replace("challenge") ELSE Program[x.kind]
  BY <1>3 DEF RequestsOK, Script
<1>k. x.ok => x.todo = <<>> BY <1>e
<1>j. \E j \in 1..Len(Script(r)) + 1 : x.todo = Rest(Script(r), j) BY <1>2, <1>e
<1>g. Goes(r, x) /\ Along(x, Script(r)) BY <1>3, <1>5, <1>j, <1>k DEF Goes, Along
<1>6. RequestsOK' /\ Alone(r) /\ request'[r] = x BY <1>4, <1>g, OneChanges
<1> QED BY <1>e, <1>3, <1>6 DEF GaveUp, Over

LEMMA ProceedingIf ==
    ASSUME RequestsOK, NEW r \in Begun, ~Over(r), NEW found, ProceedsIf(r, found)
    PROVE  /\ RequestsOK' /\ request'[r].enforced = request[r].enforced
           /\ IF found THEN Went(r) ELSE GaveUp(r)
<1>1. CASE found BY <1>1, Proceeding DEF ProceedsIf
<1>2. CASE ~found BY <1>2, Refusing DEF ProceedsIf, GaveUp
<1> QED BY <1>1, <1>2

\* A statement that only reads, the account among them.
Looked(r) ==
    /\ Alone(r)
    /\ <<request[r].kind, Statement(r), Upcoming(r)'>> \in Following
    /\ request'[r].factor = request[r].factor /\ ~request'[r].ok
    /\ request'[r].enforced = (At(r, <<"credentials", "user">>) /\ user.enforced)

LEMMA Looking ==
    ASSUME RequestsOK, NEW r \in Begun, Select(r), user.enforced \in BOOLEAN
    PROVE  RequestsOK' /\ IF FoundBy(r) THEN Looked(r) ELSE GaveUp(r)
<1>o. ~Over(r) BY DEF Select
<1>1. CASE ~FoundBy(r) BY <1>o, <1>1, Refusing DEF Select
<1>2. CASE FoundBy(r)
  <2>1. PICK i \in 1..Len(Script(r)) :
          /\ Script(r) \in Seq(Statements) /\ i + 1 \in 1..Len(Script(r)) + 1
          /\ Statement(r) = Script(r)[i]
          /\ Tail(request[r].todo) = Rest(Script(r), i + 1)
    BY <1>o, Position
  <2> DEFINE todo == Tail(request[r].todo)
             b == At(r, <<"credentials", "user">>) /\ user.enforced
             x == [request[r] EXCEPT !.todo = todo, !.enforced = b]
  <2>2. todo \in Seq(Statements) /\ b \in BOOLEAN BY <2>1, RestOf
  <2>t. request[r] \in RequestRecords /\ ~request[r].ok BY <1>o, RequestTypes DEF RequestsOK
  <2>4. request' = [request EXCEPT ![r] = x] BY <1>2, RequestTypes DEF Select
  <2> HIDE DEF b
  <2>3. /\ x \in RequestRecords /\ x.todo = todo /\ ~x.ok
        /\ x.kind = request[r].kind /\ x.uses = request[r].uses /\ x.code = request[r].code
        /\ x.typed = request[r].typed /\ x.new = request[r].new /\ x.past = request[r].past
        /\ x.factor = request[r].factor /\ x.enforced = b
    BY <2>2, <2>t DEF RequestRecords
  <2> HIDE DEF x, todo
  <2>5. /\ x.factor => x.kind = "login"
        /\ Script(r) = IF x.factor THEN Replace("challenge") ELSE Program[x.kind]
    BY <2>3 DEF RequestsOK, Script
  <2>k. x.ok => x.todo = <<>> BY <2>3
  <2>j. \E j \in 1..Len(Script(r)) + 1 : x.todo = Rest(Script(r), j) BY <2>1, <2>3 DEF todo
  <2>g. Goes(r, x) /\ Along(x, Script(r)) BY <2>3, <2>5, <2>j, <2>k DEF Goes, Along
  <2>6. RequestsOK' /\ Alone(r) /\ request'[r] = x BY <1>o, <2>4, <2>g, OneChanges
  <2>7. <<request[r].kind, Statement(r), IF todo = <<>> THEN End ELSE Head(todo)>> \in Following
    BY <1>o, <2>1, OnTheCourse DEF todo
  <2>8. Upcoming(r)' = IF todo = <<>> THEN End ELSE Head(todo)
    BY <2>3, <2>6 DEF Upcoming, Over, Statement
  <2> QED BY <1>2, <2>3, <2>6, <2>7, <2>8 DEF Looked, b
<1> QED BY <1>1, <1>2

\* What comes after a statement, by the handler.
LEMMA AfterIs ==
    ASSUME NEW k, NEW s, NEW n, <<k, s, n>> \in Following
    PROVE  /\ s = <<"enabled", "mfa">> => k = "login"
           /\ s = <<"clear", "verification">> => k = "register" /\ n = <<"insert", "verification">>
           /\ s = <<"clear", "reset">> => k = "forgot" /\ n = <<"insert", "reset">>
           /\ k = "register" /\ s = <<"insert", "verification">> => n = <<"insert", "session">>
           /\ k = "forgot" /\ s = <<"insert", "reset">> => n = End
  BY DEF Following, End, Start

\* The second factor is asked for.
Asks(r) ==
    /\ Alone(r) /\ At(r, <<"enabled", "mfa">>) /\ request[r].kind = "login"
    /\ request'[r].factor /\ ~Over(r)' /\ Upcoming(r)' = <<"clear", "challenge">>
    /\ ~request'[r].ok /\ request'[r].enforced = request[r].enforced

LEMMA Asking ==
    ASSUME RequestsOK, NEW r \in Begun, At(r, <<"enabled", "mfa">>), SecondFactor(r, TRUE)
    PROVE  RequestsOK' /\ Asks(r)
<1> DEFINE R == Replace("challenge")
           x == [request[r] EXCEPT !.todo = R, !.factor = TRUE]
<1>1. /\ R \in Seq(Statements) /\ Len(R) = 2 /\ R[1] = <<"clear", "challenge">>
      /\ R = Rest(R, 1) /\ 1 \in 1..Len(R) + 1
  BY Replacing DEF Tables, Rest, Replace
<1>2. request[r] \in RequestRecords /\ ~request[r].ok /\ ~Over(r) BY RequestTypes DEF RequestsOK, At
<1>3. request[r].kind = "login"
  <2>1. PICK i \in 1..Len(Script(r)) : Statement(r) = Script(r)[i] BY <1>2, Position
  <2>2. PICK n : <<request[r].kind, Statement(r), n>> \in Following BY <2>1, OnTheCourse
  <2> QED BY <2>2, AfterIs DEF At
<1>4. request' = [request EXCEPT ![r] = x] BY RequestTypes DEF SecondFactor
<1> HIDE DEF R
<1>5. /\ x \in RequestRecords /\ x.todo = R /\ ~x.ok /\ x.factor
      /\ x.kind = request[r].kind /\ x.uses = request[r].uses /\ x.code = request[r].code
      /\ x.typed = request[r].typed /\ x.new = request[r].new /\ x.past = request[r].past
      /\ x.enforced = request[r].enforced
  BY <1>1, <1>2 DEF RequestRecords
<1> HIDE DEF x
<1>6. Goes(r, x) /\ Along(x, R)
  <2>1. x.ok => x.todo = <<>> BY <1>5
  <2>2. R = IF x.factor THEN Replace("challenge") ELSE Program[x.kind] BY <1>5 DEF R
  <2> QED BY <1>1, <1>3, <1>5, <2>1, <2>2 DEF Goes, Along
<1>7. RequestsOK' /\ Alone(r) /\ request'[r] = x BY <1>2, <1>4, <1>6, OneChanges
<1>8. R # <<>> /\ Head(R) = <<"clear", "challenge">> BY <1>1
<1> QED BY <1>3, <1>5, <1>7, <1>8 DEF Asks, Over, Upcoming, Statement

\* A call of two statements ends at the first.
Skips(r) ==
    /\ Alone(r) /\ request'[r].factor = request[r].factor
    /\ request'[r].enforced = request[r].enforced
    /\ request'[r].ok <=> Over(r)'
    /\ \/ /\ At(r, <<"clear", "verification">>) /\ request[r].kind = "register"
          /\ Upcoming(r)' = <<"insert", "session">> /\ ~Over(r)'
       \/ At(r, <<"clear", "reset">>) /\ request[r].kind = "forgot" /\ Over(r)'

LEMMA Skipping ==
    ASSUME RequestsOK, NEW r \in Begun, ~Over(r), EndsCall(r),
           GoesOn(r, Tail(Tail(request[r].todo)))
    PROVE  RequestsOK' /\ Skips(r)
<1>1. PICK i \in 1..Len(Script(r)) :
        /\ Script(r) \in Seq(Statements) /\ i + 1 \in 1..Len(Script(r)) + 1
        /\ Statement(r) = Script(r)[i]
        /\ Tail(request[r].todo) = Rest(Script(r), i + 1)
  BY Position
<1> DEFINE P == Script(r)
           first == Tail(request[r].todo)
           todo == Tail(first)
           x == [request[r] EXCEPT !.todo = todo, !.ok = (todo = <<>>)]
           k == request[r].kind
<1>2. <<k, Statement(r), IF first = <<>> THEN End ELSE Head(first)>> \in Following
  BY <1>1, OnTheCourse
<1>3. \/ /\ Statement(r) = <<"clear", "verification">> /\ k = "register"
         /\ (IF first = <<>> THEN End ELSE Head(first)) = <<"insert", "verification">>
      \/ /\ Statement(r) = <<"clear", "reset">> /\ k = "forgot"
         /\ (IF first = <<>> THEN End ELSE Head(first)) = <<"insert", "reset">>
  BY <1>2, AfterIs DEF EndsCall
<1>4. first # <<>> BY <1>3 DEF End
<1>5. /\ i + 1 \in 1..Len(P) /\ Head(first) = P[i + 1] /\ i + 2 \in 1..Len(P) + 1
      /\ todo = Rest(P, i + 2) /\ todo \in Seq(Statements)
  <2>1. i + 1 # Len(P) + 1 /\ Head(first) = P[i + 1] /\ todo = Rest(P, (i + 1) + 1)
        /\ i + 1 \in 1..Len(P) /\ (i + 1) + 1 \in 1..Len(P) + 1
    BY <1>1, <1>4, RestOf
  <2>2. (i + 1) + 1 = i + 2 BY <1>1
  <2> HIDE DEF P
  <2>3. Rest(P, i + 2) \in Seq(Statements) BY <1>1, <2>1, <2>2, RestOf DEF P
  <2> QED BY <2>1, <2>2, <2>3
<1>6. <<k, Head(first), IF todo = <<>> THEN End ELSE Head(todo)>> \in Following
  <2>1. todo = Rest(P, (i + 1) + 1) BY <1>1, <1>5
  <2> QED BY <1>5, <2>1, OnTheCourse
<1>t. request[r] \in RequestRecords BY RequestTypes
<1>7. request' = [request EXCEPT ![r] = x] BY RequestTypes DEF GoesOn
<1> HIDE DEF todo
<1>8. /\ x \in RequestRecords /\ x.todo = todo /\ (x.ok <=> todo = <<>>)
      /\ x.kind = request[r].kind /\ x.uses = request[r].uses /\ x.code = request[r].code
      /\ x.typed = request[r].typed /\ x.new = request[r].new /\ x.past = request[r].past
      /\ x.factor = request[r].factor /\ x.enforced = request[r].enforced
  BY <1>5, <1>t DEF RequestRecords
<1> HIDE DEF x, first
<1>9. /\ x.factor => x.kind = "login"
      /\ Script(r) = IF x.factor THEN Replace("challenge") ELSE Program[x.kind]
  BY <1>8 DEF RequestsOK, Script
<1>10. \E j \in 1..Len(Script(r)) + 1 : x.todo = Rest(Script(r), j) BY <1>5, <1>8
<1>11. Goes(r, x) /\ Along(x, Script(r)) BY <1>8, <1>9, <1>10 DEF Goes, Along
<1>12. RequestsOK' /\ Alone(r) /\ request'[r] = x BY <1>7, <1>11, OneChanges
<1>13. Upcoming(r)' = IF todo = <<>> THEN End ELSE Head(todo)
  BY <1>8, <1>12 DEF Upcoming, Over, Statement
<1>14. Over(r)' <=> todo = <<>> BY <1>8, <1>12 DEF Over
<1> DEFINE next == IF todo = <<>> THEN End ELSE Head(todo)
<1>15. \/ k = "register" /\ next = <<"insert", "session">>
       \/ k = "forgot" /\ next = End
  <2>1. <<k, Head(first), next>> \in Following BY <1>6
  <2> HIDE DEF next, first
  <2>2. CASE Statement(r) = <<"clear", "verification">> /\ k = "register"
    <3>0. Head(first) = <<"insert", "verification">> BY <1>3, <1>4, <2>2
    <3>1. <<"register", <<"insert", "verification">>, next>> \in Following BY <2>1, <2>2, <3>0
    <3> QED BY <2>2, <3>1, AfterIs
  <2>3. CASE Statement(r) = <<"clear", "reset">> /\ k = "forgot"
    <3>0. Head(first) = <<"insert", "reset">> BY <1>3, <1>4, <2>3
    <3>1. <<"forgot", <<"insert", "reset">>, next>> \in Following BY <2>1, <2>3, <3>0
    <3> QED BY <2>3, <3>1, AfterIs
  <2> QED BY <1>3, <2>2, <2>3
<1>16. todo = <<>> \/ Head(todo) \in Statements BY <1>5 DEF todo
<1>17. next = End => todo = <<>> BY <1>16 DEF End, Statements, Verbs
<1>18. next = <<"insert", "session">> => todo # <<>> BY DEF End
<1>19. request'[r].ok <=> Over(r)' BY <1>8, <1>12, <1>14
<1> HIDE DEF next
<1>20. \/ k = "register" /\ Upcoming(r)' = <<"insert", "session">> /\ ~Over(r)'
       \/ k = "forgot" /\ Over(r)'
  BY <1>13, <1>14, <1>15, <1>17, <1>18 DEF next
<1>21. \/ At(r, <<"clear", "verification">>) /\ k = "register"
       \/ At(r, <<"clear", "reset">>) /\ k = "forgot"
  BY <1>3 DEF At
<1>22. \/ /\ At(r, <<"clear", "verification">>) /\ k = "register"
         /\ Upcoming(r)' = <<"insert", "session">> /\ ~Over(r)'
       \/ At(r, <<"clear", "reset">>) /\ k = "forgot" /\ Over(r)'
  BY <1>20, <1>21
<1>23. request'[r].factor = request[r].factor /\ request'[r].enforced = request[r].enforced
  BY <1>8, <1>12
<1> QED BY <1>12, <1>19, <1>22, <1>23, Zenon DEF Skips

\* A request begins.
Begins(n, kind) ==
    /\ n = Len(request) + 1 /\ Len(request') = n
    /\ n \notin Begun /\ n \in Begun' /\ Begun' = Begun \cup {n}
    /\ \A q \in Begun : request'[q] = request[q]
    /\ kind \in Kinds /\ request'[n].kind = kind
    /\ <<kind, Start, Upcoming(n)'>> \in Following /\ ~Over(n)'
    /\ ~request'[n].ok /\ ~request'[n].factor /\ request'[n].past = Ended
    /\ request'[n].todo = Program[kind]

LEMMA Carried ==
    ASSUME RequestsOK, NEW kind \in Kinds, NEW uses \in Uses(kind), NEW code \in Codes(kind),
           NEW typed \in Typed(kind), NEW new \in New(kind)
    PROVE  /\ uses \in {0} \cup Ended /\ code \in {0} \cup Ended
           /\ typed \in Passwords /\ new \in Passwords
           /\ kind = "register" => typed = FirstPassword /\ new = FirstPassword
<1>1. Given({"login"}) \subseteq Ended /\ Given({"register"}) \subseteq Ended
      /\ Given({"forgot"}) \subseteq Ended /\ Given(SignIns) \subseteq Ended
      /\ Given({"mfaSetup"}) \subseteq Ended /\ Challenged \subseteq Ended
  BY DEF Given, Challenged
<1>2. Uses(kind) \subseteq {0} \cup Ended BY <1>1 DEF Uses, Cookies
<1>3. Codes(kind) \subseteq {0} \cup Ended BY <1>1 DEF Codes, Secrets, Cookies
<1>4. typed \in Passwords /\ new \in Passwords
      /\ (kind = "register" => typed = FirstPassword /\ new = FirstPassword)
  BY AuthServiceAssumption DEF Typed, New
<1> QED BY <1>2, <1>3, <1>4

LEMMA Beginning ==
    ASSUME RequestsOK, NEW kind \in Kinds, Begin(kind), Len(request) < MaxRequests,
           NEW n, n = Len(request) + 1
    PROVE  RequestsOK' /\ Begins(n, kind)
<1>1. PICK uses \in Uses(kind), code \in Codes(kind), typed \in Typed(kind), new \in New(kind) :
        request' = Append(request,
          [kind |-> kind, todo |-> Program[kind], ok |-> FALSE, uses |-> uses, code |-> code,
           typed |-> typed, new |-> new, enforced |-> FALSE, factor |-> FALSE, past |-> Ended])
  BY DEF Begin
<1> DEFINE x == [kind |-> kind, todo |-> Program[kind], ok |-> FALSE, uses |-> uses, code |-> code,
                 typed |-> typed, new |-> new, enforced |-> FALSE, factor |-> FALSE, past |-> Ended]
<1>2. /\ x.kind = kind /\ x.todo = Program[kind] /\ ~x.ok /\ x.uses = uses /\ x.code = code
      /\ x.typed = typed /\ x.new = new /\ ~x.factor /\ x.past = Ended
  OBVIOUS
<1>3. /\ uses \in {0} \cup Ended /\ code \in {0} \cup Ended
      /\ typed \in Passwords /\ new \in Passwords
      /\ kind = "register" => typed = FirstPassword /\ new = FirstPassword
  BY Carried
<1>4. Ended \subseteq Begun /\ Begun \subseteq Numbers /\ 0 \in Numbers
  BY RequestTypes, AuthServiceAssumption DEF Ended, Numbers
<1>5. x \in RequestRecords
  <2>1. Program[kind] \in Seq(Statements) BY ScriptTypes
  <2> QED BY <1>3, <1>4, <2>1 DEF RequestRecords
<1> HIDE DEF x
<1>6. request \in Seq(RequestRecords) /\ Len(request) \in Nat /\ request' = Append(request, x)
  BY <1>1, RequestTypes DEF RequestsOK, x
<1>7. /\ request' \in Seq(RequestRecords) /\ Len(request') = n
      /\ \A i \in 1..Len(request) : request'[i] = request[i]
      /\ request'[n] = x
  BY <1>5, <1>6, AppendProperties
<1>8. n \notin Begun /\ n \in Begun' /\ Begun' = Begun \cup {n} /\ n \in Nat BY <1>6, <1>7 DEF Begun
<1>9. \A q \in Begun : request'[q] = request[q] /\ (Over(q) <=> Over(q)') BY <1>7 DEF Begun, Over
<1>10. /\ <<kind, Start, Upcoming(n)'>> \in Following /\ ~Over(n)'
  <2>1. Program[kind] \in Seq(Statements) /\ Len(Program[kind]) \in Nat /\ Program[kind] # <<>>
    BY ScriptTypes
  <2>2. ~Over(n)' /\ Statement(n)' = Program[kind][1] BY <1>2, <1>7, <2>1 DEF Over, Statement
  <2>3. 0 \in 0..Len(Program[kind]) /\ Len(Program[kind]) # 0 BY <2>1
  <2>4. <<kind, Nth(Program[kind], 0), Nth(Program[kind], 0 + 1)>> \in Following
    BY <2>3, FollowingIs
  <2>5. Nth(Program[kind], 0) = Start /\ Nth(Program[kind], 0 + 1) = Program[kind][1]
    BY <2>1, <2>3 DEF Nth
  <2> QED BY <2>2, <2>4, <2>5 DEF Upcoming
<1>11. Begins(n, kind) BY <1>2, <1>7, <1>8, <1>9, <1>10 DEF Begins
<1>12. ASSUME NEW q \in Begun'
       PROVE  /\ \E j \in 1..Len(Script(q)') + 1 : request'[q].todo = Rest(Script(q)', j)
              /\ request'[q].factor => request'[q].kind = "login"
              /\ request'[q].ok => Over(q)'
              /\ request'[q].past \cup ({request'[q].uses, request'[q].code} \ {0})
                   \subseteq {p \in 1..(q - 1) : Over(p)'}
              /\ request'[q].kind = "register" =>
                   request'[q].typed = FirstPassword /\ request'[q].new = FirstPassword
  <2>1. CASE q \in Begun
    <3>1. request'[q] = request[q] /\ (Over(q) <=> Over(q)') /\ Script(q)' = Script(q)
      BY <1>9, <2>1 DEF Script
    <3>2. \A p \in 1..(q - 1) : p \in Begun BY <2>1, <1>6 DEF Begun
    <3>3. {p \in 1..(q - 1) : Over(p)'} = {p \in 1..(q - 1) : Over(p)} BY <1>9, <3>2
    <3>4. /\ \E j \in 1..Len(Script(q)) + 1 : request[q].todo = Rest(Script(q), j)
          /\ request[q].factor => request[q].kind = "login"
          /\ request[q].ok => Over(q)
          /\ request[q].past \cup ({request[q].uses, request[q].code} \ {0})
               \subseteq {p \in 1..(q - 1) : Over(p)}
          /\ request[q].kind = "register" =>
               request[q].typed = FirstPassword /\ request[q].new = FirstPassword
      BY <2>1 DEF RequestsOK
    <3> QED BY <3>1, <3>3, <3>4
  <2>2. CASE q = n
    <3>1. Script(q)' = Program[kind] BY <1>2, <1>7, <2>2 DEF Script
    <3>2. \E j \in 1..Len(Program[kind]) + 1 : Program[kind] = Rest(Program[kind], j)
      <4>1. Program[kind] \in Seq(Statements) /\ Len(Program[kind]) \in Nat BY ScriptTypes
      <4>2. Rest(Program[kind], 1) = Program[kind] BY <4>1, SubSeqFull DEF Rest
      <4>3. 1 \in 1..Len(Program[kind]) + 1 BY <4>1
      <4> QED BY <4>2, <4>3
    <3>3. \A p \in Ended : p \in 1..(n - 1) /\ Over(p)'
      <4>1. n - 1 = Len(request) BY <1>6
      <4> QED BY <1>9, <4>1 DEF Ended, Begun
    <3>4. {uses, code} \ {0} \subseteq Ended BY <1>3
    <3>5. /\ request'[q].past = Ended /\ request'[q].uses = uses /\ request'[q].code = code
          /\ request'[q].kind = kind /\ request'[q].typed = typed /\ request'[q].new = new
          /\ ~request'[q].factor /\ ~request'[q].ok /\ request'[q].todo = Program[kind]
      BY <1>2, <1>7, <2>2
    <3>6. request'[q].past \cup ({request'[q].uses, request'[q].code} \ {0})
            \subseteq {p \in 1..(q - 1) : Over(p)'}
      BY <2>2, <3>3, <3>4, <3>5
    <3> QED BY <1>3, <3>1, <3>2, <3>5, <3>6
  <2> QED BY <1>8, <2>1, <2>2
<1>13. n <= MaxRequests BY <1>6, AuthServiceAssumption
<1> QED BY <1>7, <1>11, <1>12, <1>13 DEF RequestsOK

\* The process stops.
Stops ==
    /\ Begun' = Begun
    /\ \A q \in Begun : /\ Over(q)' /\ Fixed(q) /\ request'[q].ok = request[q].ok
                        /\ request'[q].factor = request[q].factor

LEMMA Stopping ==
    ASSUME RequestsOK, ServiceStops
    PROVE  RequestsOK' /\ Stops
<1>1. /\ request' = [r \in Begun |-> [request[r] EXCEPT !.todo = <<>>]]
      /\ Len(request) \in Nat /\ \A r \in Begun : request[r] \in RequestRecords
  BY RequestTypes DEF ServiceStops
<1>2. \A r \in Begun : [request[r] EXCEPT !.todo = <<>>] \in RequestRecords
  <2>1. <<>> \in Seq(Statements) OBVIOUS
  <2> QED BY <1>1, <2>1 DEF RequestRecords
<1>3. request' \in Seq(RequestRecords) /\ Len(request') = Len(request) BY <1>1, <1>2 DEF Begun
<1>4. Begun' = Begun BY <1>3 DEF Begun
<1>5. ASSUME NEW q \in Begun
      PROVE  /\ Over(q)' /\ Fixed(q) /\ request'[q].ok = request[q].ok
             /\ request'[q].factor = request[q].factor
  <2>1. request'[q] = [request[q] EXCEPT !.todo = <<>>] /\ request[q] \in RequestRecords BY <1>1
  <2> QED BY <2>1 DEF Over, Fixed, RequestRecords
<1>6. ASSUME NEW q \in Begun'
      PROVE  /\ \E j \in 1..Len(Script(q)') + 1 : request'[q].todo = Rest(Script(q)', j)
             /\ request'[q].factor => request'[q].kind = "login"
             /\ request'[q].ok => Over(q)'
             /\ request'[q].past \cup ({request'[q].uses, request'[q].code} \ {0})
                  \subseteq {p \in 1..(q - 1) : Over(p)'}
             /\ request'[q].kind = "register" =>
                  request'[q].typed = FirstPassword /\ request'[q].new = FirstPassword
  <2>1. /\ Over(q)' /\ Fixed(q) /\ request'[q].ok = request[q].ok
        /\ request'[q].factor = request[q].factor /\ q \in Begun
    BY <1>4, <1>5
  <2>2. Script(q)' = Script(q) BY <2>1 DEF Script, Fixed
  <2>3. \E j \in 1..Len(Script(q)') + 1 : request'[q].todo = Rest(Script(q)', j)
    <3>1. Script(q) \in Seq(Statements) /\ Len(Script(q)) \in Nat BY <2>1, Position
    <3>2. Len(Script(q)) + 1 \in 1..Len(Script(q)) + 1 BY <3>1
    <3>3. Rest(Script(q), Len(Script(q)) + 1) = <<>> BY <3>1, <3>2, RestOf
    <3> QED BY <2>1, <2>2, <3>2, <3>3 DEF Over
  <2>4. \A p \in 1..(q - 1) : Over(p)'
    <3>1. \A p \in 1..(q - 1) : p \in Begun BY <2>1, <1>1 DEF Begun
    <3> QED BY <1>5, <3>1
  <2>5. /\ request[q].factor => request[q].kind = "login"
        /\ request[q].past \cup ({request[q].uses, request[q].code} \ {0})
             \subseteq {p \in 1..(q - 1) : Over(p)}
        /\ request[q].kind = "register" =>
             request[q].typed = FirstPassword /\ request[q].new = FirstPassword
    BY <2>1 DEF RequestsOK
  <2> QED BY <2>1, <2>3, <2>4, <2>5 DEF Fixed
<1> QED BY <1>3, <1>4, <1>5, <1>6 DEF RequestsOK, Stops

-----------------------------------------------------------------------------
(* What a statement does. *)

\* A statement that does not fail.
Acts(r) ==
    \/ Select(r) \/ IsMFAEnabled(r)
    \/ CreateUserWithPassword(r) \/ Provision(r, "resources") \/ Provision(r, "keys")
    \/ UpdatePasswordHash(r) \/ SetEmailVerified(r) \/ SetFlag(r) \/ DeleteUser(r)
    \/ CreateSession(r) \/ DeleteSession(r) \/ DeleteSessions(r)
    \/ UpsertMFASecret(r) \/ EnableMFA(r) \/ DisableMFA(r)
    \/ \E table \in Tables \cap {Statement(r)[2]} :
         Clear(r, table) \/ InsertRow(r, table) \/ Consume(r, table)

\* What it leaves, variable by variable.
Registering(r) == At(r, <<"insert", "user">>) /\ ~user.there
Erasing(r)     == At(r, <<"delete", "user">>) \/ Registering(r)
FlagAfter(r, flag, after, before) ==
    after = IF At(r, <<"set", flag>>) THEN user.there
            ELSE IF At(r, <<"clear", flag>>) \/ Erasing(r) THEN FALSE ELSE before
PartAfter(r, what, after, before) ==
    after = IF At(r, <<"insert", what>>) /\ user.there THEN TRUE
            ELSE IF Erasing(r) THEN FALSE ELSE before
UserAfter(r) ==
    /\ user' \in Accounts
    /\ user'.there = IF At(r, <<"insert", "user">>) THEN TRUE
                     ELSE IF At(r, <<"delete", "user">>) THEN FALSE ELSE user.there
    /\ user'.password =
          IF Registering(r) \/ (At(r, <<"set", "password">>) /\ user.there) THEN request[r].new
          ELSE IF At(r, <<"delete", "user">>) THEN FirstPassword ELSE user.password
    /\ FlagAfter(r, "suspended", user'.suspended, user.suspended)
    /\ FlagAfter(r, "enforced", user'.enforced, user.enforced)
    /\ PartAfter(r, "resources", user'.resources, user.resources)
    /\ PartAfter(r, "keys", user'.keys, user.keys)

SessionsAfter(r) ==
    sessions' = IF At(r, <<"insert", "session">>) /\ user.there THEN sessions \cup {r}
                ELSE IF At(r, <<"delete", "session">>) THEN sessions \ {request[r].uses}
                ELSE IF At(r, <<"delete", "one">>) THEN sessions \ {request[r].code}
                ELSE IF At(r, <<"delete", "others">>) THEN sessions \cap {request[r].uses}
                ELSE IF At(r, <<"delete", "sessions">>) \/ At(r, <<"delete", "user">>) THEN {}
                ELSE sessions
RunningAfter(r) ==
    running' = IF At(r, <<"delete", "sessions">>) \/ At(r, <<"delete", "others">>)
               THEN Begun \ Ended ELSE running

MfaAfter(r) ==
    /\ mfa' \in Factors
    /\ mfa'.secret = IF At(r, <<"upsert", "mfa">>) /\ user.there THEN r
                     ELSE IF At(r, <<"delete", "mfa">>) \/ At(r, <<"delete", "user">>) THEN NoSecret
                     ELSE mfa.secret
    /\ mfa'.enabled = IF At(r, <<"upsert", "mfa">>) /\ user.there THEN FALSE
                      ELSE IF At(r, <<"delete", "mfa">>) \/ At(r, <<"delete", "user">>) THEN FALSE
                      ELSE IF At(r, <<"enable", "mfa">>) THEN mfa.secret # NoSecret ELSE mfa.enabled

TokensAfter(r) ==
    /\ tokens' \in [Tables -> SUBSET Numbers]
    /\ \A t \in Tables :
          tokens'[t] = IF At(r, <<"clear", t>>) \/ At(r, <<"delete", "user">>) THEN {}
                       ELSE IF At(r, <<"insert", t>>) /\ user.there THEN tokens[t] \cup {r}
                       ELSE IF At(r, <<"consume", t>>) THEN tokens[t] \ {request[r].uses}
                       ELSE tokens[t]

\* What it needs to find, unless the request is refused.
FindsRow(r) ==
    /\ At(r, <<"absent", "user">>) => ~user.there
    /\ At(r, <<"credentials", "user">>) =>
          user.there /\ ~user.suspended /\ user.password = request[r].typed
    /\ At(r, <<"authorize", "user">>) => user.there /\ ~user.suspended
    /\ At(r, <<"code", "mfa">>) => mfa.secret = request[r].code
    /\ At(r, <<"enabled", "mfa">>) => mfa.enabled \/ ~request[r].enforced
    /\ At(r, <<"insert", "user">>) => ~user.there
    /\ ~Over(r) /\ Statement(r) \in {<<"insert", "resources">>, <<"insert", "keys">>,
             <<"insert", "session">>, <<"set", "password">>, <<"delete", "user">>, <<"upsert", "mfa">>}
          => user.there
    /\ At(r, <<"enable", "mfa">>) => mfa.secret # NoSecret
    /\ \A t \in Tables : At(r, <<"consume", t>>) => request[r].uses \in tokens[t]

\* Statements that do not ask.
Sure == {<<"set", "suspended">>, <<"clear", "suspended">>, <<"set", "enforced">>, <<"clear", "enforced">>,
         <<"delete", "session">>, <<"delete", "sessions">>, <<"delete", "others">>}

Outcome(r) ==
    \/ /\ GaveUp(r) /\ Statement(r) \notin Sure
       /\ Statement(r) \in {<<"delete", "user">>, <<"set", "password">>} => ~user.there
       /\ Statement(r) = <<"enable", "mfa">> => mfa.secret = NoSecret
    \/ /\ FindsRow(r)
       /\ At(r, <<"credentials", "user">>) => request'[r].enforced = user.enforced
       /\ IF At(r, <<"enabled", "mfa">>) /\ mfa.enabled THEN Asks(r) ELSE Went(r)

Makes(r) ==
    /\ UserAfter(r) /\ SessionsAfter(r) /\ RunningAfter(r) /\ MfaAfter(r) /\ TokensAfter(r)
    /\ Outcome(r) /\ failures' = failures

\* What a statement that fails does: nothing, and the handler may go on.
Excused == {<<"delete", "others">>, <<"delete", "session">>, <<"delete", "sessions">>,
            <<"clear", "recovery">>, <<"insert", "recovery">>, <<"insert", "verification">>,
            <<"insert", "reset">>, <<"insert", "challenge">>, <<"enabled", "mfa">>}
Misses(r) ==
    /\ UNCHANGED <<user, sessions, mfa, tokens, running>> /\ failures' \in 1..MaxFailures
    /\ \/ GaveUp(r)
       \/ Skips(r)
       \/ /\ Went(r) /\ Statement(r) \in Excused
          /\ At(r, <<"enabled", "mfa">>) => ~request[r].enforced

LEMMA Failing ==
    ASSUME RequestsOK, NEW r \in Begun, ~Over(r), Fails(r), failures \in Nat
    PROVE  RequestsOK' /\ Misses(r)
<1>1. UNCHANGED <<user, sessions, mfa, tokens, running>> /\ failures' \in 1..MaxFailures
  BY AuthServiceAssumption DEF Fails
<1>s. Statement(r) \in Statements
  <2>1. PICK i \in 1..Len(Script(r)) : Script(r) \in Seq(Statements) /\ Statement(r) = Script(r)[i]
    BY Position
  <2> QED BY <2>1
<1>d. ~EndsCall(r) \/ ~At(r, <<"enabled", "mfa">>) BY DEF EndsCall, At
<1>2. CASE Unchecked(r)
  <2>2. /\ Statement(r) \in Excused /\ ~At(r, <<"enabled", "mfa">>) /\ ~EndsCall(r)
    BY <1>2, <1>s DEF Unchecked, Excused, At, EndsCall, Statements, Tables
  <2>1. Proceeds(r) BY <1>2, <2>2 DEF Fails
  <2> QED BY <1>1, <2>1, <2>2, Proceeding DEF Misses
<1>3. CASE ~Unchecked(r) /\ EndsCall(r)
  <2>1. GoesOn(r, Tail(Tail(request[r].todo))) BY <1>3, <1>d DEF Fails
  <2> QED BY <1>1, <1>3, <2>1, Skipping DEF Misses
<1>4. CASE ~Unchecked(r) /\ ~EndsCall(r) /\ At(r, <<"enabled", "mfa">>)
  <2>1. ProceedsIf(r, ~request[r].enforced) BY <1>4, <1>d DEF Fails, SecondFactor
  <2>2. RequestsOK' /\ IF ~request[r].enforced THEN Went(r) ELSE GaveUp(r) BY <2>1, ProceedingIf
  <2>3. Statement(r) \in Excused BY <1>4 DEF Excused, At
  <2> QED BY <1>1, <2>2, <2>3 DEF Misses
<1>5. CASE ~Unchecked(r) /\ ~EndsCall(r) /\ ~At(r, <<"enabled", "mfa">>)
  <2>1. Refused(r) BY <1>5 DEF Fails
  <2> QED BY <1>1, <2>1, Refusing DEF Misses
<1> QED BY <1>2, <1>3, <1>4, <1>5

\* What an action leaves alone.
LEMMA AtOne ==
    ASSUME NEW r, NEW s, At(r, s)
    PROVE  ~Over(r) /\ Statement(r) = s /\ \A q : At(r, q) <=> q = s
  BY DEF At

LEMMA Acting ==
    ASSUME AuthTypeOK, RequestsOK, NEW r \in Begun, Acts(r)
    PROVE  RequestsOK' /\ Makes(r)
<1>r. r \in Numbers BY RequestTypes
<1>u. user \in Accounts /\ tokens \in [Tables -> SUBSET Numbers] /\ mfa \in Factors
  BY DEF AuthTypeOK
<1>n. request[r].new \in Passwords /\ FirstPassword \in Passwords
  BY RequestTypes, AuthServiceAssumption DEF RequestRecords
<1>1. CASE CreateUserWithPassword(r)
  <2>1. At(r, <<"insert", "user">>) BY <1>1 DEF CreateUserWithPassword
  <2>2. ~Over(r) /\ Statement(r) = <<"insert", "user">> /\ \A q : At(r, q) <=> q = <<"insert", "user">>
    BY <2>1, AtOne
  <2>3. RequestsOK' /\ IF ~user.there THEN Went(r) ELSE GaveUp(r)
    BY <1>1, <2>2, ProceedingIf DEF CreateUserWithPassword
  <2>4. Outcome(r) BY <2>2, <2>3, <1>u DEF Outcome, FindsRow, Sure, Tables
  <2>5. /\ SessionsAfter(r) /\ RunningAfter(r) /\ MfaAfter(r) /\ failures' = failures
    BY <1>1, <1>u, <2>2 DEF CreateUserWithPassword, SessionsAfter, RunningAfter, MfaAfter, Factors
  <2>6. TokensAfter(r) BY <1>1, <1>u, <2>2 DEF CreateUserWithPassword, TokensAfter, Tables
  <2>7. UserAfter(r)
    BY <1>1, <1>u, <1>n, <2>2 DEF CreateUserWithPassword, Accounts, UserAfter, FlagAfter, PartAfter, Erasing, Registering, NoAccount
  <2> QED BY <2>3, <2>4, <2>5, <2>6, <2>7 DEF Makes
<1>2. CASE Provision(r, "resources")
  <2>1. At(r, <<"insert", "resources">>) BY <1>2 DEF Provision
  <2>2. ~Over(r) /\ Statement(r) = <<"insert", "resources">> /\ \A q : At(r, q) <=> q = <<"insert", "resources">>
    BY <2>1, AtOne
  <2>3. RequestsOK' /\ IF user.there THEN Went(r) ELSE GaveUp(r)
    BY <1>2, <2>2, ProceedingIf DEF Provision
  <2>4. Outcome(r) BY <2>2, <2>3, <1>u DEF Outcome, FindsRow, Sure, Tables
  <2>5. /\ SessionsAfter(r) /\ RunningAfter(r) /\ MfaAfter(r) /\ failures' = failures
    BY <1>2, <1>u, <2>2 DEF Provision, SessionsAfter, RunningAfter, MfaAfter, Factors
  <2>6. TokensAfter(r) BY <1>2, <1>u, <2>2 DEF Provision, TokensAfter, Tables
  <2>7. UserAfter(r)
    BY <1>2, <1>u, <1>n, <2>2 DEF Provision, Accounts, UserAfter, FlagAfter, PartAfter, Erasing, Registering
  <2> QED BY <2>3, <2>4, <2>5, <2>6, <2>7 DEF Makes
<1>3. CASE Provision(r, "keys")
  <2>1. At(r, <<"insert", "keys">>) BY <1>3 DEF Provision
  <2>2. ~Over(r) /\ Statement(r) = <<"insert", "keys">> /\ \A q : At(r, q) <=> q = <<"insert", "keys">>
    BY <2>1, AtOne
  <2>3. RequestsOK' /\ IF user.there THEN Went(r) ELSE GaveUp(r)
    BY <1>3, <2>2, ProceedingIf DEF Provision
  <2>4. Outcome(r) BY <2>2, <2>3, <1>u DEF Outcome, FindsRow, Sure, Tables
  <2>5. /\ SessionsAfter(r) /\ RunningAfter(r) /\ MfaAfter(r) /\ failures' = failures
    BY <1>3, <1>u, <2>2 DEF Provision, SessionsAfter, RunningAfter, MfaAfter, Factors
  <2>6. TokensAfter(r) BY <1>3, <1>u, <2>2 DEF Provision, TokensAfter, Tables
  <2>7. UserAfter(r)
    BY <1>3, <1>u, <1>n, <2>2 DEF Provision, Accounts, UserAfter, FlagAfter, PartAfter, Erasing, Registering
  <2> QED BY <2>3, <2>4, <2>5, <2>6, <2>7 DEF Makes
<1>4. CASE UpdatePasswordHash(r)
  <2>1. At(r, <<"set", "password">>) BY <1>4 DEF UpdatePasswordHash
  <2>2. ~Over(r) /\ Statement(r) = <<"set", "password">> /\ \A q : At(r, q) <=> q = <<"set", "password">>
    BY <2>1, AtOne
  <2>3. RequestsOK' /\ IF user.there THEN Went(r) ELSE GaveUp(r)
    BY <1>4, <2>2, ProceedingIf DEF UpdatePasswordHash
  <2>4. Outcome(r) BY <2>2, <2>3, <1>u DEF Outcome, FindsRow, Sure, Tables
  <2>5. /\ SessionsAfter(r) /\ RunningAfter(r) /\ MfaAfter(r) /\ failures' = failures
    BY <1>4, <1>u, <2>2 DEF UpdatePasswordHash, SessionsAfter, RunningAfter, MfaAfter, Factors
  <2>6. TokensAfter(r) BY <1>4, <1>u, <2>2 DEF UpdatePasswordHash, TokensAfter, Tables
  <2>7. UserAfter(r)
    BY <1>4, <1>u, <1>n, <2>2 DEF UpdatePasswordHash, Accounts, UserAfter, FlagAfter, PartAfter, Erasing, Registering
  <2> QED BY <2>3, <2>4, <2>5, <2>6, <2>7 DEF Makes
<1>5. CASE SetEmailVerified(r)
  <2>1. At(r, <<"set", "verified">>) BY <1>5 DEF SetEmailVerified
  <2>2. ~Over(r) /\ Statement(r) = <<"set", "verified">> /\ \A q : At(r, q) <=> q = <<"set", "verified">>
    BY <2>1, AtOne
  <2>3. RequestsOK' /\ IF user.there \/ request[r].kind = "adminVerify" THEN Went(r) ELSE GaveUp(r)
    BY <1>5, <2>2, ProceedingIf DEF SetEmailVerified
  <2>4. Outcome(r) BY <2>2, <2>3, <1>u DEF Outcome, FindsRow, Sure, Tables
  <2>5. /\ SessionsAfter(r) /\ RunningAfter(r) /\ MfaAfter(r) /\ failures' = failures
    BY <1>5, <1>u, <2>2 DEF SetEmailVerified, SessionsAfter, RunningAfter, MfaAfter, Factors
  <2>6. TokensAfter(r) BY <1>5, <1>u, <2>2 DEF SetEmailVerified, TokensAfter, Tables
  <2>7. UserAfter(r)
    BY <1>5, <1>u, <1>n, <2>2 DEF SetEmailVerified, Accounts, UserAfter, FlagAfter, PartAfter, Erasing, Registering
  <2> QED BY <2>3, <2>4, <2>5, <2>6, <2>7 DEF Makes
<1>6. CASE DeleteUser(r)
  <2>1. At(r, <<"delete", "user">>) BY <1>6 DEF DeleteUser
  <2>2. ~Over(r) /\ Statement(r) = <<"delete", "user">> /\ \A q : At(r, q) <=> q = <<"delete", "user">>
    BY <2>1, AtOne
  <2>3. RequestsOK' /\ IF user.there THEN Went(r) ELSE GaveUp(r)
    BY <1>6, <2>2, ProceedingIf DEF DeleteUser
  <2>4. Outcome(r) BY <2>2, <2>3, <1>u DEF Outcome, FindsRow, Sure, Tables
  <2>5. /\ SessionsAfter(r) /\ RunningAfter(r) /\ MfaAfter(r) /\ failures' = failures
    BY <1>6, <1>u, <2>2 DEF DeleteUser, SessionsAfter, RunningAfter, MfaAfter, Factors
  <2>6. TokensAfter(r) BY <1>6, <1>u, <2>2 DEF DeleteUser, TokensAfter, Tables
  <2>7. UserAfter(r)
    BY <1>6, <1>u, <1>n, <2>2 DEF DeleteUser, Accounts, UserAfter, FlagAfter, PartAfter, Erasing, Registering, NoAccount
  <2> QED BY <2>3, <2>4, <2>5, <2>6, <2>7 DEF Makes
<1>7. CASE CreateSession(r)
  <2>1. At(r, <<"insert", "session">>) BY <1>7 DEF CreateSession
  <2>2. ~Over(r) /\ Statement(r) = <<"insert", "session">> /\ \A q : At(r, q) <=> q = <<"insert", "session">>
    BY <2>1, AtOne
  <2>3. RequestsOK' /\ IF user.there THEN Went(r) ELSE GaveUp(r)
    BY <1>7, <2>2, ProceedingIf DEF CreateSession
  <2>4. Outcome(r) BY <2>2, <2>3, <1>u DEF Outcome, FindsRow, Sure, Tables
  <2>5. /\ SessionsAfter(r) /\ RunningAfter(r) /\ MfaAfter(r) /\ failures' = failures
    BY <1>7, <1>u, <2>2 DEF CreateSession, SessionsAfter, RunningAfter, MfaAfter, Factors
  <2>6. TokensAfter(r) BY <1>7, <1>u, <2>2 DEF CreateSession, TokensAfter, Tables
  <2>7. UserAfter(r)
    BY <1>7, <1>u, <1>n, <2>2 DEF CreateSession, Accounts, UserAfter, FlagAfter, PartAfter, Erasing, Registering
  <2> QED BY <2>3, <2>4, <2>5, <2>6, <2>7 DEF Makes
<1>8. CASE UpsertMFASecret(r)
  <2>1. At(r, <<"upsert", "mfa">>) BY <1>8 DEF UpsertMFASecret
  <2>2. ~Over(r) /\ Statement(r) = <<"upsert", "mfa">> /\ \A q : At(r, q) <=> q = <<"upsert", "mfa">>
    BY <2>1, AtOne
  <2>3. RequestsOK' /\ IF user.there THEN Went(r) ELSE GaveUp(r)
    BY <1>8, <2>2, ProceedingIf DEF UpsertMFASecret
  <2>4. Outcome(r) BY <2>2, <2>3, <1>u DEF Outcome, FindsRow, Sure, Tables
  <2>5. /\ SessionsAfter(r) /\ RunningAfter(r) /\ MfaAfter(r) /\ failures' = failures
    BY <1>8, <1>r, <1>u, <2>2 DEF UpsertMFASecret, SessionsAfter, RunningAfter, MfaAfter, Factors
  <2>6. TokensAfter(r) BY <1>8, <1>r, <1>u, <2>2 DEF UpsertMFASecret, TokensAfter, Tables
  <2>7. UserAfter(r)
    BY <1>8, <1>u, <1>n, <2>2 DEF UpsertMFASecret, Accounts, UserAfter, FlagAfter, PartAfter, Erasing, Registering
  <2> QED BY <2>3, <2>4, <2>5, <2>6, <2>7 DEF Makes
<1>9. CASE EnableMFA(r)
  <2>1. At(r, <<"enable", "mfa">>) BY <1>9 DEF EnableMFA
  <2>2. ~Over(r) /\ Statement(r) = <<"enable", "mfa">> /\ \A q : At(r, q) <=> q = <<"enable", "mfa">>
    BY <2>1, AtOne
  <2>3. RequestsOK' /\ IF mfa.secret # NoSecret THEN Went(r) ELSE GaveUp(r)
    BY <1>9, <2>2, ProceedingIf DEF EnableMFA
  <2>4. Outcome(r) BY <2>2, <2>3, <1>u DEF Outcome, FindsRow, Sure, Tables
  <2>5. /\ SessionsAfter(r) /\ RunningAfter(r) /\ MfaAfter(r) /\ failures' = failures
    BY <1>9, <1>u, <2>2 DEF EnableMFA, SessionsAfter, RunningAfter, MfaAfter, Factors
  <2>6. TokensAfter(r) BY <1>9, <1>u, <2>2 DEF EnableMFA, TokensAfter, Tables
  <2>7. UserAfter(r)
    BY <1>9, <1>u, <1>n, <2>2 DEF EnableMFA, Accounts, UserAfter, FlagAfter, PartAfter, Erasing, Registering
  <2> QED BY <2>3, <2>4, <2>5, <2>6, <2>7 DEF Makes
<1>10. CASE DisableMFA(r)
  <2>1. At(r, <<"delete", "mfa">>) BY <1>10 DEF DisableMFA
  <2>2. ~Over(r) /\ Statement(r) = <<"delete", "mfa">> /\ \A q : At(r, q) <=> q = <<"delete", "mfa">>
    BY <2>1, AtOne
  <2>3. RequestsOK' /\ Went(r) BY <1>10, <2>2, Proceeding DEF DisableMFA
  <2>4. Outcome(r) BY <2>2, <2>3, <1>u DEF Outcome, FindsRow, Sure, Tables
  <2>5. /\ SessionsAfter(r) /\ RunningAfter(r) /\ MfaAfter(r) /\ failures' = failures
    BY <1>10, <1>u, <2>2 DEF DisableMFA, SessionsAfter, RunningAfter, MfaAfter, Factors
  <2>6. TokensAfter(r) BY <1>10, <1>u, <2>2 DEF DisableMFA, TokensAfter, Tables
  <2>7. UserAfter(r)
    BY <1>10, <1>u, <1>n, <2>2 DEF DisableMFA, Accounts, UserAfter, FlagAfter, PartAfter, Erasing, Registering
  <2> QED BY <2>3, <2>4, <2>5, <2>6, <2>7 DEF Makes
<1>11. CASE SetFlag(r)
  <2>1. CASE At(r, <<"set", "suspended">>) /\ user' = [user EXCEPT !.suspended = user.there]
    <3>1. ~Over(r) /\ Statement(r) = <<"set", "suspended">> /\ \A q : At(r, q) <=> q = <<"set", "suspended">>
      BY <2>1, AtOne
    <3>2. RequestsOK' /\ Went(r) BY <1>11, <3>1, Proceeding DEF SetFlag
    <3>3. Outcome(r) BY <3>1, <3>2, <1>u DEF Outcome, FindsRow, Sure, Tables
    <3>4. /\ UserAfter(r) /\ SessionsAfter(r) /\ RunningAfter(r) /\ MfaAfter(r) /\ TokensAfter(r)
          /\ failures' = failures
      BY <1>11, <1>r, <1>u, <2>1, <3>1 DEF SetFlag, Accounts, UserAfter, SessionsAfter, RunningAfter, MfaAfter, Factors,
         TokensAfter, FlagAfter, PartAfter, Erasing, Registering, Tables
    <3> QED BY <3>2, <3>3, <3>4 DEF Makes
  <2>2. CASE At(r, <<"clear", "suspended">>) /\ user' = [user EXCEPT !.suspended = FALSE]
    <3>1. ~Over(r) /\ Statement(r) = <<"clear", "suspended">> /\ \A q : At(r, q) <=> q = <<"clear", "suspended">>
      BY <2>2, AtOne
    <3>2. RequestsOK' /\ Went(r) BY <1>11, <3>1, Proceeding DEF SetFlag
    <3>3. Outcome(r) BY <3>1, <3>2, <1>u DEF Outcome, FindsRow, Sure, Tables
    <3>4. /\ UserAfter(r) /\ SessionsAfter(r) /\ RunningAfter(r) /\ MfaAfter(r) /\ TokensAfter(r)
          /\ failures' = failures
      BY <1>11, <1>r, <1>u, <2>2, <3>1 DEF SetFlag, Accounts, UserAfter, SessionsAfter, RunningAfter, MfaAfter, Factors,
         TokensAfter, FlagAfter, PartAfter, Erasing, Registering, Tables
    <3> QED BY <3>2, <3>3, <3>4 DEF Makes
  <2>3. CASE At(r, <<"set", "enforced">>) /\ user' = [user EXCEPT !.enforced = user.there]
    <3>1. ~Over(r) /\ Statement(r) = <<"set", "enforced">> /\ \A q : At(r, q) <=> q = <<"set", "enforced">>
      BY <2>3, AtOne
    <3>2. RequestsOK' /\ Went(r) BY <1>11, <3>1, Proceeding DEF SetFlag
    <3>3. Outcome(r) BY <3>1, <3>2, <1>u DEF Outcome, FindsRow, Sure, Tables
    <3>4. /\ UserAfter(r) /\ SessionsAfter(r) /\ RunningAfter(r) /\ MfaAfter(r) /\ TokensAfter(r)
          /\ failures' = failures
      BY <1>11, <1>r, <1>u, <2>3, <3>1 DEF SetFlag, Accounts, UserAfter, SessionsAfter, RunningAfter, MfaAfter, Factors,
         TokensAfter, FlagAfter, PartAfter, Erasing, Registering, Tables
    <3> QED BY <3>2, <3>3, <3>4 DEF Makes
  <2>4. CASE At(r, <<"clear", "enforced">>) /\ user' = [user EXCEPT !.enforced = FALSE]
    <3>1. ~Over(r) /\ Statement(r) = <<"clear", "enforced">> /\ \A q : At(r, q) <=> q = <<"clear", "enforced">>
      BY <2>4, AtOne
    <3>2. RequestsOK' /\ Went(r) BY <1>11, <3>1, Proceeding DEF SetFlag
    <3>3. Outcome(r) BY <3>1, <3>2, <1>u DEF Outcome, FindsRow, Sure, Tables
    <3>4. /\ UserAfter(r) /\ SessionsAfter(r) /\ RunningAfter(r) /\ MfaAfter(r) /\ TokensAfter(r)
          /\ failures' = failures
      BY <1>11, <1>r, <1>u, <2>4, <3>1 DEF SetFlag, Accounts, UserAfter, SessionsAfter, RunningAfter, MfaAfter, Factors,
         TokensAfter, FlagAfter, PartAfter, Erasing, Registering, Tables
    <3> QED BY <3>2, <3>3, <3>4 DEF Makes
  <2> QED BY <1>11, <2>1, <2>2, <2>3, <2>4 DEF SetFlag
<1>12. CASE DeleteSession(r)
  <2>1. CASE At(r, <<"delete", "session">>) /\ sessions' = sessions \ {request[r].uses} /\ Proceeds(r)
    <3>1. ~Over(r) /\ Statement(r) = <<"delete", "session">> /\ \A q : At(r, q) <=> q = <<"delete", "session">>
      BY <2>1, AtOne
    <3>2. RequestsOK' /\ Went(r) BY <1>12, <3>1, Proceeding DEF DeleteSession
    <3>3. Outcome(r) BY <3>1, <3>2, <1>u DEF Outcome, FindsRow, Sure, Tables
    <3>4. /\ UserAfter(r) /\ SessionsAfter(r) /\ RunningAfter(r) /\ MfaAfter(r) /\ TokensAfter(r)
          /\ failures' = failures
      BY <1>12, <1>r, <1>u, <2>1, <3>1 DEF DeleteSession, Accounts, UserAfter, SessionsAfter, RunningAfter, MfaAfter, Factors,
         TokensAfter, FlagAfter, PartAfter, Erasing, Registering, Tables
    <3> QED BY <3>2, <3>3, <3>4 DEF Makes
  <2>2. CASE At(r, <<"delete", "one">>) /\ sessions' = sessions \ {request[r].code} /\ ProceedsIf(r, request[r].code \in sessions)
    <3>1. ~Over(r) /\ Statement(r) = <<"delete", "one">> /\ \A q : At(r, q) <=> q = <<"delete", "one">>
      BY <2>2, AtOne
    <3>2. RequestsOK' /\ IF request[r].code \in sessions THEN Went(r) ELSE GaveUp(r)
      BY <2>2, <3>1, Proceeding, Refusing DEF ProceedsIf
    <3>3. Outcome(r) BY <3>1, <3>2, <1>u DEF Outcome, FindsRow, Sure, Tables
    <3>4. /\ UserAfter(r) /\ SessionsAfter(r) /\ RunningAfter(r) /\ MfaAfter(r) /\ TokensAfter(r)
          /\ failures' = failures
      BY <1>12, <1>r, <1>u, <2>2, <3>1 DEF DeleteSession, Accounts, UserAfter, SessionsAfter, RunningAfter, MfaAfter, Factors,
         TokensAfter, FlagAfter, PartAfter, Erasing, Registering, Tables
    <3> QED BY <3>2, <3>3, <3>4 DEF Makes
  <2> QED BY <1>12, <2>1, <2>2 DEF DeleteSession
<1>13. CASE DeleteSessions(r)
  <2>1. CASE At(r, <<"delete", "sessions">>) /\ sessions' = {}
    <3>1. ~Over(r) /\ Statement(r) = <<"delete", "sessions">> /\ \A q : At(r, q) <=> q = <<"delete", "sessions">>
      BY <2>1, AtOne
    <3>2. RequestsOK' /\ Went(r) BY <1>13, <3>1, Proceeding DEF DeleteSessions
    <3>3. Outcome(r) BY <3>1, <3>2, <1>u DEF Outcome, FindsRow, Sure, Tables
    <3>4. /\ UserAfter(r) /\ SessionsAfter(r) /\ RunningAfter(r) /\ MfaAfter(r) /\ TokensAfter(r)
          /\ failures' = failures
      BY <1>13, <1>r, <1>u, <2>1, <3>1 DEF DeleteSessions, Accounts, UserAfter, SessionsAfter, RunningAfter, MfaAfter, Factors,
         TokensAfter, FlagAfter, PartAfter, Erasing, Registering, Tables
    <3> QED BY <3>2, <3>3, <3>4 DEF Makes
  <2>2. CASE At(r, <<"delete", "others">>) /\ sessions' = sessions \cap {request[r].uses}
    <3>1. ~Over(r) /\ Statement(r) = <<"delete", "others">> /\ \A q : At(r, q) <=> q = <<"delete", "others">>
      BY <2>2, AtOne
    <3>2. RequestsOK' /\ Went(r) BY <1>13, <3>1, Proceeding DEF DeleteSessions
    <3>3. Outcome(r) BY <3>1, <3>2, <1>u DEF Outcome, FindsRow, Sure, Tables
    <3>4. /\ UserAfter(r) /\ SessionsAfter(r) /\ RunningAfter(r) /\ MfaAfter(r) /\ TokensAfter(r)
          /\ failures' = failures
      BY <1>13, <1>r, <1>u, <2>2, <3>1 DEF DeleteSessions, Accounts, UserAfter, SessionsAfter, RunningAfter, MfaAfter, Factors,
         TokensAfter, FlagAfter, PartAfter, Erasing, Registering, Tables
    <3> QED BY <3>2, <3>3, <3>4 DEF Makes
  <2> QED BY <1>13, <2>1, <2>2 DEF DeleteSessions
<1>14. ASSUME NEW t \in Tables, Clear(r, t) \/ InsertRow(r, t) \/ Consume(r, t)
      PROVE  RequestsOK' /\ Makes(r)
  <2>1. CASE Clear(r, t)
    <3>0. At(r, <<"clear", t>>) BY <2>1 DEF Clear
    <3>1. ~Over(r) /\ Statement(r) = <<"clear", t>> /\ \A q : At(r, q) <=> q = <<"clear", t>>
      BY <3>0, AtOne
    <3>2. RequestsOK' /\ Went(r) BY <2>1, <3>1, Proceeding DEF Clear
    <3>3. Outcome(r) BY <3>1, <3>2, <1>u DEF Outcome, FindsRow, Sure, Tables
    <3>4. /\ UserAfter(r) /\ SessionsAfter(r) /\ RunningAfter(r) /\ MfaAfter(r)
          /\ failures' = failures
      BY <1>u, <2>1, <3>1 DEF Clear, Accounts, UserAfter, SessionsAfter, RunningAfter, MfaAfter, Factors, FlagAfter, PartAfter, Erasing, Registering, Tables
    <3>5. TokensAfter(r) BY <1>r, <1>u, <2>1, <3>1 DEF Clear, TokensAfter
    <3> QED BY <3>2, <3>3, <3>4, <3>5 DEF Makes
  <2>2. CASE InsertRow(r, t)
    <3>0. At(r, <<"insert", t>>) BY <2>2 DEF InsertRow
    <3>1. ~Over(r) /\ Statement(r) = <<"insert", t>> /\ \A q : At(r, q) <=> q = <<"insert", t>>
      BY <3>0, AtOne
    <3>2. RequestsOK' /\ IF user.there \/ InsertIgnored(r, t) THEN Went(r) ELSE GaveUp(r)
      BY <2>2, <3>1, Proceeding, Refusing DEF InsertRow, ProceedsIf
    <3>3. Outcome(r) BY <3>1, <3>2, <1>u DEF Outcome, FindsRow, Sure, Tables
    <3>4. /\ UserAfter(r) /\ SessionsAfter(r) /\ RunningAfter(r) /\ MfaAfter(r)
          /\ failures' = failures
      BY <1>u, <2>2, <3>1 DEF InsertRow, Accounts, UserAfter, SessionsAfter, RunningAfter, MfaAfter, Factors, FlagAfter, PartAfter, Erasing, Registering, Tables
    <3>5. TokensAfter(r) BY <1>r, <1>u, <2>2, <3>1 DEF InsertRow, TokensAfter
    <3> QED BY <3>2, <3>3, <3>4, <3>5 DEF Makes
  <2>3. CASE Consume(r, t)
    <3>0. At(r, <<"consume", t>>) BY <2>3 DEF Consume
    <3>1. ~Over(r) /\ Statement(r) = <<"consume", t>> /\ \A q : At(r, q) <=> q = <<"consume", t>>
      BY <3>0, AtOne
    <3>2. RequestsOK' /\ IF request[r].uses \in tokens[t] THEN Went(r) ELSE GaveUp(r)
      BY <2>3, <3>1, Proceeding, Refusing DEF Consume, ProceedsIf
    <3>3. Outcome(r) BY <3>1, <3>2, <1>u DEF Outcome, FindsRow, Sure, Tables
    <3>4. /\ UserAfter(r) /\ SessionsAfter(r) /\ RunningAfter(r) /\ MfaAfter(r)
          /\ failures' = failures
      BY <1>u, <2>3, <3>1 DEF Consume, Accounts, UserAfter, SessionsAfter, RunningAfter, MfaAfter, Factors, FlagAfter, PartAfter, Erasing, Registering, Tables
    <3>5. TokensAfter(r) BY <1>r, <1>u, <2>3, <3>1 DEF Consume, TokensAfter
    <3> QED BY <3>2, <3>3, <3>4, <3>5 DEF Makes
  <2> QED BY <1>14, <2>1, <2>2, <2>3
<1>15. CASE IsMFAEnabled(r)
  <2>1. At(r, <<"enabled", "mfa">>) BY <1>15 DEF IsMFAEnabled
  <2>2. ~Over(r) /\ Statement(r) = <<"enabled", "mfa">> /\ \A q : At(r, q) <=> q = <<"enabled", "mfa">>
    BY <2>1, AtOne
  <2>5. RequestsOK' /\ IF mfa.enabled THEN Asks(r) ELSE IF ~request[r].enforced THEN Went(r) ELSE GaveUp(r)
    <3>1. CASE mfa.enabled
      <4>1. SecondFactor(r, TRUE) BY <1>15, <3>1, <1>u DEF IsMFAEnabled, SecondFactor
      <4> QED BY <2>1, <3>1, <4>1, Asking
    <3>2. CASE ~mfa.enabled
      <4>1. ProceedsIf(r, ~request[r].enforced) BY <1>15, <3>2 DEF IsMFAEnabled, SecondFactor
      <4> QED BY <2>2, <3>2, <4>1, ProceedingIf
    <3> QED BY <3>1, <3>2
  <2>6. Outcome(r) BY <2>2, <2>5, <1>u DEF Outcome, FindsRow, Sure, Tables
  <2>7. /\ UserAfter(r) /\ SessionsAfter(r) /\ RunningAfter(r) /\ MfaAfter(r) /\ TokensAfter(r)
        /\ failures' = failures
    BY <1>15, <1>u, <1>n, <2>2 DEF IsMFAEnabled, Accounts, UserAfter, SessionsAfter, RunningAfter, MfaAfter, Factors, TokensAfter,
         FlagAfter, PartAfter, Erasing, Registering, Tables
  <2> QED BY <2>5, <2>6, <2>7 DEF Makes
<1>16. CASE Select(r)
  <2>1. RequestsOK' /\ IF FoundBy(r) THEN Looked(r) ELSE GaveUp(r)
    BY <1>16, <1>u, Looking DEF Accounts
  <2>2. ~Over(r) /\ Statement(r) \in Reads BY <1>16 DEF Select
  <2>3. ASSUME Looked(r)
        PROVE  Went(r) /\ (At(r, <<"credentials", "user">>) => request'[r].enforced = user.enforced)
    <3>1. <<request[r].kind, Statement(r), Upcoming(r)'>> \in Following BY <2>3 DEF Looked
    <3>2. Upcoming(r)' # End BY <2>2, <3>1 DEF Following, Reads, Start, End
    <3>3. ~Over(r)' BY <3>2 DEF Upcoming
    <3> QED BY <1>u, <2>3, <3>1, <3>3 DEF Looked, Went, Accounts
  <2>4. ASSUME FoundBy(r)
        PROVE  FindsRow(r)
    <3>1. /\ \A q : At(r, q) <=> q = Statement(r)
          /\ Statement(r) \in Reads
      BY <2>2 DEF At
    <3>a. ASSUME At(r, <<"absent", "user">>)
         PROVE  ~user.there
      <4>1. \A q : At(r, q) <=> q = <<"absent", "user">> BY <3>a, AtOne
      <4>2. FoundBy(r) = (~user.there) BY <4>1 DEF FoundBy
      <4> QED BY <2>4, <4>2
    <3>b. ASSUME At(r, <<"credentials", "user">>)
         PROVE  user.there /\ ~user.suspended /\ user.password = request[r].typed
      <4>1. \A q : At(r, q) <=> q = <<"credentials", "user">> BY <3>b, AtOne
      <4>2. FoundBy(r) = (user.there /\ ~user.suspended /\ user.password = request[r].typed)
        BY <4>1 DEF FoundBy
      <4> QED BY <2>4, <4>2
    <3>c. ASSUME At(r, <<"authorize", "user">>)
         PROVE  user.there /\ ~user.suspended
      <4>1. \A q : At(r, q) <=> q = <<"authorize", "user">> BY <3>c, AtOne
      <4>2. FoundBy(r) = (user.there /\ ~user.suspended) BY <4>1 DEF FoundBy
      <4> QED BY <2>4, <4>2
    <3>d. ASSUME At(r, <<"code", "mfa">>)
         PROVE  mfa.secret = request[r].code
      <4>1. \A q : At(r, q) <=> q = <<"code", "mfa">> BY <3>d, AtOne
      <4>2. FoundBy(r) = (mfa.secret = request[r].code) BY <4>1 DEF FoundBy
      <4> QED BY <2>4, <4>2
    <3>5. /\ ~At(r, <<"enabled", "mfa">>) /\ ~At(r, <<"insert", "user">>) /\ ~At(r, <<"enable", "mfa">>)
          /\ Statement(r) \notin {<<"insert", "resources">>, <<"insert", "keys">>,
             <<"insert", "session">>, <<"set", "password">>, <<"delete", "user">>, <<"upsert", "mfa">>}
          /\ \A t \in Tables : ~At(r, <<"consume", t>>)
      BY <3>1 DEF Reads
    <3> QED BY <3>a, <3>b, <3>c, <3>d, <3>5 DEF FindsRow
  <2>5. Outcome(r)
    <3>1. Statement(r) \notin Sure /\ ~At(r, <<"enabled", "mfa">>) BY <2>2 DEF Reads, Sure, At
    <3>2. Statement(r) \notin {<<"delete", "user">>, <<"set", "password">>, <<"enable", "mfa">>}
      BY <2>2 DEF Reads
    <3> QED BY <2>1, <2>3, <2>4, <3>1, <3>2 DEF Outcome
  <2>6. /\ UserAfter(r) /\ SessionsAfter(r) /\ RunningAfter(r) /\ MfaAfter(r) /\ TokensAfter(r)
        /\ failures' = failures
    <3>1. UNCHANGED <<user, sessions, mfa, tokens, failures, running>> BY <1>16 DEF Select
    <3>0. /\ ~At(r, <<"insert", "user">>) /\ ~At(r, <<"delete", "user">>) /\ ~At(r, <<"set", "password">>)
          /\ ~At(r, <<"set", "suspended">>) /\ ~At(r, <<"clear", "suspended">>)
          /\ ~At(r, <<"set", "enforced">>) /\ ~At(r, <<"clear", "enforced">>)
          /\ ~At(r, <<"insert", "resources">>) /\ ~At(r, <<"insert", "keys">>)
          /\ ~At(r, <<"insert", "session">>) /\ ~At(r, <<"delete", "session">>) /\ ~At(r, <<"delete", "one">>)
          /\ ~At(r, <<"delete", "others">>) /\ ~At(r, <<"delete", "sessions">>)
          /\ ~At(r, <<"upsert", "mfa">>) /\ ~At(r, <<"delete", "mfa">>) /\ ~At(r, <<"enable", "mfa">>)
      BY <2>2 DEF At, Reads
    <3>2. SessionsAfter(r) /\ RunningAfter(r) /\ MfaAfter(r)
      BY <1>u, <3>0, <3>1 DEF SessionsAfter, RunningAfter, MfaAfter, Factors
    <3>4. UserAfter(r)
      BY <1>u, <3>0, <3>1 DEF Accounts, UserAfter, FlagAfter, PartAfter, Erasing, Registering
    <3>3. TokensAfter(r) BY <1>u, <2>2, <3>1 DEF TokensAfter, At, Reads
    <3> QED BY <3>1, <3>2, <3>3, <3>4
  <2> QED BY <2>1, <2>5, <2>6 DEF Makes
<1> QED
  BY <1>1, <1>2, <1>3, <1>4, <1>5, <1>6, <1>7, <1>8, <1>9, <1>10, <1>11, <1>12, <1>13, <1>14, <1>15, <1>16 DEF Acts

-----------------------------------------------------------------------------
(* A step, and what it keeps. *)

StepOf(r) == r \in Begun /\ ~Over(r) /\ Alone(r) /\ Moves(r)

LEMMA Stepping ==
    ASSUME AuthTypeOK, RequestsOK, AuthNext
    PROVE  /\ RequestsOK'
           /\ \/ ServiceStops /\ Stops
              \/ \E kind \in Kinds : ~Entering /\ Begin(kind) /\ \E n : Begins(n, kind)
              \/ \E r \in Begun : StepOf(r) /\ Makes(r)
              \/ \E r \in Begun : StepOf(r) /\ Misses(r)
<1>1. CASE ServiceStops BY <1>1, Stopping
<1>2. ASSUME NEW kind \in Kinds, Len(request) < MaxRequests, ~Entering, Begin(kind)
      PROVE  RequestsOK' /\ \E n : Begins(n, kind)
  BY <1>2, Beginning
<1>3. ASSUME NEW r \in Begun, ~Over(r), Moves(r), Acts(r)
      PROVE  RequestsOK' /\ StepOf(r) /\ Makes(r)
  <2>1. RequestsOK' /\ Makes(r) BY <1>3, Acting
  <2>2. Alone(r) BY <2>1 DEF Makes, Outcome, GaveUp, Asks, Went
  <2> QED BY <1>3, <2>1, <2>2 DEF StepOf
<1>4. ASSUME NEW r \in Begun, ~Over(r), Moves(r), Fails(r)
      PROVE  RequestsOK' /\ StepOf(r) /\ Misses(r)
  <2>1. RequestsOK' /\ Misses(r) BY <1>4, AuthServiceAssumption, Failing DEF AuthTypeOK
  <2>2. Alone(r) BY <2>1 DEF Misses, GaveUp, Skips, Went
  <2> QED BY <1>4, <2>1, <2>2 DEF StepOf
<1>5. \/ ServiceStops
      \/ \E kind \in Kinds : Len(request) < MaxRequests /\ ~Entering /\ Begin(kind)
      \/ \E r \in Begun : ~Over(r) /\ Moves(r) /\ (Acts(r) \/ Fails(r))
  <2>1. \A r \in Begun \ Ended : r \in Begun /\ ~Over(r) BY DEF Ended
  <2> QED BY <2>1 DEF AuthNext, Acts
<1> QED BY <1>1, <1>2, <1>3, <1>4, <1>5

\* What has ended stays as it is.
Keeps ==
    /\ Begun \subseteq Begun'
    /\ \A q \in Begun : /\ Fixed(q)
                        /\ Over(q) => Over(q)' /\ request'[q].ok = request[q].ok
                                      /\ request'[q].factor = request[q].factor

LEMMA BeginsKeeps ==
    ASSUME RequestsOK, NEW kind, NEW n, Begins(n, kind)
    PROVE  /\ Keeps
           /\ \A q \in Begun : \A s : At(q, s)' <=> At(q, s)
           /\ \A q \in Begun : /\ request'[q] = request[q] /\ (Over(q)' <=> Over(q))
                               /\ Statement(q)' = Statement(q)
           /\ \A kinds : Given(kinds)' = Given(kinds)
<1>1. \A q \in Begun : request'[q] = request[q] BY DEF Begins
<1>2. \A q \in Begun : (Over(q)' <=> Over(q)) /\ Statement(q)' = Statement(q)
  BY <1>1 DEF Over, Statement
<1>3. \A kinds : Given(kinds)' = Given(kinds) BY <1>1, <1>2 DEF Given, Ended, Begins
<1>4. Keeps BY <1>1, <1>2 DEF Keeps, Fixed, Begins
<1> QED BY <1>1, <1>2, <1>3, <1>4 DEF At

LEMMA StopsKeeps ==
    ASSUME RequestsOK, Stops
    PROVE  /\ Keeps
           /\ \A q \in Begun : /\ Fixed(q) /\ Over(q)' /\ request'[q].ok = request[q].ok
                               /\ request'[q].factor = request[q].factor
           /\ \A q \in Begun : \A s : ~At(q, s)'
           /\ \A kinds : Given(kinds)' = Given(kinds)
<1>1. \A q \in Begun : /\ Fixed(q) /\ Over(q)' /\ request'[q].ok = request[q].ok
                       /\ request'[q].factor = request[q].factor
  BY DEF Stops
<1>2. \A q \in Begun : request[q].ok => Over(q) BY DEF RequestsOK
<1>3. \A kinds : Given(kinds)' = Given(kinds) BY <1>1, <1>2 DEF Given, Ended, Stops, Fixed
<1> QED BY <1>1, <1>3 DEF Keeps, Stops, At

LEMMA AloneKeeps ==
    ASSUME RequestsOK, NEW r, StepOf(r)
    PROVE  /\ Keeps /\ Begun' = Begun /\ Fixed(r)
           /\ \A q \in Begun : q # r => /\ request'[q] = request[q] /\ (Over(q)' <=> Over(q))
                                        /\ Statement(q)' = Statement(q)
           /\ \A q \in Begun : \A s : q # r => (At(q, s)' <=> At(q, s))
           /\ \A kinds : /\ Given(kinds) \subseteq Given(kinds)'
                         /\ Given(kinds)' \subseteq Given(kinds) \cup {r}
                         /\ r \in Given(kinds)' <=> request[r].kind \in kinds /\ Over(r)' /\ request'[r].ok
<1>1. /\ r \in Begun /\ ~Over(r) /\ Len(request') = Len(request)
      /\ \A q \in Begun : q # r => request'[q] = request[q]
      /\ Fixed(r)
  BY DEF StepOf, Alone
<1>2. Begun' = Begun BY <1>1 DEF Begun
<1>3. \A q \in Begun : q # r => (Over(q)' <=> Over(q)) /\ Statement(q)' = Statement(q)
  BY <1>1 DEF Over, Statement
<1>4. \A q \in Begun : Fixed(q) BY <1>1 DEF Fixed
<1>5. \A q \in Begun : request[q].ok => Over(q) BY DEF RequestsOK
<1>6. ASSUME NEW kinds
      PROVE  /\ Given(kinds) \subseteq Given(kinds)' /\ Given(kinds)' \subseteq Given(kinds) \cup {r}
             /\ r \in Given(kinds)' <=> request[r].kind \in kinds /\ Over(r)' /\ request'[r].ok
  <2>1. r \notin Given(kinds) BY <1>1 DEF Given, Ended
  <2> QED BY <1>1, <1>2, <1>3, <1>4, <2>1 DEF Given, Ended, Fixed
<1>7. Keeps BY <1>1, <1>2, <1>3, <1>4 DEF Keeps
<1> QED BY <1>1, <1>2, <1>3, <1>6, <1>7 DEF At

\* What a request carries does not mention one that is under way.
LEMMA NotYet ==
    ASSUME RequestsOK, NEW r \in Begun, ~Over(r), NEW q \in Begun
    PROVE  /\ r \notin request[q].past /\ request[q].uses # r /\ request[q].code # r
           /\ request[q].past \subseteq Begun /\ q \notin request[q].past /\ r # 0
           /\ \A p \in request[q].past : Over(p)
<1>1. request[q].past \cup ({request[q].uses, request[q].code} \ {0}) \subseteq {p \in 1..(q - 1) : Over(p)}
  BY DEF RequestsOK
<1>2. r # 0 /\ q \in Nat /\ Len(request) \in Nat BY RequestTypes DEF Begun
<1>3. \A p \in 1..(q - 1) : p \in Begun /\ p # q BY <1>2 DEF Begun
<1> QED BY <1>1, <1>2, <1>3

LEMMA PastFixed ==
    ASSUME RequestsOK, Keeps, NEW q \in Begun, NEW kinds
    PROVE  Given(kinds)' \cap request[q].past = Given(kinds) \cap request[q].past
<1>1. \A p \in request[q].past : p \in Begun /\ Over(p)
  <2>1. request[q].past \subseteq {p \in 1..(q - 1) : Over(p)} BY DEF RequestsOK
  <2>2. \A p \in 1..(q - 1) : p \in Begun BY RequestTypes DEF Begun
  <2> QED BY <2>1, <2>2
<1> QED BY <1>1 DEF Keeps, Given, Ended, Fixed

-----------------------------------------------------------------------------
(* The types. *)

\* What AuthTypeOK says of the rows, and of the requests.
RowTypes ==
    /\ user \in Accounts /\ sessions \subseteq Numbers /\ mfa \in Factors
    /\ mfa.enabled => mfa.secret # NoSecret
    /\ tokens \in [Tables -> SUBSET Numbers]
    /\ ~user.there => sessions = {} /\ mfa.secret = NoSecret /\ \A t \in Tables : tokens[t] = {}
    /\ failures \in 0..MaxFailures /\ running \subseteq Begun

LEMMA RequestPart ==
    ASSUME RequestsOK', RowTypes'
    PROVE  AuthTypeOK'
<1>1. request' \in Seq(RequestRecords) BY DEF RequestsOK
<1>2. ASSUME NEW r \in Begun'
      PROVE  request'[r] \in RequestRecords
  BY <1>1, <1>2 DEF Begun
<1>3. \A r \in Begun' : /\ request'[r].ok => Over(r)'
                        /\ request'[r].past \subseteq 1..(r - 1)
  BY DEF RequestsOK
<1>4. \A r \in Begun' : request'[r].kind \in Kinds BY <1>2 DEF RequestRecords
<1> QED BY <1>3, <1>4 DEF AuthTypeOK, RowTypes

LEMMA TypesStep ==
    ASSUME AuthTypeOK, RequestsOK, MadeBegun, AuthNext
    PROVE  AuthTypeOK' /\ RequestsOK' /\ MadeBegun'
<1>1. RequestsOK' BY Stepping
<1>t. RowTypes BY DEF AuthTypeOK, RowTypes
<1>2. ASSUME UNCHANGED <<user, sessions, mfa, tokens, running>>, Begun \subseteq Begun',
             failures' \in 0..MaxFailures
      PROVE  RowTypes' /\ MadeBegun'
  BY <1>t, <1>2 DEF RowTypes, MadeBegun
<1>3. CASE ServiceStops /\ Stops
  <2>1. /\ UNCHANGED <<user, sessions, mfa, tokens, running>>
        /\ failures' \in 0..MaxFailures
    BY <1>3, <1>t, AuthServiceAssumption DEF ServiceStops, RowTypes
  <2> QED BY <1>1, <1>2, <1>3, <2>1, StopsKeeps, RequestPart DEF Keeps
<1>4. ASSUME NEW kind \in Kinds, Begin(kind), NEW n, Begins(n, kind)
      PROVE  AuthTypeOK' /\ MadeBegun'
  <2>1. UNCHANGED <<user, sessions, mfa, tokens, running>> /\ failures' = failures BY <1>4 DEF Begin
  <2> QED BY <1>1, <1>2, <1>4, <1>t, <2>1, BeginsKeeps, RequestPart DEF Keeps, RowTypes
<1>5. ASSUME NEW r \in Begun, StepOf(r), Misses(r)
      PROVE  AuthTypeOK' /\ MadeBegun'
  <2>1. UNCHANGED <<user, sessions, mfa, tokens, running>> /\ failures' \in 0..MaxFailures
    BY <1>5, AuthServiceAssumption DEF Misses
  <2> QED BY <1>1, <1>2, <1>5, <2>1, AloneKeeps, RequestPart DEF Keeps
<1>6. ASSUME NEW r \in Begun, StepOf(r), Makes(r)
      PROVE  AuthTypeOK' /\ MadeBegun'
  <2>1. Begun' = Begun /\ r \in Numbers /\ ~Over(r) BY <1>6, AloneKeeps, RequestTypes DEF StepOf
  <2>e. /\ UserAfter(r) /\ SessionsAfter(r) /\ RunningAfter(r) /\ MfaAfter(r) /\ TokensAfter(r)
        /\ failures' = failures
    BY <1>6 DEF Makes
  <2>d. /\ \A q, s : At(r, q) /\ At(r, s) => q = s
        /\ At(r, <<"insert", "user">>) => ~At(r, <<"insert", "session">>) /\ ~At(r, <<"upsert", "mfa">>)
    BY DEF At
  <2>2. /\ sessions' \subseteq sessions \cup {r} /\ running' \subseteq Begun
        /\ user.there \/ sessions' \subseteq sessions
        /\ At(r, <<"delete", "user">>) => sessions' = {}
    BY <1>t, <2>d, <2>e DEF SessionsAfter, RunningAfter, RowTypes, At
  <2>3. /\ mfa' \in Factors /\ mfa'.secret \in {r, NoSecret, mfa.secret}
        /\ mfa'.enabled => mfa'.secret # NoSecret
        /\ user.there \/ mfa'.secret \in {mfa.secret, NoSecret}
        /\ At(r, <<"delete", "user">>) => mfa'.secret = NoSecret
    <3>1. /\ At(r, <<"upsert", "mfa">>) => ~At(r, <<"delete", "user">>)
          /\ r # NoSecret
      BY <2>1, AuthServiceAssumption DEF At, Numbers
    <3>2. mfa.enabled \in BOOLEAN /\ (mfa.enabled => mfa.secret # NoSecret)
      BY <1>t DEF RowTypes, Factors
    <3> QED BY <2>e, <3>1, <3>2 DEF MfaAfter
  <2>4. /\ tokens' \in [Tables -> SUBSET Numbers]
        /\ \A t \in Tables : /\ tokens'[t] \subseteq tokens[t] \cup {r}
                             /\ user.there \/ tokens'[t] \subseteq tokens[t]
                             /\ At(r, <<"delete", "user">>) => tokens'[t] = {}
    BY <2>d, <2>e DEF TokensAfter, At
  <2>5. user' \in Accounts /\ (~user'.there => ~user.there \/ At(r, <<"delete", "user">>))
    BY <2>d, <2>e, <1>t DEF UserAfter, RowTypes, Accounts
  <2>6. ~user'.there => sessions' = {} /\ mfa'.secret = NoSecret /\ \A t \in Tables : tokens'[t] = {}
    BY <1>t, <2>2, <2>3, <2>4, <2>5 DEF RowTypes
  <2>7. RowTypes' BY <1>t, <2>1, <2>2, <2>3, <2>4, <2>5, <2>6, <2>e DEF RowTypes
  <2>8. MadeBegun' BY <2>1, <2>2, <2>3, <2>4 DEF MadeBegun
  <2> QED BY <1>1, <2>7, <2>8, RequestPart
<1> QED BY <1>1, <1>3, <1>4, <1>5, <1>6, Stepping, RequestPart

-----------------------------------------------------------------------------
(* The account is made once, as a whole. *)

LEMMA RegisterOrder ==
    ASSUME NEW k, NEW s, NEW n, <<k, s, n>> \in Following
    PROVE  /\ s = <<"insert", "user">> => k = "register"
           /\ s = <<"delete", "user">> => k = "deleteAccount" /\ n = End
           /\ k = "deleteAccount" /\ n = End => s = <<"delete", "user">>
           /\ k = "register" /\ s = Start => n = <<"absent", "user">>
           /\ k = "register" /\ s \in Inserting /\ n \notin Inserting => s = <<"insert", "user">>
           /\ k = "register" /\ s \in Provisioning("resources") /\ n \notin Provisioning("resources")
                => s = <<"insert", "resources">>
           /\ k = "register" /\ s \in Provisioning("keys") /\ n \notin Provisioning("keys")
                => s = <<"insert", "keys">>
  BY DEF Following, Start, End, Inserting, Provisioning

\* A registration gets past its inserts by making them.
LEMMA RegistersStep ==
    ASSUME RequestsOK, NEW r \in Begun, StepOf(r), Makes(r) \/ Misses(r), NEW x \in Begun, NEW what,
           NEW S, \/ S = Inserting /\ what = "user"
                  \/ S = Provisioning(what) /\ what \in {"resources", "keys"},
           Registers(x, S)', ~Registers(x, S)
    PROVE  /\ x = r /\ At(r, <<"insert", what>>) /\ request[r].kind = "register"
           /\ Makes(r) /\ ~Misses(r) /\ FindsRow(r)
<1>1. x = r /\ request[r].kind = "register" /\ Begun' = Begun
  <2>1. /\ \A q \in Begun : q # r => /\ request'[q] = request[q] /\ (Over(q)' <=> Over(q))
                                     /\ Statement(q)' = Statement(q)
        /\ Fixed(r) /\ Begun' = Begun
    BY AloneKeeps
  <2> QED BY <2>1 DEF Registers, Beyond, Fixed
<1>2. ~Over(r) /\ Statement(r) \in S BY <1>1 DEF StepOf, Registers, Beyond
<1>3. request'[r].ok \/ (~Over(r)' /\ Statement(r)' \notin S) BY <1>1 DEF Registers, Beyond
<1>4. <<"clear", "verification">> \notin S /\ <<"clear", "reset">> \notin S /\ <<"enabled", "mfa">> \notin S
      /\ End \notin S /\ S \cap Excused = {}
  BY DEF Inserting, Provisioning, Excused, End
<1>5. ~GaveUp(r) BY <1>3 DEF GaveUp
<1>6. ~Skips(r) /\ ~Asks(r) BY <1>2, <1>4 DEF Skips, Asks, At
<1>7. ~Misses(r) BY <1>2, <1>4, <1>5, <1>6 DEF Misses
<1>8. Makes(r) /\ FindsRow(r) /\ Went(r) BY <1>5, <1>6, <1>7 DEF Makes, Outcome
<1>9. Upcoming(r)' \notin S BY <1>3, <1>4, <1>8 DEF Upcoming, Went
<1>10. <<"register", Statement(r), Upcoming(r)'>> \in Following BY <1>1, <1>8 DEF Went
<1>11. Statement(r) = <<"insert", what>> BY <1>2, <1>9, <1>10, RegisterOrder
<1> QED BY <1>1, <1>2, <1>7, <1>8, <1>11 DEF At

\* What is about a statement is about its handler.
LEMMA KindOf ==
    ASSUME RequestsOK, NEW r \in Begun, ~Over(r)
    PROVE  \E n : <<request[r].kind, Statement(r), n>> \in Following
<1>1. PICK i \in 1..Len(Script(r)) : Statement(r) = Script(r)[i] BY Position
<1>2. <<request[r].kind, Statement(r),
        IF Rest(Script(r), i + 1) = <<>> THEN End ELSE Head(Rest(Script(r), i + 1))>> \in Following
  BY <1>1, OnTheCourse
<1> QED BY <1>2

\* Nobody but registrations that made nothing have begun when an account is inserted.
LEMMA Fresh ==
    ASSUME RequestsOK, AccountOK, NEW r \in Begun, At(r, <<"insert", "user">>), ~user.there
    PROVE  /\ ~Existed
           /\ \A x \in Begun : request[x].kind = "register" /\ ~Registers(x, Inserting)
<1>1. ~Over(r) /\ request[r].kind = "register" BY KindOf, RegisterOrder DEF At
<1>2. Given({"deleteAccount"}) = {} BY <1>1 DEF AccountOK, Given, Ended
<1>3. ~Existed BY <1>2 DEF Existed
<1> QED BY <1>3 DEF AccountOK

LEMMA EndIsOver ==
    ASSUME RequestsOK', NEW r \in Begun', Upcoming(r)' = End
    PROVE  Over(r)'
<1>1. request'[r] \in RequestRecords BY DEF RequestsOK, Begun
<1>2. request'[r].todo = <<>> \/ Head(request'[r].todo) \in Statements BY <1>1 DEF RequestRecords
<1> QED BY <1>2 DEF Upcoming, Over, Statement, Statements, Verbs, End

\* The last statement of a request hands out what it made.
LEMMA Finished ==
    ASSUME RequestsOK, RequestsOK', NEW r \in Begun, StepOf(r), Went(r), NEW kinds
    PROVE  r \in Given(kinds)' <=> request[r].kind \in kinds /\ Upcoming(r)' = End
<1>1. Over(r)' <=> Upcoming(r)' = End BY AloneKeeps, EndIsOver DEF Upcoming
<1> QED BY <1>1, AloneKeeps DEF Went

LEMMA GivenStep ==
    ASSUME RequestsOK, RequestsOK', NEW r \in Begun, StepOf(r), Makes(r) \/ Misses(r),
           NEW kinds, "forgot" \notin kinds, r \in Given(kinds)'
    PROVE  /\ request[r].kind \in kinds /\ Went(r) /\ Upcoming(r)' = End
           /\ <<request[r].kind, Statement(r), End>> \in Following
           /\ Misses(r) => Statement(r) \in Excused
           /\ Makes(r) => FindsRow(r)
<1>1. request[r].kind \in kinds /\ Over(r)' /\ request'[r].ok BY AloneKeeps
<1>2. ~GaveUp(r) /\ ~Asks(r) /\ ~Skips(r) BY <1>1 DEF GaveUp, Asks, Skips
<1>3. Went(r) BY <1>2 DEF Makes, Misses, Outcome
<1> QED BY <1>1, <1>2, <1>3, Finished DEF Makes, Misses, Outcome, Went

LEMMA ExistedStep ==
    ASSUME RequestsOK, RequestsOK', NEW r \in Begun, StepOf(r), Makes(r), Existed
    PROVE  Existed'
<1>1. Given({"deleteAccount"}) \subseteq Given({"deleteAccount"})' BY AloneKeeps
<1>2. CASE At(r, <<"delete", "user">>) /\ user.there
  <2>1. Went(r) BY <1>2 DEF Makes, Outcome, At
  <2>2. request[r].kind = "deleteAccount" /\ Upcoming(r)' = End
    BY <1>2, <2>1, RegisterOrder DEF Went, At
  <2> QED BY <2>1, <2>2, Finished DEF Existed
<1>3. CASE ~(At(r, <<"delete", "user">>) /\ user.there)
  <2>1. user.there => user'.there BY <1>3 DEF Makes, UserAfter
  <2> QED BY <1>1, <2>1 DEF Existed
<1> QED BY <1>2, <1>3

LEMMA AccountStep ==
    ASSUME AuthTypeOK, RequestsOK, RequestsOK', AccountOK, AuthNext
    PROVE  AccountOK'
<1> DEFINE Sets == {Inserting, Provisioning("resources"), Provisioning("keys")}
           A1 == Given({"deleteAccount"}) # {} => ~user.there
           A2 == \A r \in Begun : request[r].kind # "register" \/ Registers(r, Inserting) => Existed
           A3 == \A r, q \in Begun : Registers(r, Inserting) /\ Registers(q, Inserting) => r = q
           A4 == \A r, d \in Begun : request[r].kind = "register" /\ request[d].kind = "deleteAccount" =>
                    Over(r) \/ (user.there /\ r = Len(request) /\ Entering)
           A5 == user.there => \A r \in Begun, what \in {"resources", "keys"} :
                    Registers(r, Provisioning(what)) => user[what]
<1>0. A1 /\ A2 /\ A3 /\ A4 /\ A5 BY DEF AccountOK
<1>g. A1' /\ A2' /\ A3' /\ A4' /\ A5' => AccountOK' BY DEF AccountOK
<1>1. CASE ServiceStops /\ Stops
  <2>1. /\ user' = user /\ Begun' = Begun /\ \A kinds : Given(kinds)' = Given(kinds)
        /\ \A q \in Begun : Over(q)' /\ request'[q].kind = request[q].kind
                            /\ request'[q].ok = request[q].ok
    BY <1>1, StopsKeeps DEF ServiceStops, Stops, Fixed
  <2>2. \A q \in Begun : \A S : Registers(q, S)' => Registers(q, S) BY <2>1 DEF Registers, Beyond
  <2>3. A1' /\ A2' /\ A4' /\ Existed' = Existed BY <1>0, <2>1, <2>2 DEF Existed
  <2>4. A3' /\ A5' BY <1>0, <2>1, <2>2
  <2> QED BY <1>g, <2>3, <2>4
<1>2. ASSUME NEW kind \in Kinds, ~Entering, Begin(kind), NEW n, Begins(n, kind)
      PROVE  AccountOK'
  <2>1. /\ user' = user /\ Begun' = Begun \cup {n} /\ n \notin Begun
        /\ \A kinds : Given(kinds)' = Given(kinds)
        /\ \A q \in Begun : /\ request'[q] = request[q] /\ (Over(q)' <=> Over(q))
                            /\ Statement(q)' = Statement(q)
    BY <1>2, BeginsKeeps DEF Begin, Begins
  <2>2. \A q \in Begun : \A S : Registers(q, S)' <=> Registers(q, S) BY <2>1 DEF Registers, Beyond
  <2>3. kind = "register" => Upcoming(n)' = <<"absent", "user">> BY <1>2, RegisterOrder DEF Begins
  <2>4. \A S \in Sets : ~Registers(n, S)'
    <3>1. /\ request'[n].kind = kind /\ ~request'[n].ok /\ ~Over(n)'
          /\ \A S \in Sets : <<"absent", "user">> \in S
      BY <1>2 DEF Begins, Inserting, Provisioning
    <3> QED BY <2>3, <3>1 DEF Registers, Beyond, Upcoming
  <2>5. user.there \/ (kind = "register" /\ Given({"deleteAccount"}) = {})
    BY <1>2 DEF Begin, Applicable
  <2>6. kind = "deleteAccount" => \A r \in Begun : Over(r) \/ request[r].kind # "register"
    BY <1>2 DEF Begin, Applicable
  <2>7. A1' /\ A3' /\ A5' /\ (Existed' <=> Existed) BY <1>0, <2>1, <2>2, <2>4 DEF Existed
  <2>8. A2'
    <3>1. \A r \in Begun : request'[r].kind # "register" \/ Registers(r, Inserting)' => Existed'
      BY <1>0, <2>1, <2>2, <2>7
    <3>2. request'[n].kind # "register" => Existed' BY <1>2, <2>5, <2>7 DEF Begins, Existed
    <3> QED BY <2>1, <2>4, <3>1, <3>2
  <2>9. A4'
    <3>1. SUFFICES ASSUME NEW r \in Begun', NEW d \in Begun',
                          request'[r].kind = "register", request'[d].kind = "deleteAccount"
                   PROVE  Over(r)' \/ (user'.there /\ r = Len(request') /\ Entering')
      OBVIOUS
    <3>2. CASE r \in Begun /\ d \in Begun BY <1>0, <1>2, <2>1, <3>1, <3>2
    <3>3. CASE r \in Begun /\ d = n BY <1>2, <2>1, <2>6, <3>1, <3>3 DEF Begins
    <3>4. CASE r = n /\ d \in Begun
      <4>1. kind = "register" /\ request[d].kind = "deleteAccount"
        BY <1>2, <2>1, <3>1, <3>4 DEF Begins
      <4>2. user.there BY <1>0, <2>5, <4>1, <3>4 DEF Existed
      <4>3. Len(request') = n /\ n > 0 BY <1>2, RequestTypes DEF Begins, Begun, RequestsOK
      <4>4. Entering' BY <1>2, <4>3 DEF Entering, Begins
      <4> QED BY <2>1, <3>4, <4>2, <4>3, <4>4
    <3>5. CASE r = n /\ d = n BY <3>1, <3>5
    <3> QED BY <2>1, <3>2, <3>3, <3>4, <3>5
  <2> QED BY <1>g, <2>7, <2>8, <2>9
<1>3. ASSUME NEW r \in Begun, StepOf(r), Makes(r) \/ Misses(r)
      PROVE  A4'
  <2>1. /\ \A q \in Begun : q # r => request'[q] = request[q] /\ (Over(q)' <=> Over(q))
        /\ Begun' = Begun /\ Keeps /\ Len(request') = Len(request) /\ ~Over(r)
    BY <1>3, AloneKeeps DEF StepOf, Alone
  <2>2. SUFFICES ASSUME NEW x \in Begun, NEW d \in Begun,
                        request[x].kind = "register", request[d].kind = "deleteAccount"
                 PROVE  Over(x)'
    BY <2>1 DEF Keeps, Fixed
  <2>3. CASE Over(x) BY <2>1, <2>3 DEF Keeps
  <2>4. CASE ~Over(x)
    <3>1. user.there /\ x = r /\ r = Len(request) /\ Entering
      BY <1>0, <1>3, <2>2, <2>4 DEF StepOf, Moves
    <3>2. At(r, <<"absent", "user">>)
      <4>1. request[r].todo = Program["register"] BY <2>2, <3>1 DEF Entering
      <4>2. Statement(r) = handleRegister[1] BY <4>1, KindsAre, LongScripts DEF Statement
      <4> QED BY <2>1, <4>2, LongScripts DEF At
    <3>3. GaveUp(r)
      <4>1. ~FindsRow(r) BY <3>1, <3>2 DEF FindsRow
      <4>2. Statement(r) \notin Excused /\ ~Skips(r) BY <3>2 DEF At, Excused, Skips
      <4> QED BY <1>3, <4>1, <4>2 DEF Makes, Misses, Outcome
    <3> QED BY <3>1, <3>3 DEF GaveUp
  <2> QED BY <2>3, <2>4
<1>4. ASSUME NEW r \in Begun, StepOf(r), Misses(r)
      PROVE  AccountOK'
  <2>1. user' = user /\ Begun' = Begun /\ Keeps BY <1>4, AloneKeeps DEF Misses
  <2>2. \A x \in Begun, what \in {"resources", "keys"} :
           /\ Registers(x, Provisioning(what))' => Registers(x, Provisioning(what))
           /\ Registers(x, Inserting)' => Registers(x, Inserting)
    BY <1>4, RegistersStep
  <2>3. r \notin Given({"deleteAccount"})'
    <3>1. ASSUME r \in Given({"deleteAccount"})'
          PROVE  FALSE
      <4>0. "forgot" \notin {"deleteAccount"} OBVIOUS
      <4>1. Statement(r) \in Excused /\ <<"deleteAccount", Statement(r), End>> \in Following
        BY <1>4, <3>1, <4>0, GivenStep
      <4> QED BY <4>1, RegisterOrder DEF Excused
    <3> QED BY <3>1
  <2>4. Given({"deleteAccount"})' = Given({"deleteAccount"}) BY <1>4, <2>3, AloneKeeps
  <2>5. (Existed' <=> Existed) /\ A1' BY <1>0, <2>1, <2>4 DEF Existed
  <2>6. A2' BY <1>0, <2>1, <2>2, <2>5 DEF Keeps, Fixed
  <2>7. A3' /\ A5' BY <1>0, <2>1, <2>2
  <2> QED BY <1>3, <1>4, <1>g, <2>5, <2>6, <2>7
<1>5. ASSUME NEW r \in Begun, StepOf(r), Makes(r)
      PROVE  AccountOK'
  <2>1. Begun' = Begun /\ Keeps /\ ~Over(r) /\ UserAfter(r) BY <1>5, AloneKeeps DEF Makes, StepOf
  <2>n. ASSUME NEW x \in Begun, NEW S, NEW what, Registers(x, S)', ~Registers(x, S),
               \/ S = Inserting /\ what = "user"
               \/ S = Provisioning(what) /\ what \in {"resources", "keys"}
        PROVE  /\ x = r /\ At(r, <<"insert", what>>) /\ FindsRow(r)
    BY <1>5, <2>n, RegistersStep
  <2>2. Existed => Existed' BY <1>5, ExistedStep
  <2>3. At(r, <<"insert", "user">>) => user'.there BY <2>1 DEF UserAfter
  <2>4. ASSUME ~user.there, user'.there
        PROVE  At(r, <<"insert", "user">>)
    BY <2>1, <2>4 DEF UserAfter
  <2>5. A1'
    <3>1. CASE r \in Given({"deleteAccount"})'
      <4>0. "forgot" \notin {"deleteAccount"} OBVIOUS
      <4>1. <<"deleteAccount", Statement(r), End>> \in Following BY <1>5, <3>1, <4>0, GivenStep
      <4>2. At(r, <<"delete", "user">>) BY <2>1, <4>1, RegisterOrder DEF At
      <4>3. ~user'.there BY <2>1, <4>2 DEF UserAfter, At
      <4> QED BY <4>3
    <3>2. CASE r \notin Given({"deleteAccount"})'
      <4>0. /\ Given({"deleteAccount"}) \subseteq Given({"deleteAccount"})'
            /\ Given({"deleteAccount"})' \subseteq Given({"deleteAccount"}) \cup {r}
        BY <1>5, AloneKeeps
      <4>1. Given({"deleteAccount"})' = Given({"deleteAccount"}) BY <3>2, <4>0
      <4>2. ASSUME ~user.there, user'.there
            PROVE  Given({"deleteAccount"}) = {}
        BY <2>4, <4>2, Fresh DEF Existed
      <4> QED BY <1>0, <4>1, <4>2
    <3> QED BY <3>1, <3>2
  <2>6. A2'
    <3>1. SUFFICES ASSUME NEW x \in Begun, request[x].kind # "register" \/ Registers(x, Inserting)'
                   PROVE  Existed'
      BY <2>1 DEF Keeps, Fixed
    <3>2. CASE request[x].kind # "register" \/ Registers(x, Inserting) BY <1>0, <2>2, <3>2
    <3>3. CASE ~Registers(x, Inserting) /\ Registers(x, Inserting)'
      <4>1. At(r, <<"insert", "user">>) BY <2>n, <3>3
      <4> QED BY <2>3, <4>1 DEF Existed
    <3> QED BY <3>1, <3>2, <3>3
  <2>7. A3'
    <3>1. SUFFICES ASSUME NEW x \in Begun, NEW q \in Begun,
                          Registers(x, Inserting)', Registers(q, Inserting)', x # q
                   PROVE  FALSE
      BY <2>1
    <3>2. PICK z \in {x, q} : ~Registers(z, Inserting) BY <1>0, <3>1
    <3>3. z = r /\ At(r, <<"insert", "user">>) /\ FindsRow(r) BY <2>n, <3>1, <3>2
    <3>4. PICK y \in {x, q} : y # r BY <3>1
    <3>5. Registers(y, Inserting) BY <2>n, <3>1, <3>4
    <3> QED BY <3>1, <3>3, <3>5, Fresh DEF FindsRow
  <2>8. A5'
    <3>1. SUFFICES ASSUME user'.there, NEW x \in Begun, NEW what \in {"resources", "keys"},
                          Registers(x, Provisioning(what))'
                   PROVE  user'[what]
      BY <2>1
    <3>2. CASE ~user.there
      <4>1. At(r, <<"insert", "user">>) BY <2>4, <3>1, <3>2
      <4>2. ~Registers(x, Provisioning(what))
        <5>1. ~Registers(x, Inserting) BY <3>2, <4>1, Fresh
        <5> QED BY <5>1 DEF Registers, Beyond, Provisioning
      <4>3. At(r, <<"insert", what>>) BY <2>n, <3>1, <4>2
      <4> QED BY <4>1, <4>3 DEF At
    <3>3. CASE user.there
      <4>0. At(r, <<"delete", "user">>) => ~At(r, <<"insert", "user">>) BY DEF At
      <4>1. ~At(r, <<"delete", "user">>) /\ ~Registering(r)
        BY <2>1, <3>1, <3>3, <4>0 DEF UserAfter, Registering
      <4>2. user[what] \/ At(r, <<"insert", what>>) BY <1>0, <2>n, <3>1, <3>3
      <4>3. CASE what = "resources"
        BY <2>1, <3>3, <4>1, <4>2, <4>3 DEF UserAfter, PartAfter, Erasing
      <4>4. CASE what = "keys" BY <2>1, <3>3, <4>1, <4>2, <4>4 DEF UserAfter, PartAfter, Erasing
      <4> QED BY <4>3, <4>4
    <3> QED BY <3>2, <3>3
  <2> QED BY <1>3, <1>5, <1>g, <2>5, <2>6, <2>7, <2>8
<1> QED BY <1>1, <1>2, <1>4, <1>5, Stepping

-----------------------------------------------------------------------------
(* A token is consumed once. *)

LEMMA ConsumeOrder ==
    ASSUME NEW k \in DOMAIN Consuming, NEW s, NEW n, <<k, s, n>> \in Following
    PROVE  /\ s = Start => n = <<"consume", Consuming[k]>>
           /\ Consuming[k] \in Tables /\ k # "login" /\ k # "register" /\ k # "forgot"
  BY DEF Following, Start, Consuming, Tables

\* Requests that did not move consume nothing.
LEMMA SameConsumed ==
    ASSUME NEW q \in Begun, q \in Begun', request'[q] = request[q]
    PROVE  Consumed(q)' <=> Consumed(q)
  BY DEF Consumed, Beyond, Over, Statement

LEMMA TokensStep ==
    ASSUME AuthTypeOK, RequestsOK, RequestsOK', MadeBegun, TokensOK, AuthNext
    PROVE  TokensOK'
<1>1. CASE ServiceStops /\ Stops
  <2>1. /\ tokens' = tokens /\ Begun' = Begun
        /\ \A q \in Begun : Over(q)' /\ Fixed(q) /\ request'[q].ok = request[q].ok
    BY <1>1 DEF ServiceStops, Stops
  <2>2. \A q \in Begun : Consumed(q)' => Consumed(q) BY <2>1 DEF Consumed, Beyond, Fixed
  <2> QED BY <2>1, <2>2 DEF TokensOK, Fixed
<1>2. ASSUME NEW kind \in Kinds, Begin(kind), NEW n, Begins(n, kind)
      PROVE  TokensOK'
  <2>1. /\ tokens' = tokens /\ Begun' = Begun \cup {n} /\ n \notin Begun
        /\ \A q \in Begun : request'[q] = request[q]
        /\ request'[n].kind = kind /\ ~request'[n].ok /\ ~Over(n)'
        /\ <<kind, Start, Upcoming(n)'>> \in Following
    BY <1>2 DEF Begin, Begins
  <2>2. \A q \in Begun : Consumed(q)' <=> Consumed(q) BY <2>1, SameConsumed
  <2>3. ~Consumed(n)'
    <3>1. kind \in DOMAIN Consuming => Upcoming(n)' = <<"consume", Consuming[kind]>>
      BY <2>1, ConsumeOrder
    <3> QED BY <2>1, <3>1 DEF Consumed, Beyond, Upcoming
  <2> QED BY <2>1, <2>2, <2>3 DEF TokensOK
<1>3. ASSUME NEW r \in Begun, StepOf(r), Makes(r) \/ Misses(r)
      PROVE  TokensOK'
  <2>1. /\ Begun' = Begun /\ Keeps /\ ~Over(r) /\ Fixed(r)
        /\ \A q \in Begun : q # r => request'[q] = request[q]
    BY <1>3, AloneKeeps DEF StepOf
  <2>2. \A q \in Begun : q # r => (Consumed(q)' <=> Consumed(q)) BY <2>1, SameConsumed
  <2>3. \A t \in Tables : tokens'[t] \subseteq tokens[t] \cup {r}
    BY <1>3 DEF Makes, Misses, TokensAfter, AuthTypeOK
  <2>4. \A q \in Begun : request'[q].uses = request[q].uses /\ request'[q].kind = request[q].kind
                         /\ request[q].uses # r
    BY <1>3, <2>1, NotYet DEF Keeps, Fixed
  <2>5. ASSUME NEW q \in Begun, Consumed(q)
        PROVE  request[q].uses \notin tokens'[Consuming[request[q].kind]]
    <3>1. request[q].uses \notin tokens[Consuming[request[q].kind]] BY <2>5 DEF TokensOK
    <3>2. Consuming[request[q].kind] \in Tables BY <2>5 DEF Consumed, Consuming, Tables
    <3> QED BY <2>3, <2>4, <3>1, <3>2
  <2>6. ASSUME Consumed(r)', ~Consumed(r)
        PROVE  /\ request[r].uses \in tokens[Consuming[request[r].kind]]
               /\ request[r].uses \notin tokens'[Consuming[request[r].kind]]
    <3> DEFINE k == request[r].kind
    <3>1. k \in DOMAIN Consuming /\ At(r, <<"consume", Consuming[k]>>)
      BY <2>1, <2>6 DEF Consumed, Beyond, Fixed, At
    <3>2. Consuming[k] \in Tables /\ k # "login" /\ k # "register" /\ k # "forgot"
      BY <3>1 DEF Consuming, Tables
    <3>3. ~GaveUp(r) BY <2>6 DEF Consumed, Beyond, GaveUp
    <3>4. ~Misses(r) BY <3>1, <3>2, <3>3 DEF Misses, Skips, Excused, At
    <3>5. TokensAfter(r) /\ FindsRow(r) BY <1>3, <3>2, <3>3, <3>4 DEF Makes, Outcome, Asks
    <3>6. request[r].uses \in tokens[Consuming[k]] BY <3>1, <3>2, <3>5 DEF FindsRow
    <3>7. /\ ~At(r, <<"clear", Consuming[k]>>) /\ ~At(r, <<"delete", "user">>)
          /\ ~At(r, <<"insert", Consuming[k]>>)
      BY <3>1 DEF At
    <3>8. tokens'[Consuming[k]] = tokens[Consuming[k]] \ {request[r].uses}
      BY <3>1, <3>2, <3>5, <3>7 DEF TokensAfter
    <3> QED BY <3>6, <3>8
  <2>7. \A q \in Begun : Consumed(q)' => request[q].uses \notin tokens'[Consuming[request[q].kind]]
    BY <2>2, <2>5, <2>6
  <2>8. ASSUME NEW q \in Begun, NEW p \in Begun, Consumed(q)', Consumed(p)', p # q,
               request[p].kind = request[q].kind
        PROVE  request[p].uses # request[q].uses
    <3>1. CASE Consumed(q) /\ Consumed(p) BY <2>8, <3>1 DEF TokensOK
    <3>2. CASE ~Consumed(q)
      <4>1. q = r /\ Consumed(p) BY <2>2, <2>8, <3>2
      <4> QED BY <2>6, <2>8, <3>2, <4>1 DEF TokensOK
    <3>3. CASE ~Consumed(p)
      <4>1. p = r /\ Consumed(q) BY <2>2, <2>8, <3>3
      <4> QED BY <2>6, <2>8, <3>3, <4>1 DEF TokensOK
    <3> QED BY <3>1, <3>2, <3>3
  <2> QED BY <2>1, <2>4, <2>7, <2>8 DEF TokensOK
<1> QED BY <1>1, <1>2, <1>3, Stepping

-----------------------------------------------------------------------------
(* New rows replace old ones, and the key that was shown is kept. *)

LEMMA FailureCounts ==
    ASSUME AuthTypeOK
    PROVE  /\ ServiceStops => failures' # 0
           /\ \A r \in Begun : Misses(r) => failures' # 0
  BY AuthServiceAssumption DEF AuthTypeOK, ServiceStops, Misses

LEMMA InsertOrder ==
    ASSUME NEW k, NEW s, NEW n, <<k, s, n>> \in Following, NEW t \in Tables
    PROVE  n = <<"insert", t>> => s = <<"clear", t>>
  BY DEF Following, Start, End, Tables

LEMMA RowsStep ==
    ASSUME AuthTypeOK, RequestsOK, RequestsOK', MadeBegun, RowsOK, AuthNext
    PROVE  RowsOK'
<1>0. SUFFICES ASSUME failures' = 0, NEW t \in Tables, NEW b \in Replaces(t)', NEW a \in tokens'[t], a # b
               PROVE  a # 0 /\ a \notin request'[b].past
  BY DEF RowsOK
<1>1. ~ServiceStops /\ \A r \in Begun : ~Misses(r) BY <1>0, FailureCounts
<1>2. ASSUME NEW kind \in Kinds, Begin(kind), NEW n, Begins(n, kind)
      PROVE  a # 0 /\ a \notin request'[b].past
  <2>1. /\ tokens' = tokens /\ failures = 0 /\ Begun' = Begun \cup {n}
        /\ \A q \in Begun : request'[q] = request[q]
        /\ <<kind, Start, Upcoming(n)'>> \in Following
        /\ \A q \in Begun : \A s : At(q, s)' <=> At(q, s)
    BY <1>0, <1>2, BeginsKeeps DEF Begin, Begins
  <2>2. ~At(n, <<"insert", t>>)'
    <3>1. Upcoming(n)' # <<"insert", t>> BY <2>1, InsertOrder DEF Start
    <3> QED BY <3>1 DEF At, Upcoming
  <2>3. b \in Replaces(t) /\ b \in Begun BY <2>1, <2>2 DEF Replaces, MadeBegun
  <2> QED BY <1>0, <2>1, <2>3 DEF RowsOK
<1>3. ASSUME NEW r \in Begun, StepOf(r), Makes(r)
      PROVE  a # 0 /\ a \notin request'[b].past
  <2>1. /\ Begun' = Begun /\ Keeps /\ ~Over(r) /\ failures = 0
        /\ \A q \in Begun : \A s : q # r => (At(q, s)' <=> At(q, s))
        /\ TokensAfter(r)
    BY <1>0, <1>3, AloneKeeps DEF StepOf, Makes
  <2>2. CASE At(r, <<"insert", t>>)'
    <3>1. ~Over(r)' /\ Upcoming(r)' = <<"insert", t>> BY <2>2 DEF At, Upcoming
    <3>2. ~GaveUp(r) /\ ~Asks(r) BY <3>1 DEF GaveUp, Asks
    <3>3. <<request[r].kind, Statement(r), Upcoming(r)'>> \in Following
      BY <1>3, <3>2 DEF Makes, Outcome, Went
    <3>4. At(r, <<"clear", t>>) BY <2>1, <3>1, <3>3, InsertOrder DEF At
    <3>5. tokens'[t] = {} BY <2>1, <3>4 DEF TokensAfter
    <3> QED BY <1>0, <3>5
  <2>3. CASE ~At(r, <<"insert", t>>)'
    <3>1. /\ a \in tokens[t] \/ (a = r /\ At(r, <<"insert", t>>))
          /\ b \in Begun
          /\ b \in Replaces(t)
      <4>1. tokens'[t] \subseteq tokens[t] \cup {r} /\ (r \in tokens'[t] => r \in tokens[t] \/ At(r, <<"insert", t>>))
        BY <2>1 DEF TokensAfter
      <4>2. tokens[t] \subseteq {0} \cup Begun BY DEF MadeBegun
      <4> QED BY <1>0, <2>1, <2>3, <4>1, <4>2 DEF Replaces
    <3>2. request'[b].past = request[b].past BY <2>1, <3>1 DEF Keeps, Fixed
    <3>3. r \notin request[b].past /\ r # 0 BY <1>3, <2>1, <3>1, NotYet
    <3> QED BY <1>0, <2>1, <3>1, <3>2, <3>3 DEF RowsOK
  <2> QED BY <2>2, <2>3
<1> QED BY <1>1, <1>2, <1>3, Stepping

LEMMA KeyOrder ==
    ASSUME NEW k, NEW s, NEW n, <<k, s, n>> \in Following
    PROVE  /\ k \in {"register", "recoveryKey"} /\ s = Start => n \in BeforeTheKey
           /\ k \in {"register", "recoveryKey"} /\ s \in BeforeTheKey /\ n \notin BeforeTheKey
                => s = <<"insert", "recovery">>
           /\ s = <<"clear", "recovery">> => k \in {"register", "recoveryKey"} /\ n \in BeforeTheKey
           /\ s = <<"insert", "user">> => n \in BeforeTheKey
           /\ s # <<"consume", "recovery">>
  BY DEF Following, Start, End, BeforeTheKey, Inserting

LEMMA KeyStep ==
    ASSUME AuthTypeOK, RequestsOK, RequestsOK', AccountOK, KeyOK, AuthNext
    PROVE  KeyOK'
<1>0. SUFFICES ASSUME failures' = 0, user'.there, NEW x \in KeyMakers', Beyond(x, BeforeTheKey)',
                      KeyMakers' \subseteq request'[x].past \cup {x}
               PROVE  x \in tokens'["recovery"]
  BY DEF KeyOK
<1>1. ~ServiceStops /\ \A r \in Begun : ~Misses(r) BY <1>0, FailureCounts
<1>2. ASSUME NEW kind \in Kinds, Begin(kind), NEW n, Begins(n, kind)
      PROVE  x \in tokens'["recovery"]
  <2>1. /\ tokens' = tokens /\ user' = user /\ failures = 0 /\ Begun' = Begun \cup {n} /\ n \notin Begun
        /\ \A q \in Begun : request'[q] = request[q]
        /\ \A q \in Begun : /\ (Over(q)' <=> Over(q)) /\ Statement(q)' = Statement(q)
        /\ <<kind, Start, Upcoming(n)'>> \in Following /\ request'[n].kind = kind
        /\ ~Over(n)' /\ ~request'[n].ok
    BY <1>0, <1>2, BeginsKeeps DEF Begin, Begins
  <2>2. CASE x = n
    <3>1. kind \in {"register", "recoveryKey"} BY <1>0, <2>1, <2>2 DEF KeyMakers
    <3>2. Statement(n)' \in BeforeTheKey BY <2>1, <3>1, KeyOrder DEF Upcoming
    <3> QED BY <1>0, <2>1, <2>2, <3>2 DEF Beyond
  <2>3. CASE x # n
    <3>1. x \in Begun /\ x \in KeyMakers /\ KeyMakers \subseteq KeyMakers'
      BY <1>0, <2>1, <2>3 DEF KeyMakers
    <3>2. Beyond(x, BeforeTheKey) BY <1>0, <2>1, <3>1 DEF Beyond
    <3> QED BY <1>0, <2>1, <3>1, <3>2 DEF KeyOK
  <2> QED BY <2>2, <2>3
<1>3. ASSUME NEW r \in Begun, StepOf(r), Makes(r)
      PROVE  x \in tokens'["recovery"]
  <2>1. /\ Begun' = Begun /\ Keeps /\ ~Over(r) /\ failures = 0
        /\ \A q \in Begun : q # r => /\ request'[q] = request[q] /\ (Over(q)' <=> Over(q))
                                     /\ Statement(q)' = Statement(q)
        /\ TokensAfter(r) /\ UserAfter(r)
    BY <1>0, <1>3, AloneKeeps DEF StepOf, Makes
  <2>2. KeyMakers' = KeyMakers /\ x \in KeyMakers /\ x \in Begun
        /\ KeyMakers \subseteq request[x].past \cup {x}
    BY <1>0, <2>1 DEF KeyMakers, Keeps, Fixed
  <2>3. ASSUME x = r
        PROVE  /\ <<request[r].kind, Statement(r), Upcoming(r)'>> \in Following
               /\ Upcoming(r)' \notin BeforeTheKey /\ FindsRow(r)
    <3>1. ~GaveUp(r) BY <1>0, <2>3 DEF Beyond, GaveUp
    <3>2. ~Asks(r) BY <2>2, <2>3 DEF KeyMakers, Asks
    <3>3. Went(r) /\ FindsRow(r) BY <1>3, <3>1, <3>2 DEF Makes, Outcome
    <3> QED BY <1>0, <2>3, <3>3 DEF Went, Beyond, Upcoming, BeforeTheKey, Inserting, End
  <2>4. CASE Beyond(x, BeforeTheKey)
    <3>1. user.there
      <4>1. SUFFICES ASSUME ~user.there
                     PROVE  FALSE
        OBVIOUS
      <4>2. At(r, <<"insert", "user">>) BY <1>0, <2>1, <4>1 DEF UserAfter
      <4>3. request[x].kind = "register" /\ ~Registers(x, Inserting) BY <2>2, <4>1, <4>2, Fresh
      <4> QED BY <2>2, <2>4, <4>3 DEF Registers, Beyond, BeforeTheKey
    <3>2. x \in tokens["recovery"] BY <2>1, <2>2, <2>4, <3>1 DEF KeyOK
    <3>3. ~At(r, <<"clear", "recovery">>)
      <4>1. SUFFICES ASSUME At(r, <<"clear", "recovery">>)
                     PROVE  FALSE
        OBVIOUS
      <4>2. r \in KeyMakers BY <4>1, KindOf, KeyOrder DEF At, KeyMakers
      <4>3. r = x BY <2>1, <2>2, <4>2, NotYet
      <4> QED BY <2>4, <4>1, <4>3 DEF Beyond, At, BeforeTheKey, RequestsOK
    <3>4. ~At(r, <<"delete", "user">>)
      <4>1. At(r, <<"delete", "user">>) => ~At(r, <<"insert", "user">>) BY DEF At
      <4> QED BY <1>0, <2>1, <4>1 DEF UserAfter
    <3>5. ~At(r, <<"consume", "recovery">>) BY KindOf, KeyOrder DEF At
    <3> QED BY <2>1, <3>2, <3>3, <3>4, <3>5 DEF TokensAfter, Tables
  <2>5. CASE ~Beyond(x, BeforeTheKey)
    <3>1. x = r BY <1>0, <2>1, <2>2, <2>5 DEF Beyond
    <3>2. Statement(r) \in BeforeTheKey BY <2>1, <2>5, <3>1 DEF Beyond
    <3>3. At(r, <<"insert", "recovery">>)
      BY <2>1, <2>2, <2>3, <3>1, <3>2, KeyOrder DEF At, KeyMakers
    <3>4. user.there BY <1>0, <2>1, <3>3 DEF UserAfter, At
    <3>5. ~At(r, <<"clear", "recovery">>) /\ ~At(r, <<"delete", "user">>) BY <3>3 DEF At
    <3> QED BY <2>1, <3>1, <3>3, <3>4, <3>5 DEF TokensAfter, Tables
  <2> QED BY <2>4, <2>5
<1> QED BY <1>1, <1>2, <1>3, Stepping

-----------------------------------------------------------------------------
(* What a new password or a suspension ends. *)

LEMMA SignInOrder ==
    ASSUME NEW k, NEW s, NEW n, <<k, s, n>> \in Following
    PROVE  /\ k = "login" /\ s = Start => n = <<"credentials", "user">>
           /\ k = "login" => s # <<"insert", "user">>
           /\ s = <<"insert", "session">> /\ k = "login" => n = End
           /\ s = <<"set", "password">> =>
                 \/ k = "resetPassword" /\ n = <<"delete", "sessions">>
                 \/ k = "changePassword" /\ n = <<"delete", "others">>
           /\ s = <<"delete", "others">> => k = "changePassword" /\ n = End
           /\ s = <<"set", "suspended">> => k = "suspend" /\ n = <<"delete", "sessions">>
           /\ k = "changePassword" /\ s = Start => n = <<"validate", "session">>
           /\ k = "changePassword" /\ n \notin {<<"validate", "session">>, <<"authorize", "user">>}
                 => s # <<"validate", "session">>
  BY DEF Following, Start, End

\* A sign-in begins by looking at the password, or by setting it.
LEMMA SigningStep ==
    ASSUME RequestsOK, NEW r \in Begun, StepOf(r), Makes(r), NEW x \in SigningIn'
    PROVE  /\ x \in Begun \ Ended
           /\ x \notin SigningIn =>
                /\ x = r /\ FindsRow(r)
                /\ \/ request[r].kind = "login" /\ At(r, <<"credentials", "user">>)
                   \/ request[r].kind = "register" /\ At(r, <<"insert", "user">>)
<1>1. /\ Begun' = Begun /\ Keeps /\ ~Over(r) /\ Fixed(r)
      /\ \A q \in Begun : q # r => /\ request'[q] = request[q] /\ (Over(q)' <=> Over(q))
                                   /\ Statement(q)' = Statement(q)
  BY AloneKeeps DEF StepOf
<1>2. x \in Begun /\ ~Over(x) BY <1>1 DEF SigningIn, Keeps
<1>3. ASSUME x \notin SigningIn
      PROVE  /\ x = r /\ FindsRow(r)
             /\ \/ request[r].kind = "login" /\ At(r, <<"credentials", "user">>)
                \/ request[r].kind = "register" /\ At(r, <<"insert", "user">>)
  <2>1. x = r BY <1>1, <1>2, <1>3 DEF SigningIn
  <2>2. ~Over(r)' /\ ~GaveUp(r) BY <2>1 DEF SigningIn, GaveUp
  <2>3. CASE request[r].kind = "login"
    <3>1. At(r, <<"credentials", "user">>) BY <1>1, <1>3, <2>1, <2>3 DEF SigningIn, At
    <3> QED BY <2>1, <2>2, <2>3, <3>1 DEF Makes, Outcome
  <2>4. CASE request[r].kind = "register"
    <3>1. Statement(r) \in Inserting /\ Statement(r)' \notin Inserting
      BY <1>1, <1>3, <2>1, <2>4 DEF SigningIn, Fixed
    <3>2. FindsRow(r) /\ Went(r) BY <2>2, <2>4 DEF Makes, Outcome, Asks
    <3>3. <<"register", Statement(r), Statement(r)'>> \in Following
      BY <2>2, <2>4, <3>2 DEF Went, Upcoming
    <3> QED BY <1>1, <2>1, <2>4, <3>1, <3>2, <3>3, RegisterOrder DEF At
  <2> QED BY <1>1, <2>1, <2>3, <2>4 DEF SigningIn, Fixed
<1> QED BY <1>2, <1>3 DEF Ended

\* No request is a sign-in when an account is inserted.
LEMMA NoneSigningIn ==
    ASSUME RequestsOK, AccountOK, NEW r \in Begun, At(r, <<"insert", "user">>), ~user.there
    PROVE  SigningIn = {}
<1>1. ASSUME NEW x \in SigningIn
      PROVE  FALSE
  <2>1. x \in Begun /\ request[x].kind = "register" /\ ~Registers(x, Inserting)
    BY <1>1, Fresh DEF SigningIn
  <2> QED BY <1>1, <2>1 DEF SigningIn, Registers, Beyond
<1> QED BY <1>1

LEMMA PasswordStep ==
    ASSUME AuthTypeOK, RequestsOK, RequestsOK', MadeBegun, AccountOK, PasswordOK, AuthNext
    PROVE  PasswordOK'
<1>0. SUFFICES ASSUME failures' = 0, user'.there, NEW s \in ByPassword' \cup SigningIn',
                      Under({"resetPassword"}, <<"delete", "sessions">>)' = {},
                      Under({"changePassword"}, <<"delete", "others">>)' = {},
                      BegunWith(s)' # user'.password
               PROVE  s \in running' \cup KeptByChange'
  BY DEF PasswordOK
<1>1. ~ServiceStops /\ \A r \in Begun : ~Misses(r) BY <1>0, FailureCounts
<1>2. ASSUME NEW kind \in Kinds, Begin(kind), NEW n, Begins(n, kind)
      PROVE  s \in running' \cup KeptByChange'
  <2>1. /\ user' = user /\ sessions' = sessions /\ running' = running /\ failures = 0
        /\ Begun' = Begun \cup {n} /\ n \notin Begun
        /\ \A q \in Begun : /\ request'[q] = request[q] /\ (Over(q)' <=> Over(q))
                            /\ Statement(q)' = Statement(q)
        /\ \A q \in Begun : \A st : At(q, st)' <=> At(q, st)
        /\ \A kinds : Given(kinds)' = Given(kinds)
        /\ request'[n].kind = kind /\ <<kind, Start, Upcoming(n)'>> \in Following /\ ~Over(n)'
    BY <1>0, <1>2, BeginsKeeps DEF Begin, Begins
  <2>2. n \notin SigningIn'
    <3>1. kind = "login" => Statement(n)' = <<"credentials", "user">>
      BY <2>1, SignInOrder DEF Upcoming
    <3>2. kind = "register" => Statement(n)' \in Inserting
      BY <2>1, RegisterOrder DEF Upcoming, Inserting
    <3> QED BY <2>1, <3>1, <3>2 DEF SigningIn
  <2>3. s \in ByPassword \cup SigningIn /\ s \in {0} \cup Begun
    <3>1. s \in SigningIn' => s \in SigningIn /\ s \in Begun BY <2>1, <2>2 DEF SigningIn
    <3>2. s \in ByPassword' => s \in ByPassword /\ s \in {0} \cup Begun
      BY <2>1 DEF ByPassword, MadeBegun
    <3> QED BY <1>0, <3>1, <3>2
  <2>4. BegunWith(s)' = BegunWith(s) BY <2>1, <2>3 DEF BegunWith
  <2>5. /\ Under({"resetPassword"}, <<"delete", "sessions">>) = {}
        /\ Under({"changePassword"}, <<"delete", "others">>) = {}
    BY <1>0, <2>1 DEF Under
  <2>6. s \in running \cup KeptByChange BY <1>0, <2>1, <2>3, <2>4, <2>5 DEF PasswordOK
  <2>7. KeptByChange' = KeptByChange
    <3>1. Given({"changePassword"})' = Given({"changePassword"}) /\ Given({"changePassword"}) \subseteq Begun
      BY <2>1 DEF Given, Ended
    <3> QED BY <2>1, <3>1 DEF KeptByChange
  <2> QED BY <2>1, <2>6, <2>7
<1>3. ASSUME NEW r \in Begun, StepOf(r), Makes(r)
      PROVE  s \in running' \cup KeptByChange'
  <2>1. /\ Begun' = Begun /\ Keeps /\ ~Over(r) /\ failures = 0 /\ Fixed(r)
        /\ \A q \in Begun : q # r => /\ request'[q] = request[q] /\ (Over(q)' <=> Over(q))
                                     /\ Statement(q)' = Statement(q)
        /\ \A q \in Begun : \A st : q # r => (At(q, st)' <=> At(q, st))
        /\ SessionsAfter(r) /\ UserAfter(r) /\ RunningAfter(r) /\ Outcome(r)
    BY <1>0, <1>3, AloneKeeps DEF StepOf, Makes
  <2>2. s \in SigningIn' => s \in Begun \ Ended BY <1>3, SigningStep
  <2>3. KeptByChange \subseteq KeptByChange'
    <3>1. Given({"changePassword"}) \subseteq Given({"changePassword"})' BY <1>3, AloneKeeps
    <3>2. \A c \in Given({"changePassword"}) : c \in Begun /\ request'[c].uses = request[c].uses
      BY <2>1 DEF Given, Ended, Keeps, Fixed
    <3> QED BY <3>1, <3>2 DEF KeptByChange
  <2>4. CASE At(r, <<"delete", "sessions">>)
    <3>1. /\ ~At(r, <<"insert", "session">>) /\ ~At(r, <<"delete", "session">>)
          /\ ~At(r, <<"delete", "one">>) /\ ~At(r, <<"delete", "others">>)
      BY <2>4 DEF At
    <3>2. sessions' = {} /\ running' = Begun \ Ended
      BY <2>1, <2>4, <3>1 DEF SessionsAfter, RunningAfter
    <3> QED BY <1>0, <2>2, <3>2 DEF ByPassword
  <2>5. CASE At(r, <<"delete", "others">>)
    <3>1. /\ ~At(r, <<"insert", "session">>) /\ ~At(r, <<"delete", "session">>)
          /\ ~At(r, <<"delete", "one">>) /\ ~At(r, <<"enabled", "mfa">>) /\ Statement(r) \in Sure
      BY <2>5 DEF At, Sure
    <3>2. sessions' \subseteq {request[r].uses} /\ running' = Begun \ Ended
      BY <2>1, <2>5, <3>1 DEF SessionsAfter, RunningAfter
    <3>3. Went(r) BY <2>1, <3>1 DEF Outcome
    <3>4. request[r].kind = "changePassword" /\ Upcoming(r)' = End
      BY <2>5, <3>3, SignInOrder DEF Went, At
    <3>5. r \in Given({"changePassword"})' BY <1>3, <3>3, <3>4, Finished
    <3>6. request[r].uses \in KeptByChange' BY <2>1, <3>5 DEF KeptByChange, Fixed
    <3> QED BY <1>0, <2>2, <3>2, <3>6 DEF ByPassword
  <2>6. CASE ~At(r, <<"delete", "sessions">>) /\ ~At(r, <<"delete", "others">>)
    <3>1. running' = running BY <2>1, <2>6 DEF RunningAfter
    <3>2. /\ Under({"resetPassword"}, <<"delete", "sessions">>) = {}
          /\ Under({"changePassword"}, <<"delete", "others">>) = {}
      BY <1>0, <2>1, <2>6 DEF Under
    <3>3. ~At(r, <<"set", "password">>)
      <4>1. SUFFICES ASSUME At(r, <<"set", "password">>)
                     PROVE  FALSE
        OBVIOUS
      <4>2. user.there BY <1>0, <2>1, <4>1 DEF UserAfter, At
      <4>4. Went(r) BY <2>1, <4>1, <4>2 DEF Outcome, At
      <4>5. \/ request[r].kind = "resetPassword" /\ Upcoming(r)' = <<"delete", "sessions">>
            \/ request[r].kind = "changePassword" /\ Upcoming(r)' = <<"delete", "others">>
        BY <4>1, <4>4, SignInOrder DEF Went, At
      <4>6. ~Over(r)' BY <4>5 DEF Upcoming, End
      <4> QED BY <1>0, <2>1, <4>5, <4>6 DEF Under, At, Upcoming, Fixed
    <3>4. s \in ByPassword' => s \in ByPassword \/ (s = r /\ At(r, <<"insert", "session">>) /\ s \in SigningIn)
      <4>1. SUFFICES ASSUME s \in ByPassword', s \notin sessions
                     PROVE  s = r /\ At(r, <<"insert", "session">>) /\ s \in SigningIn
        BY <2>1 DEF ByPassword, MadeBegun, Keeps, Fixed
      <4>2. s = r /\ At(r, <<"insert", "session">>) BY <2>1, <4>1 DEF ByPassword, SessionsAfter
      <4>3. request[r].kind \in {"register", "login"}
        BY <1>3, <2>1, <4>1, <4>2, NotYet DEF ByPassword, Fixed
      <4> QED BY <4>2, <4>3 DEF SigningIn, At, Inserting
    <3>5. CASE Registering(r)
      <4>1. At(r, <<"insert", "user">>) /\ ~user.there /\ SigningIn = {} /\ sessions = {}
        BY <3>5, NoneSigningIn DEF Registering, AuthTypeOK
      <4>2. s \in SigningIn' /\ s = r /\ request[r].kind = "register"
        BY <1>0, <1>3, <3>4, <4>1, SigningStep DEF ByPassword, At
      <4>3. request[r].typed = FirstPassword /\ request[r].new = FirstPassword /\ r # 0
        BY <2>1, <4>2, NotYet DEF RequestsOK
      <4>4. user'.password = FirstPassword BY <2>1, <3>5, <4>3 DEF UserAfter
      <4>5. BegunWith(s)' = FirstPassword BY <2>1, <4>2, <4>3 DEF BegunWith, Fixed
      <4> QED BY <1>0, <4>4, <4>5
    <3>6. CASE ~Registering(r)
      <4>1. user.there /\ ~At(r, <<"delete", "user">>)
        <5>1. At(r, <<"delete", "user">>) => ~At(r, <<"insert", "user">>) BY DEF At
        <5> QED BY <1>0, <2>1, <3>6, <5>1 DEF UserAfter, Registering
      <4>2. user'.password = user.password BY <2>1, <3>3, <3>6, <4>1 DEF UserAfter
      <4>3. s \in {0} \cup Begun /\ BegunWith(s)' = BegunWith(s)
        <5>1. s \in {0} \cup Begun BY <1>0, <2>2, <3>4 DEF ByPassword, MadeBegun
        <5> QED BY <2>1, <5>1 DEF BegunWith, Keeps, Fixed
      <4>4. s \in ByPassword \cup SigningIn
        <5>1. SUFFICES ASSUME s \in SigningIn', s \notin SigningIn
                       PROVE  FALSE
          BY <1>0, <3>4
        <5>2. s = r /\ request[r].typed = user.password
          BY <1>3, <4>1, <5>1, SigningStep DEF FindsRow
        <5>3. BegunWith(s) = user.password BY <2>1, <5>2, NotYet DEF BegunWith
        <5> QED BY <1>0, <4>2, <4>3, <5>3
      <4> QED BY <1>0, <2>1, <2>3, <3>1, <3>2, <4>1, <4>2, <4>3, <4>4 DEF PasswordOK
    <3> QED BY <3>5, <3>6
  <2> QED BY <2>4, <2>5, <2>6
<1> QED BY <1>1, <1>2, <1>3, Stepping

\* A change of the password that has got past authMiddleware.
LEMMA ChangingStep ==
    ASSUME RequestsOK, NEW r \in Begun, StepOf(r), Makes(r), NEW x \in Changing', x \notin Changing
    PROVE  x = r /\ ~user.suspended
<1>1. /\ Begun' = Begun /\ ~Over(r) /\ Fixed(r)
      /\ \A q \in Begun : q # r => /\ request'[q] = request[q] /\ (Over(q)' <=> Over(q))
                                   /\ Statement(q)' = Statement(q)
  BY AloneKeeps DEF StepOf
<1>2. x = r BY <1>1 DEF Changing
<1>3. /\ request[r].kind = "changePassword" /\ ~Over(r)'
      /\ Statement(r)' \notin {<<"validate", "session">>, <<"authorize", "user">>}
      /\ Statement(r) \in {<<"validate", "session">>, <<"authorize", "user">>}
  BY <1>1, <1>2 DEF Changing, Fixed
<1>4. FindsRow(r) /\ Went(r) BY <1>3 DEF Makes, Outcome, GaveUp, Asks
<1>5. <<"changePassword", Statement(r), Statement(r)'>> \in Following
  BY <1>3, <1>4 DEF Went, Upcoming
<1>6. At(r, <<"authorize", "user">>) BY <1>1, <1>3, <1>5, SignInOrder DEF At
<1> QED BY <1>2, <1>4, <1>6 DEF FindsRow

LEMMA SuspensionStep ==
    ASSUME AuthTypeOK, RequestsOK, RequestsOK', MadeBegun, AccountOK, SuspensionOK, AuthNext
    PROVE  SuspensionOK'
<1>0. SUFFICES ASSUME failures' = 0, user'.there, user'.suspended,
                      Under({"suspend"}, <<"delete", "sessions">>)' = {}
               PROVE  /\ ByPassword' \cup SigningIn' \subseteq running'
                      /\ \A x \in Changing' : request'[x].uses \notin sessions'
  BY DEF SuspensionOK
<1>1. ~ServiceStops /\ \A r \in Begun : ~Misses(r) BY <1>0, FailureCounts
<1>2. ASSUME NEW kind \in Kinds, Begin(kind), NEW n, Begins(n, kind)
      PROVE  /\ ByPassword' \cup SigningIn' \subseteq running'
             /\ \A x \in Changing' : request'[x].uses \notin sessions'
  <2>1. /\ user' = user /\ sessions' = sessions /\ running' = running /\ failures = 0
        /\ Begun' = Begun \cup {n} /\ n \notin Begun
        /\ \A q \in Begun : /\ request'[q] = request[q] /\ (Over(q)' <=> Over(q))
                            /\ Statement(q)' = Statement(q)
        /\ \A q \in Begun : \A st : At(q, st)' <=> At(q, st)
        /\ request'[n].kind = kind /\ <<kind, Start, Upcoming(n)'>> \in Following /\ ~Over(n)'
    BY <1>0, <1>2, BeginsKeeps DEF Begin, Begins
  <2>2. n \notin SigningIn' /\ n \notin Changing'
    <3>1. kind = "login" => Statement(n)' = <<"credentials", "user">>
      BY <2>1, SignInOrder DEF Upcoming
    <3>2. kind = "register" => Statement(n)' \in Inserting
      BY <2>1, RegisterOrder DEF Upcoming, Inserting
    <3>3. kind = "changePassword" => Statement(n)' = <<"validate", "session">>
      BY <2>1, SignInOrder DEF Upcoming
    <3> QED BY <2>1, <3>1, <3>2, <3>3 DEF SigningIn, Changing
  <2>3. SigningIn' \subseteq SigningIn /\ Changing' \subseteq Changing /\ Changing \subseteq Begun
    BY <2>1, <2>2 DEF SigningIn, Changing
  <2>4. ByPassword' \subseteq ByPassword BY <2>1 DEF ByPassword, MadeBegun
  <2>5. Under({"suspend"}, <<"delete", "sessions">>) = {} BY <1>0, <2>1 DEF Under
  <2>6. /\ ByPassword \cup SigningIn \subseteq running
        /\ \A x \in Changing : request[x].uses \notin sessions
    BY <1>0, <2>1, <2>5 DEF SuspensionOK
  <2> QED BY <2>1, <2>3, <2>4, <2>6
<1>3. ASSUME NEW r \in Begun, StepOf(r), Makes(r)
      PROVE  /\ ByPassword' \cup SigningIn' \subseteq running'
             /\ \A x \in Changing' : request'[x].uses \notin sessions'
  <2>1. /\ Begun' = Begun /\ Keeps /\ ~Over(r) /\ failures = 0 /\ Fixed(r)
        /\ \A q \in Begun : q # r => /\ request'[q] = request[q] /\ (Over(q)' <=> Over(q))
                                     /\ Statement(q)' = Statement(q)
        /\ \A q \in Begun : \A st : q # r => (At(q, st)' <=> At(q, st))
        /\ SessionsAfter(r) /\ UserAfter(r) /\ RunningAfter(r) /\ Outcome(r)
    BY <1>0, <1>3, AloneKeeps DEF StepOf, Makes
  <2>2. SigningIn' \subseteq Begun \ Ended BY <1>3, SigningStep
  <2>3. \A x \in Begun : request'[x].uses = request[x].uses /\ request[x].uses # r
    BY <2>1, NotYet DEF Keeps, Fixed
  <2>4. CASE At(r, <<"delete", "sessions">>)
    <3>1. /\ ~At(r, <<"insert", "session">>) /\ ~At(r, <<"delete", "session">>)
          /\ ~At(r, <<"delete", "one">>) /\ ~At(r, <<"delete", "others">>)
      BY <2>4 DEF At
    <3>2. sessions' = {} /\ running' = Begun \ Ended
      BY <2>1, <2>4, <3>1 DEF SessionsAfter, RunningAfter
    <3> QED BY <2>2, <3>2 DEF ByPassword
  <2>a. ~At(r, <<"set", "suspended">>)
    <3>1. SUFFICES ASSUME At(r, <<"set", "suspended">>)
                   PROVE  FALSE
      OBVIOUS
    <3>2. Statement(r) \in Sure /\ ~At(r, <<"enabled", "mfa">>) BY <3>1 DEF At, Sure
    <3>3. Went(r) BY <2>1, <3>2 DEF Outcome
    <3>4. request[r].kind = "suspend" /\ Upcoming(r)' = <<"delete", "sessions">>
      BY <3>1, <3>3, SignInOrder DEF Went, At
    <3>5. ~Over(r)' BY <3>4 DEF Upcoming, End
    <3> QED BY <1>0, <2>1, <3>4, <3>5 DEF Under, At, Upcoming, Fixed
  <2>b. user.there /\ user.suspended
    <3>1. ~Registering(r) /\ ~At(r, <<"delete", "user">>) /\ user.suspended
      <4>1. ~At(r, <<"delete", "user">>)
        <5>1. At(r, <<"delete", "user">>) => ~At(r, <<"insert", "user">>) BY DEF At
        <5> QED BY <1>0, <2>1, <5>1 DEF UserAfter
      <4>2. user'.suspended =
              IF At(r, <<"clear", "suspended">>) \/ Erasing(r) THEN FALSE ELSE user.suspended
        BY <2>1, <2>a DEF UserAfter, FlagAfter
      <4> QED BY <1>0, <4>1, <4>2 DEF Erasing
    <3> QED BY <1>0, <2>1, <3>1 DEF UserAfter, Registering
  <2>c. ASSUME ~At(r, <<"delete", "sessions">>) \/ request[r].kind = "changePassword"
        PROVE  /\ ByPassword \cup SigningIn \subseteq running
               /\ \A x \in Changing : request[x].uses \notin sessions
    <3>1. Under({"suspend"}, <<"delete", "sessions">>) = {} BY <1>0, <2>1, <2>c DEF Under
    <3> QED BY <2>1, <2>b, <3>1 DEF SuspensionOK
  <2>5. CASE At(r, <<"delete", "others">>)
    <3>1. /\ ~At(r, <<"insert", "session">>) /\ ~At(r, <<"delete", "session">>)
          /\ ~At(r, <<"delete", "one">>)
      BY <2>5 DEF At
    <3>2. sessions' = sessions \cap {request[r].uses} /\ running' = Begun \ Ended
      BY <2>1, <2>5, <3>1 DEF SessionsAfter, RunningAfter
    <3>3. request[r].kind = "changePassword" BY <2>1, <2>5, KindOf, SignInOrder DEF At
    <3>4. r \in Changing BY <2>5, <3>3 DEF Changing, At
    <3>5. sessions' = {} BY <2>c, <3>2, <3>3, <3>4
    <3> QED BY <2>2, <3>2, <3>5 DEF ByPassword
  <2>6. CASE ~At(r, <<"delete", "sessions">>) /\ ~At(r, <<"delete", "others">>)
    <3>1. running' = running /\ sessions' \subseteq sessions \cup {r}
      BY <2>1, <2>6 DEF RunningAfter, SessionsAfter
    <3>2. SigningIn' \subseteq SigningIn
      <4>1. SUFFICES ASSUME NEW x \in SigningIn', x \notin SigningIn
                     PROVE  FALSE
        OBVIOUS
      <4>2. FindsRow(r) /\ (At(r, <<"credentials", "user">>) \/ At(r, <<"insert", "user">>))
        BY <1>3, <4>1, SigningStep
      <4> QED BY <2>b, <4>2 DEF FindsRow
    <3>3. ByPassword' \subseteq ByPassword \cup SigningIn
      <4>1. SUFFICES ASSUME NEW x \in ByPassword', x \notin sessions
                     PROVE  x \in SigningIn
        BY <2>1 DEF ByPassword, MadeBegun, Keeps, Fixed
      <4>2. x = r /\ At(r, <<"insert", "session">>) BY <2>1, <4>1 DEF ByPassword, SessionsAfter
      <4>3. request[r].kind \in {"register", "login"}
        BY <1>3, <2>1, <4>1, <4>2, NotYet DEF ByPassword, Fixed
      <4> QED BY <4>2, <4>3 DEF SigningIn, At, Inserting
    <3>4. Changing' \subseteq Changing BY <1>3, <2>b, ChangingStep
    <3>5. Changing \subseteq Begun BY DEF Changing
    <3> QED BY <2>3, <2>6, <2>c, <3>1, <3>2, <3>3, <3>4, <3>5
  <2> QED BY <2>4, <2>5, <2>6
<1> QED BY <1>1, <1>2, <1>3, Stepping

-----------------------------------------------------------------------------
(* The second factor. *)

LEMMA FactorOrder ==
    ASSUME NEW k, NEW s, NEW n, <<k, s, n>> \in Following
    PROVE  /\ n = <<"enable", "mfa">> => s = <<"code", "mfa">>
           /\ s = <<"enable", "mfa">> => k = "mfaVerify" /\ n = End
           /\ k = "mfaVerify" /\ n = End => s = <<"enable", "mfa">>
  BY DEF Following, Start, End

\* What a step leaves of the secret.
SameSecret == mfa'.secret = mfa.secret /\ (mfa.enabled => mfa'.enabled)

LEMMA SecretAfter ==
    ASSUME AuthTypeOK, NEW r, Makes(r) \/ Misses(r)
    PROVE  SameSecret \/ mfa'.secret = r \/ mfa'.secret = NoSecret
  BY DEF Makes, Misses, MfaAfter, SameSecret, AuthTypeOK

\* A verification is at its last statement once the code was right.
LEMMA CodeWasRight ==
    ASSUME RequestsOK, NEW r \in Begun, StepOf(r), Makes(r) \/ Misses(r), At(r, <<"enable", "mfa">>)'
    PROVE  mfa.secret = request[r].code
<1>1. ~Over(r)' /\ Upcoming(r)' = <<"enable", "mfa">> /\ ~Over(r) BY DEF At, Upcoming, StepOf
<1>2. ~GaveUp(r) /\ ~Skips(r) /\ ~Asks(r) BY <1>1 DEF GaveUp, Skips, Asks
<1>3. Went(r) /\ (Misses(r) => Statement(r) \in Excused) /\ (Makes(r) => FindsRow(r))
  BY <1>2 DEF Makes, Outcome, Misses
<1>4. Statement(r) = <<"code", "mfa">> BY <1>1, <1>3, FactorOrder DEF Went
<1>5. Statement(r) \notin Excused BY <1>4 DEF Excused
<1> QED BY <1>1, <1>3, <1>4, <1>5 DEF FindsRow, At

LEMMA SecretStep ==
    ASSUME AuthTypeOK, RequestsOK, RequestsOK', MadeBegun, SecretOK, AuthNext
    PROVE  SecretOK'
<1>n. /\ \A q \in Begun : q \in Nat /\ q # 0 /\ q # NoSecret
      /\ \A q \in Begun : request[q].code # NoSecret
      /\ NoSecret # 0 /\ "forgot" \notin {"mfaVerify"}
  <2>1. \A q \in Begun : q \in Nat /\ q # 0 BY RequestTypes DEF Begun
  <2>2. \A q \in Begun : request[q].code \in Nat
    BY RequestTypes, AuthServiceAssumption DEF RequestRecords, Numbers
  <2> QED BY <2>1, <2>2, AuthServiceAssumption
<1>1. ASSUME ServiceStops, Stops
      PROVE  SecretOK'
  <2>1. /\ \A q \in Begun : \A s : ~At(q, s)'
        /\ Given({"mfaVerify"})' = Given({"mfaVerify"}) /\ mfa' = mfa /\ Begun' = Begun
        /\ \A q \in Begun : request'[q].code = request[q].code
    BY <1>1, StopsKeeps DEF ServiceStops, Stops, Fixed
  <2>2. Given({"mfaVerify"}) \subseteq Begun BY DEF Given, Ended
  <2> QED BY <2>1, <2>2 DEF SecretOK
<1>2. ASSUME NEW kind \in Kinds, Begin(kind), NEW n, Begins(n, kind)
      PROVE  SecretOK'
  <2>1. /\ mfa' = mfa /\ Begun' = Begun \cup {n}
        /\ \A q \in Begun : request'[q] = request[q]
        /\ \A q \in Begun : \A st : At(q, st)' <=> At(q, st)
        /\ Given({"mfaVerify"})' = Given({"mfaVerify"})
        /\ <<kind, Start, Upcoming(n)'>> \in Following /\ ~Over(n)'
    BY <1>2, BeginsKeeps DEF Begin, Begins
  <2>2. ~At(n, <<"enable", "mfa">>)'
    <3>1. Upcoming(n)' = Statement(n)' BY <2>1 DEF Upcoming
    <3>2. Statement(n)' # <<"enable", "mfa">> BY <2>1, <3>1, FactorOrder DEF Start
    <3> QED BY <3>2 DEF At
  <2>3. Given({"mfaVerify"}) \subseteq Begun BY DEF Given, Ended
  <2>4. mfa.secret \in Begun' => mfa.secret \in Begun
    <3>1. n # 0 /\ n # NoSecret
      <4>1. n \in Nat /\ n # 0 BY <1>2, RequestTypes DEF Begins
      <4> QED BY <4>1, AuthServiceAssumption
    <3>2. 0 \notin Begun' /\ NoSecret \notin Begun' BY <1>n, <2>1, <3>1
    <3> QED BY <3>2 DEF MadeBegun
  <2> QED BY <2>1, <2>2, <2>3, <2>4 DEF SecretOK
<1>3. ASSUME NEW r \in Begun, StepOf(r), Makes(r) \/ Misses(r)
      PROVE  SecretOK'
  <2>1. /\ Begun' = Begun /\ Keeps
        /\ \A q \in Begun : \A st : q # r => (At(q, st)' <=> At(q, st))
        /\ Given({"mfaVerify"})' \subseteq Given({"mfaVerify"}) \cup {r}
        /\ Given({"mfaVerify"})' \subseteq Begun
    <3>1. Given({"mfaVerify"})' \subseteq Begun' BY DEF Given, Ended
    <3> QED BY <1>3, <3>1, AloneKeeps
  <2>2. /\ \A q \in Begun : request'[q].code = request[q].code /\ request'[q].past = request[q].past
        /\ \A q \in Begun : request[q].code # r /\ r \notin request[q].past
    BY <1>3, <2>1, NotYet DEF Keeps, Fixed, StepOf
  <2>3. CASE mfa'.secret = r BY <1>n, <2>1, <2>2, <2>3 DEF SecretOK
  <2>4. CASE mfa'.secret = NoSecret BY <1>n, <2>1, <2>2, <2>4 DEF SecretOK
  <2>5. CASE SameSecret
    <3>1. ASSUME NEW v \in Begun, At(v, <<"enable", "mfa">>)', mfa.secret \in Begun
          PROVE  request[v].code = mfa.secret \/ mfa.secret \notin request[v].past
      BY <1>3, <2>1, <3>1, CodeWasRight DEF SecretOK
    <3>2. ASSUME r \in Given({"mfaVerify"})'
          PROVE  mfa'.enabled
      <4>1. /\ request[r].kind \in {"mfaVerify"} /\ <<request[r].kind, Statement(r), End>> \in Following
            /\ Misses(r) => Statement(r) \in Excused
            /\ Makes(r) => FindsRow(r)
        BY <1>n, <1>3, <3>2, GivenStep
      <4>2. Statement(r) = <<"enable", "mfa">> BY <4>1, FactorOrder
      <4>3. At(r, <<"enable", "mfa">>) /\ Statement(r) \notin Excused
        BY <1>3, <4>2 DEF At, Excused, StepOf
      <4>4. Makes(r) /\ mfa.secret # NoSecret BY <1>3, <4>1, <4>3 DEF FindsRow
      <4>5. ~At(r, <<"upsert", "mfa">>) /\ ~At(r, <<"delete", "mfa">>) /\ ~At(r, <<"delete", "user">>)
        BY <4>3 DEF At
      <4> QED BY <4>3, <4>4, <4>5 DEF Makes, MfaAfter
    <3>3. ASSUME NEW v \in Given({"mfaVerify"})', request[v].code = mfa.secret
          PROVE  mfa'.enabled
      BY <2>1, <2>5, <3>2, <3>3 DEF SecretOK, SameSecret
    <3> QED BY <2>1, <2>2, <2>5, <3>1, <3>3 DEF SecretOK, SameSecret
  <2> QED BY <1>3, <2>3, <2>4, <2>5, SecretAfter
<1> QED BY <1>1, <1>2, <1>3, Stepping

LEMMA EnabledStep ==
    ASSUME AuthTypeOK, RequestsOK, RequestsOK', MadeBegun, SecretOK, EnabledWasConfirmed, AuthNext
    PROVE  EnabledWasConfirmed'
<1>0. SUFFICES ASSUME mfa'.enabled, mfa'.secret # 0
               PROVE  \E v \in Given({"mfaVerify"})' :
                         \/ request'[v].code = mfa'.secret
                         \/ /\ v \notin request'[mfa'.secret].past
                            /\ mfa'.secret \notin request'[v].past
  BY DEF EnabledWasConfirmed
\* The request that confirmed it before.
<1>1. ASSUME Keeps, mfa.enabled, mfa'.secret = mfa.secret,
             Given({"mfaVerify"}) \subseteq Given({"mfaVerify"})'
      PROVE  \E v \in Given({"mfaVerify"})' :
                \/ request'[v].code = mfa'.secret
                \/ /\ v \notin request'[mfa'.secret].past
                   /\ mfa'.secret \notin request'[v].past
  <2>1. mfa.secret \in Begun BY <1>0, <1>1 DEF AuthTypeOK, MadeBegun
  <2>2. PICK v \in Given({"mfaVerify"}) :
           \/ request[v].code = mfa.secret
           \/ v \notin request[mfa.secret].past /\ mfa.secret \notin request[v].past
    BY <1>0, <1>1 DEF EnabledWasConfirmed
  <2>3. v \in Begun BY DEF Given, Ended
  <2>4. /\ request'[v].code = request[v].code /\ request'[v].past = request[v].past
        /\ request'[mfa.secret].past = request[mfa.secret].past
    BY <1>1, <2>1, <2>3 DEF Keeps, Fixed
  <2> QED BY <1>1, <2>2, <2>4
<1>2. CASE ServiceStops /\ Stops
  <2>1. Keeps /\ mfa' = mfa /\ Given({"mfaVerify"}) \subseteq Given({"mfaVerify"})'
    BY <1>2, StopsKeeps DEF ServiceStops
  <2> QED BY <1>0, <1>1, <2>1
<1>3. ASSUME NEW kind \in Kinds, Begin(kind), NEW n, Begins(n, kind)
      PROVE  \E v \in Given({"mfaVerify"})' :
                \/ request'[v].code = mfa'.secret
                \/ /\ v \notin request'[mfa'.secret].past
                   /\ mfa'.secret \notin request'[v].past
  <2>1. Keeps /\ mfa' = mfa /\ Given({"mfaVerify"}) \subseteq Given({"mfaVerify"})'
    BY <1>3, BeginsKeeps DEF Begin
  <2> QED BY <1>0, <1>1, <2>1
<1>4. ASSUME NEW r \in Begun, StepOf(r), Misses(r)
      PROVE  \E v \in Given({"mfaVerify"})' :
                \/ request'[v].code = mfa'.secret
                \/ /\ v \notin request'[mfa'.secret].past
                   /\ mfa'.secret \notin request'[v].past
  <2>1. Keeps /\ mfa' = mfa /\ Given({"mfaVerify"}) \subseteq Given({"mfaVerify"})'
    BY <1>4, AloneKeeps DEF Misses
  <2> QED BY <1>0, <1>1, <2>1
<1>5. ASSUME NEW r \in Begun, StepOf(r), Makes(r)
      PROVE  \E v \in Given({"mfaVerify"})' :
                \/ request'[v].code = mfa'.secret
                \/ /\ v \notin request'[mfa'.secret].past
                   /\ mfa'.secret \notin request'[v].past
  <2>1. /\ Keeps /\ Given({"mfaVerify"}) \subseteq Given({"mfaVerify"})'
        /\ MfaAfter(r) /\ Outcome(r) /\ ~Over(r)
    BY <1>5, AloneKeeps DEF Makes, StepOf
  <2>2. CASE ~At(r, <<"enable", "mfa">>)
    <3>1. mfa.enabled /\ mfa'.secret = mfa.secret BY <1>0, <2>1, <2>2 DEF MfaAfter
    <3> QED BY <1>1, <2>1, <3>1
  <2>3. CASE At(r, <<"enable", "mfa">>)
    <3>1. ~At(r, <<"upsert", "mfa">>) /\ ~At(r, <<"delete", "mfa">>) /\ ~At(r, <<"delete", "user">>)
          /\ ~At(r, <<"enabled", "mfa">>)
      BY <2>3 DEF At
    <3>2. mfa'.secret = mfa.secret /\ mfa.secret # NoSecret BY <1>0, <2>1, <2>3, <3>1 DEF MfaAfter
    <3>3. mfa.secret \in Begun BY <1>0, <3>2 DEF MadeBegun
    <3>4. Went(r) BY <2>1, <2>3, <3>1, <3>2 DEF Outcome, At
    <3>5. request[r].kind = "mfaVerify" /\ Upcoming(r)' = End
      BY <2>3, <3>4, FactorOrder DEF Went, At
    <3>6. r \in Given({"mfaVerify"})' BY <1>5, <3>4, <3>5, Finished
    <3>7. request[r].code = mfa.secret \/ mfa.secret \notin request[r].past
      BY <2>3, <3>3 DEF SecretOK
    <3>8. r \notin request[mfa.secret].past BY <2>1, <3>3, NotYet
    <3>9. /\ request'[r].code = request[r].code /\ request'[r].past = request[r].past
          /\ request'[mfa.secret].past = request[mfa.secret].past
      BY <2>1, <3>3 DEF Keeps, Fixed
    <3> QED BY <3>2, <3>6, <3>7, <3>8, <3>9
  <2> QED BY <2>2, <2>3
<1> QED BY <1>2, <1>3, <1>4, <1>5, Stepping

LEMMA LoginOrder ==
    ASSUME NEW k, NEW s, NEW n, <<k, s, n>> \in Following
    PROVE  /\ k = "login" /\ n = <<"insert", "session">> => s = <<"enabled", "mfa">>
           /\ n = <<"enabled", "mfa">> => s = <<"credentials", "user">>
           /\ s = <<"clear", "enforced">> => k = "relax" /\ n = End
           /\ k = "enforce" /\ n = End => s = <<"set", "enforced">>
           /\ s = Start => n # <<"insert", "session">>
  BY DEF Following, Start, End

\* A login needs no second factor any more: it was off, and not demanded.
LEMMA LoggingStep ==
    ASSUME RequestsOK, NEW r \in Begun, StepOf(r), Makes(r) \/ Misses(r), NEW x \in LoggingIn'
    PROVE  /\ x \in Begun
           /\ x \notin LoggingIn =>
                /\ x = r /\ ~Over(r)' /\ At(r, <<"enabled", "mfa">>) /\ ~request[r].enforced
                /\ Makes(r) => ~mfa.enabled
<1>1. /\ Begun' = Begun /\ ~Over(r) /\ Keeps
      /\ \A q \in Begun : \A st : q # r => (At(q, st)' <=> At(q, st))
  BY AloneKeeps DEF StepOf
<1>2. x \in Begun /\ request[x].kind = "login" BY <1>1 DEF LoggingIn, Keeps, Fixed
<1>3. SUFFICES ASSUME x \notin LoggingIn
               PROVE  /\ x = r /\ ~Over(r)' /\ At(r, <<"enabled", "mfa">>) /\ ~request[r].enforced
                      /\ Makes(r) => ~mfa.enabled
  BY <1>2
<1>4. ~At(x, <<"insert", "session">>) /\ x \notin sessions BY <1>2, <1>3 DEF LoggingIn
<1>5. x \notin sessions'
  <2>1. CASE Makes(r)
    <3>1. SessionsAfter(r) BY <2>1 DEF Makes
    <3>2. sessions' \subseteq sessions \/ (At(r, <<"insert", "session">>) /\ sessions' = sessions \cup {r})
      BY <3>1 DEF SessionsAfter
    <3> QED BY <1>4, <3>2
  <2>2. CASE Misses(r) BY <1>4, <2>2 DEF Misses
  <2> QED BY <2>1, <2>2
<1>6. At(x, <<"insert", "session">>)' BY <1>5 DEF LoggingIn
<1>7. x = r BY <1>1, <1>2, <1>4, <1>6
<1>8. ~Over(r)' /\ Upcoming(r)' = <<"insert", "session">> BY <1>6, <1>7 DEF At, Upcoming
<1>9. ~GaveUp(r) /\ ~Asks(r) /\ ~Skips(r)
  <2>1. ~GaveUp(r) BY <1>8 DEF GaveUp
  <2>2. ~Asks(r) BY <1>8 DEF Asks
  <2>3. ~Skips(r) BY <1>2, <1>7, <1>8 DEF Skips
  <2> QED BY <2>1, <2>2, <2>3
<1>10. Went(r) /\ (Makes(r) => FindsRow(r)) BY <1>9 DEF Makes, Outcome, Misses
<1>11. At(r, <<"enabled", "mfa">>)
  <2>1. <<"login", Statement(r), <<"insert", "session">>>> \in Following
    BY <1>2, <1>7, <1>8, <1>10 DEF Went
  <2> QED BY <1>1, <2>1, LoginOrder DEF At
<1>12. Makes(r) => ~mfa.enabled BY <1>9, <1>11 DEF Makes, Outcome
<1>13. ~request[r].enforced
  <2>1. CASE Makes(r) BY <1>10, <1>11, <1>12, <2>1 DEF FindsRow
  <2>2. CASE Misses(r) BY <1>9, <1>11, <2>2 DEF Misses
  <2> QED BY <2>1, <2>2
<1> QED BY <1>7, <1>8, <1>11, <1>12, <1>13

\* The parts of FactorOK.
NoneEnabledBefore ==
    failures = 0 => \A s \in LoggingIn : mfa.secret # 0 /\ Enablers \cap request[s].past = {}
DemandStands == user.there /\ Given({"relax"}) = {} /\ Given({"enforce"}) # {} => user.enforced
NoneDemandedBefore ==
    Given({"relax"}) = {} =>
        /\ \A s \in Begun : At(s, <<"enabled", "mfa">>) /\ ~request[s].enforced =>
              Given({"enforce"}) \cap request[s].past = {}
        /\ \A s \in LoggingIn : Given({"enforce"}) \cap request[s].past = {}

LEMMA FactorParts ==
    /\ FactorOK <=> NoneEnabledBefore /\ DemandStands /\ NoneDemandedBefore
    /\ FactorOK' <=> NoneEnabledBefore' /\ DemandStands' /\ NoneDemandedBefore'
  BY DEF FactorOK, NoneEnabledBefore, DemandStands, NoneDemandedBefore

\* A login that begins is not among those that need no second factor.
LEMMA BeginsOutside ==
    ASSUME RequestsOK, MadeBegun, NEW kind \in Kinds, Begin(kind), NEW n, Begins(n, kind)
    PROVE  /\ LoggingIn' = LoggingIn /\ LoggingIn \subseteq Begun
           /\ ~At(n, <<"enabled", "mfa">>)'
<1>1. /\ sessions' = sessions /\ Begun' = Begun \cup {n} /\ n \notin Begun
      /\ \A q \in Begun : request'[q] = request[q]
      /\ \A q \in Begun : \A st : At(q, st)' <=> At(q, st)
      /\ <<kind, Start, Upcoming(n)'>> \in Following /\ ~Over(n)'
  BY BeginsKeeps DEF Begin, Begins
<1>2. Upcoming(n)' = Statement(n)' BY <1>1 DEF Upcoming
<1>3. /\ Statement(n)' # <<"insert", "session">> /\ Statement(n)' # <<"enabled", "mfa">>
  BY <1>1, <1>2, LoginOrder DEF Start
<1>4. n \notin sessions
  <2>1. n # 0 BY RequestTypes DEF Begins
  <2> QED BY <1>1, <2>1 DEF MadeBegun
<1> QED BY <1>1, <1>3, <1>4 DEF LoggingIn, At

LEMMA NoneEnabledStep ==
    ASSUME AuthTypeOK, RequestsOK, RequestsOK', MadeBegun, SecretOK, NoneEnabledBefore, AuthNext
    PROVE  NoneEnabledBefore'
<1>0. SUFFICES ASSUME failures' = 0, NEW x \in LoggingIn'
               PROVE  mfa'.secret # 0 /\ Enablers' \cap request'[x].past = {}
  BY DEF NoneEnabledBefore
<1>1. ~ServiceStops /\ \A r \in Begun : ~Misses(r) BY <1>0, FailureCounts
<1>2. ASSUME NEW kind \in Kinds, Begin(kind), NEW n, Begins(n, kind)
      PROVE  mfa'.secret # 0 /\ Enablers' \cap request'[x].past = {}
  <2>1. /\ mfa' = mfa /\ failures = 0
        /\ \A q \in Begun : request'[q] = request[q]
        /\ Given({"mfaVerify"})' = Given({"mfaVerify"}) /\ Given({"mfaVerify"}) \subseteq Begun
    BY <1>0, <1>2, BeginsKeeps DEF Begin, Begins, Given, Ended
  <2>2. x \in LoggingIn /\ x \in Begun BY <1>0, <1>2, BeginsOutside
  <2>3. Enablers' = Enablers BY <2>1 DEF Enablers
  <2> QED BY <2>1, <2>2, <2>3 DEF NoneEnabledBefore
<1>3. ASSUME NEW r \in Begun, StepOf(r), Makes(r)
      PROVE  mfa'.secret # 0 /\ Enablers' \cap request'[x].past = {}
  <2>1. /\ Begun' = Begun /\ Keeps /\ failures = 0 /\ ~Over(r) /\ r # 0
        /\ Given({"mfaVerify"})' \subseteq Given({"mfaVerify"}) \cup {r}
        /\ r \in Given({"mfaVerify"})' => Over(r)'
        /\ MfaAfter(r)
    BY <1>0, <1>3, AloneKeeps, NotYet DEF Makes, StepOf
  <2>2. /\ Given({"mfaVerify"})' \subseteq Begun /\ NoSecret # 0
        /\ \A q \in Begun : /\ request'[q].code = request[q].code /\ request'[q].past = request[q].past
                            /\ request[q].code # r /\ request[q].code # NoSecret
    <3>1. Given({"mfaVerify"})' \subseteq Begun' BY DEF Given, Ended
    <3>2. \A q \in Begun : request[q].code \in Nat
      BY RequestTypes, AuthServiceAssumption DEF RequestRecords, Numbers
    <3>3. \A q \in Begun : request[q].code # r BY <2>1, NotYet
    <3> QED BY <2>1, <3>1, <3>2, <3>3, AuthServiceAssumption DEF Keeps, Fixed
  <2>3. x \in Begun BY <1>0, <1>3, LoggingStep
  <2>4. CASE x \in LoggingIn
    <3>1. mfa.secret # 0 /\ Enablers \cap request[x].past = {} BY <2>1, <2>4 DEF NoneEnabledBefore
    <3>2. CASE mfa'.secret = r \/ mfa'.secret = NoSecret
      <4>1. Enablers' = {} BY <2>2, <3>2 DEF Enablers
      <4> QED BY <2>1, <2>2, <3>2, <4>1
    <3>3. CASE SameSecret
      <4>1. Given({"mfaVerify"})' \cap request[x].past = Given({"mfaVerify"}) \cap request[x].past
        BY <2>1, <2>3, PastFixed
      <4>2. mfa'.secret = mfa.secret BY <3>3 DEF SameSecret
      <4>3. Enablers' \cap request[x].past \subseteq Enablers BY <2>2, <4>1, <4>2 DEF Enablers
      <4> QED BY <2>2, <2>3, <3>1, <4>2, <4>3
    <3> QED BY <1>3, <3>2, <3>3, SecretAfter
  <2>5. CASE x \notin LoggingIn
    <3>1. x = r /\ ~Over(r)' /\ At(r, <<"enabled", "mfa">>) /\ ~mfa.enabled
      BY <1>0, <1>3, <2>5, LoggingStep
    <3>2. mfa.secret # 0 /\ Enablers = {} BY <3>1 DEF SecretOK, Enablers
    <3>3. mfa'.secret = mfa.secret
      <4>1. ~At(r, <<"upsert", "mfa">>) /\ ~At(r, <<"delete", "mfa">>) /\ ~At(r, <<"delete", "user">>)
        BY <3>1 DEF At
      <4> QED BY <2>1, <4>1 DEF MfaAfter
    <3>4. Enablers' = {} BY <2>1, <2>2, <3>1, <3>2, <3>3 DEF Enablers
    <3> QED BY <3>2, <3>3, <3>4
  <2> QED BY <2>4, <2>5
<1> QED BY <1>1, <1>2, <1>3, Stepping

LEMMA DemandStep ==
    ASSUME AuthTypeOK, RequestsOK, RequestsOK', MadeBegun, AccountOK, DemandStands, AuthNext
    PROVE  DemandStands'
<1>0. SUFFICES ASSUME user'.there, Given({"relax"})' = {}, Given({"enforce"})' # {}
               PROVE  user'.enforced
  BY DEF DemandStands
<1>f. "forgot" \notin {"enforce"} OBVIOUS
<1>1. CASE ServiceStops /\ Stops
  <2>1. /\ Given({"relax"})' = Given({"relax"}) /\ Given({"enforce"})' = Given({"enforce"})
        /\ user' = user
    BY <1>1, StopsKeeps DEF ServiceStops
  <2> QED BY <1>0, <2>1 DEF DemandStands
<1>2. ASSUME NEW kind \in Kinds, Begin(kind), NEW n, Begins(n, kind)
      PROVE  user'.enforced
  <2>1. /\ Given({"relax"})' = Given({"relax"}) /\ Given({"enforce"})' = Given({"enforce"})
        /\ user' = user
    BY <1>2, BeginsKeeps DEF Begin
  <2> QED BY <1>0, <2>1 DEF DemandStands
<1>3. ASSUME NEW r \in Begun, StepOf(r), Makes(r) \/ Misses(r)
      PROVE  user'.enforced
  <2>1. /\ Given({"relax"}) = {} /\ ~Over(r)
        /\ Given({"enforce"})' \subseteq Given({"enforce"}) \cup {r}
    BY <1>0, <1>3, AloneKeeps DEF StepOf
  <2>2. ASSUME r \in Given({"enforce"})'
        PROVE  Makes(r) /\ At(r, <<"set", "enforced">>)
    <3>1. /\ request[r].kind \in {"enforce"} /\ <<request[r].kind, Statement(r), End>> \in Following
          /\ Misses(r) => Statement(r) \in Excused
      BY <1>f, <1>3, <2>2, GivenStep
    <3>2. Statement(r) = <<"set", "enforced">> BY <3>1, LoginOrder
    <3>3. Statement(r) \notin Excused BY <3>2 DEF Excused
    <3> QED BY <1>3, <2>1, <3>1, <3>2, <3>3 DEF At
  <2>3. CASE r \in Given({"enforce"})'
    <3>1. ~At(r, <<"insert", "user">>) /\ ~At(r, <<"delete", "user">>) /\ At(r, <<"set", "enforced">>)
      BY <2>2, <2>3 DEF At
    <3>2. UserAfter(r) BY <2>2, <2>3 DEF Makes
    <3> QED BY <1>0, <3>1, <3>2 DEF UserAfter, FlagAfter
  <2>4. CASE r \notin Given({"enforce"})' /\ Misses(r)
    <3>1. user' = user /\ Given({"enforce"}) # {} BY <1>0, <2>1, <2>4 DEF Misses
    <3> QED BY <1>0, <2>1, <3>1 DEF DemandStands
  <2>5. CASE r \notin Given({"enforce"})' /\ Makes(r)
    <3>1. Given({"enforce"}) # {} /\ UserAfter(r) /\ Outcome(r) BY <1>0, <2>1, <2>5 DEF Makes
    <3>2. ~Registering(r)
      <4>1. SUFFICES ASSUME At(r, <<"insert", "user">>), ~user.there
                     PROVE  FALSE
        BY DEF Registering
      <4>2. \A q \in Begun : request[q].kind = "register" BY <4>1, Fresh
      <4>3. Given({"enforce"}) = {} BY <4>2 DEF Given, Ended
      <4> QED BY <3>1, <4>3
    <3>3. ~At(r, <<"delete", "user">>)
      <4>1. At(r, <<"delete", "user">>) => ~At(r, <<"insert", "user">>) BY DEF At
      <4> QED BY <1>0, <3>1, <4>1 DEF UserAfter
    <3>4. user.there BY <1>0, <3>1, <3>2 DEF UserAfter, Registering
    <3>5. ~At(r, <<"clear", "enforced">>)
      <4>1. SUFFICES ASSUME At(r, <<"clear", "enforced">>)
                     PROVE  FALSE
        OBVIOUS
      <4>2. Statement(r) \in Sure /\ ~At(r, <<"enabled", "mfa">>) BY <4>1 DEF At, Sure
      <4>3. Went(r) BY <3>1, <4>2 DEF Outcome
      <4>4. request[r].kind = "relax" /\ Upcoming(r)' = End BY <4>1, <4>3, LoginOrder DEF Went, At
      <4>5. r \in Given({"relax"})' BY <1>3, <4>3, <4>4, Finished
      <4> QED BY <1>0, <4>5
    <3>6. user.enforced BY <2>1, <3>1, <3>4 DEF DemandStands
    <3>7. user'.enforced = IF At(r, <<"set", "enforced">>) THEN user.there ELSE user.enforced
      BY <3>1, <3>2, <3>3, <3>5 DEF UserAfter, FlagAfter, Erasing
    <3> QED BY <3>4, <3>6, <3>7
  <2> QED BY <1>3, <2>3, <2>4, <2>5
<1> QED BY <1>1, <1>2, <1>3, Stepping

\* A login asks for the second factor with the demand it has read.
LEMMA AskingStep ==
    ASSUME RequestsOK, NEW r \in Begun, StepOf(r), Makes(r) \/ Misses(r), At(r, <<"enabled", "mfa">>)'
    PROVE  user.there /\ request'[r].enforced = user.enforced
<1>1. ~Over(r) /\ ~Over(r)' /\ Upcoming(r)' = <<"enabled", "mfa">> BY DEF At, Upcoming, StepOf
<1>2. ~GaveUp(r) /\ ~Asks(r) /\ ~Skips(r) BY <1>1 DEF GaveUp, Asks, Skips
<1>3. Went(r) /\ (Makes(r) => FindsRow(r)) /\ (Misses(r) => Statement(r) \in Excused)
  BY <1>2 DEF Makes, Outcome, Misses
<1>4. At(r, <<"credentials", "user">>) BY <1>1, <1>3, LoginOrder DEF Went, At
<1>5. ~Misses(r)
  <2>1. Statement(r) \notin Excused BY <1>4 DEF At, Excused
  <2> QED BY <1>3, <2>1
<1> QED BY <1>2, <1>3, <1>4, <1>5 DEF Makes, Outcome, FindsRow

LEMMA NoneDemandedStep ==
    ASSUME AuthTypeOK, RequestsOK, RequestsOK', MadeBegun, DemandStands, NoneDemandedBefore, AuthNext
    PROVE  NoneDemandedBefore'
<1>0. SUFFICES ASSUME Given({"relax"})' = {}, NEW s \in Begun',
                      (At(s, <<"enabled", "mfa">>)' /\ ~request'[s].enforced) \/ s \in LoggingIn'
               PROVE  Given({"enforce"})' \cap request'[s].past = {}
  <2>1. LoggingIn' \subseteq Begun' BY DEF LoggingIn
  <2> QED BY <2>1 DEF NoneDemandedBefore
<1>1. ASSUME ServiceStops, Stops
      PROVE  Given({"enforce"})' \cap request'[s].past = {}
  <2>1. /\ Given({"relax"})' = Given({"relax"}) /\ Given({"enforce"})' = Given({"enforce"})
        /\ sessions' = sessions /\ Begun' = Begun
        /\ \A q \in Begun : request'[q].past = request[q].past /\ request'[q].kind = request[q].kind
        /\ \A q \in Begun : \A st : ~At(q, st)'
    BY <1>1, StopsKeeps DEF ServiceStops, Stops, Fixed
  <2>2. s \in LoggingIn BY <1>0, <2>1 DEF LoggingIn
  <2> QED BY <1>0, <2>1, <2>2 DEF NoneDemandedBefore
<1>2. ASSUME NEW kind \in Kinds, Begin(kind), NEW n, Begins(n, kind)
      PROVE  Given({"enforce"})' \cap request'[s].past = {}
  <2>1. /\ Given({"relax"})' = Given({"relax"}) /\ Given({"enforce"})' = Given({"enforce"})
        /\ Begun' = Begun \cup {n}
        /\ \A q \in Begun : request'[q] = request[q]
        /\ \A q \in Begun : \A st : At(q, st)' <=> At(q, st)
    BY <1>2, BeginsKeeps DEF Begins
  <2>2. LoggingIn' = LoggingIn /\ LoggingIn \subseteq Begun /\ ~At(n, <<"enabled", "mfa">>)'
    BY <1>2, BeginsOutside
  <2>3. s \in Begun BY <1>0, <2>1, <2>2
  <2> QED BY <1>0, <2>1, <2>2, <2>3 DEF NoneDemandedBefore
<1>3. ASSUME NEW r \in Begun, StepOf(r), Makes(r) \/ Misses(r)
      PROVE  Given({"enforce"})' \cap request'[s].past = {}
  <2>1. /\ Begun' = Begun /\ Keeps /\ Given({"relax"}) = {} /\ s \in Begun
        /\ \A q \in Begun : q # r => request'[q] = request[q]
        /\ \A q \in Begun : \A st : q # r => (At(q, st)' <=> At(q, st))
    BY <1>0, <1>3, AloneKeeps
  <2>2. /\ Given({"enforce"})' \cap request[s].past = Given({"enforce"}) \cap request[s].past
        /\ request'[s].past = request[s].past
    BY <2>1, PastFixed DEF Keeps, Fixed
  <2>3. CASE s \in LoggingIn'
    <3>1. s \in LoggingIn \/ (At(s, <<"enabled", "mfa">>) /\ ~request[s].enforced)
      BY <1>3, <2>3, LoggingStep
    <3> QED BY <2>1, <2>2, <3>1 DEF NoneDemandedBefore
  <2>4. CASE At(s, <<"enabled", "mfa">>)' /\ ~request'[s].enforced
    <3>1. CASE s # r BY <2>1, <2>2, <2>4, <3>1 DEF NoneDemandedBefore
    <3>2. CASE s = r
      <4>1. user.there /\ ~user.enforced BY <1>3, <2>4, <3>2, AskingStep
      <4>2. Given({"enforce"}) = {} BY <2>1, <4>1 DEF DemandStands
      <4> QED BY <2>2, <4>2
    <3> QED BY <3>1, <3>2
  <2> QED BY <1>0, <2>3, <2>4
<1> QED BY <1>1, <1>2, <1>3, Stepping

-----------------------------------------------------------------------------
(* The theorems. *)

\* Nobody has registered, or there is an account that has made no request yet.
LEMMA AtFirst ==
    ASSUME AuthInit
    PROVE  AuthInv
<1>1. /\ request = <<>> /\ Begun = {} /\ failures = 0 /\ running = {} /\ Len(request) = 0
  BY DEF AuthInit, Begun
<1>2. Ended = {} /\ \A kinds : Given(kinds) = {} BY <1>1 DEF Ended, Given
<1>3. /\ 0 \in Numbers /\ 0 \in 0..MaxFailures /\ MaxRequests \in Nat /\ FirstPassword \in Passwords
      /\ NoSecret # 0
  BY AuthServiceAssumption DEF Numbers
<1>4. /\ user \in Accounts /\ sessions \subseteq {0} /\ mfa \in Factors
      /\ mfa.enabled => mfa.secret # NoSecret
      /\ mfa.secret \in {0, NoSecret} /\ (mfa.secret = 0 => mfa.enabled)
      /\ tokens = [t \in Tables |-> IF user.there /\ t = "recovery" THEN {0} ELSE {}]
      /\ ~user.there => sessions = {} /\ mfa.secret = NoSecret
      /\ user.password = FirstPassword /\ ~user.suspended
  <2>1. NoAccount \in Accounts BY <1>3 DEF NoAccount, Accounts
  <2>2. CASE user = NoAccount /\ sessions = {} /\ mfa = [secret |-> NoSecret, enabled |-> FALSE]
    BY <1>3, <2>1, <2>2 DEF AuthInit, Factors, NoAccount
  <2>3. CASE /\ user = [NoAccount EXCEPT !.there = TRUE, !.resources = TRUE, !.keys = TRUE]
             /\ sessions = {0}
             /\ mfa \in {[secret |-> NoSecret, enabled |-> FALSE], [secret |-> 0, enabled |-> TRUE]}
    <3>1. user \in Accounts /\ user.password = FirstPassword /\ ~user.suspended /\ user.there
      BY <1>3, <2>3 DEF NoAccount, Accounts
    <3>2. /\ mfa \in Factors /\ (mfa.enabled => mfa.secret # NoSecret)
          /\ mfa.secret \in {0, NoSecret} /\ (mfa.secret = 0 => mfa.enabled)
      <4>1. CASE mfa = [secret |-> NoSecret, enabled |-> FALSE] BY <1>3, <4>1 DEF Factors
      <4>2. CASE mfa = [secret |-> 0, enabled |-> TRUE] BY <1>3, <4>2 DEF Factors
      <4> QED BY <2>3, <4>1, <4>2
    <3>3. tokens = [t \in Tables |-> IF user.there /\ t = "recovery" THEN {0} ELSE {}]
      BY DEF AuthInit
    <3>4. sessions \subseteq {0} BY <2>3
    <3> QED BY <3>1, <3>2, <3>3, <3>4
  <2> QED BY <2>2, <2>3 DEF AuthInit
<1>5. \A t \in Tables : tokens[t] \subseteq {0} /\ (~user.there => tokens[t] = {}) BY <1>4
<1>6. AuthTypeOK
  <2>1. tokens \in [Tables -> SUBSET Numbers] BY <1>3, <1>4
  <2>2. ~user.there => sessions = {} /\ mfa.secret = NoSecret /\ \A t \in Tables : tokens[t] = {}
    BY <1>4, <1>5
  <2>3. sessions \subseteq Numbers /\ failures \in 0..MaxFailures /\ running \subseteq Begun
    BY <1>1, <1>3, <1>4
  <2>4. \A q \in Begun : /\ request[q].kind \in Kinds /\ (request[q].ok => Over(q))
                         /\ request[q].past \subseteq 1..(q - 1)
    BY <1>1
  <2> QED BY <1>4, <2>1, <2>2, <2>3, <2>4, Zenon DEF AuthTypeOK
<1>7. RequestsOK BY <1>1, <1>3 DEF RequestsOK
<1>8. MadeBegun BY <1>4, <1>5 DEF MadeBegun
<1>9. AccountOK BY <1>1, <1>2 DEF AccountOK
<1>10. TokensOK BY <1>1 DEF TokensOK
<1>11. RowsOK BY <1>1, <1>5 DEF RowsOK, Replaces
<1>12. KeyOK BY <1>1 DEF KeyOK, KeyMakers
<1>13. PasswordOK BY <1>1, <1>4 DEF PasswordOK, ByPassword, SigningIn, BegunWith
<1>14. SuspensionOK BY <1>4 DEF SuspensionOK
<1>15. SecretOK BY <1>1, <1>2, <1>4 DEF SecretOK
<1>16. EnabledWasConfirmed BY <1>4 DEF EnabledWasConfirmed, AuthTypeOK
<1>17. FactorOK BY <1>1, <1>2 DEF FactorOK, LoggingIn
<1> QED
  BY <1>6, <1>7, <1>8, <1>9, <1>10, <1>11, <1>12, <1>13, <1>14, <1>15, <1>16, <1>17 DEF AuthInv

\* Every step keeps the invariant.
LEMMA Onward ==
    ASSUME AuthInv, [AuthNext]_authVars
    PROVE  AuthInv'
<1>i. /\ AuthTypeOK /\ RequestsOK /\ MadeBegun /\ AccountOK /\ TokensOK /\ RowsOK /\ KeyOK
      /\ PasswordOK /\ SuspensionOK /\ SecretOK /\ EnabledWasConfirmed /\ FactorOK
  BY DEF AuthInv
<1>1. CASE AuthNext
  <2>1. AuthTypeOK' /\ RequestsOK' /\ MadeBegun' BY <1>i, <1>1, TypesStep
  <2>2. AccountOK' BY <1>i, <1>1, <2>1, AccountStep
  <2>3. TokensOK' BY <1>i, <1>1, <2>1, TokensStep
  <2>4. RowsOK' /\ KeyOK' BY <1>i, <1>1, <2>1, RowsStep, KeyStep
  <2>5. PasswordOK' BY <1>i, <1>1, <2>1, PasswordStep
  <2>6. SuspensionOK' BY <1>i, <1>1, <2>1, SuspensionStep
  <2>7. SecretOK' BY <1>i, <1>1, <2>1, SecretStep
  <2>8. EnabledWasConfirmed' BY <1>i, <1>1, <2>1, EnabledStep
  <2>9. FactorOK'
    <3>1. NoneEnabledBefore /\ DemandStands /\ NoneDemandedBefore BY <1>i, FactorParts
    <3>2. NoneEnabledBefore' BY <1>i, <1>1, <2>1, <3>1, NoneEnabledStep
    <3>3. DemandStands' BY <1>i, <1>1, <2>1, <3>1, DemandStep
    <3>4. NoneDemandedBefore' BY <1>i, <1>1, <2>1, <3>1, NoneDemandedStep
    <3> QED BY <3>2, <3>3, <3>4, FactorParts
  <2> QED BY <2>1, <2>2, <2>3, <2>4, <2>5, <2>6, <2>7, <2>8, <2>9 DEF AuthInv
<1>2. CASE UNCHANGED authVars
  <2>u. /\ user' = user /\ sessions' = sessions /\ mfa' = mfa /\ tokens' = tokens
        /\ request' = request /\ failures' = failures /\ running' = running
    BY <1>2 DEF authVars
  <2>1. Begun' = Begun /\ Ended' = Ended /\ \A r : (Over(r)' <=> Over(r)) /\ Statement(r)' = Statement(r)
    BY <2>u DEF Begun, Ended, Over, Statement
  <2>2. /\ \A r, s : At(r, s)' <=> At(r, s)
        /\ \A kinds : Given(kinds)' = Given(kinds)
        /\ \A r, s : Beyond(r, s)' <=> Beyond(r, s)
    BY <2>u, <2>1 DEF At, Given, Beyond
  <2>3. /\ \A r : Script(r)' = Script(r)
        /\ \A r, s : Registers(r, s)' <=> Registers(r, s)
        /\ \A r : Consumed(r)' <=> Consumed(r)
        /\ \A kinds, s : Under(kinds, s)' = Under(kinds, s)
    BY <2>u, <2>1, <2>2 DEF Script, Registers, Consumed, Under
  <2>4. /\ KeyMakers' = KeyMakers /\ KeptByChange' = KeptByChange /\ ByPassword' = ByPassword
        /\ SigningIn' = SigningIn /\ Changing' = Changing /\ LoggingIn' = LoggingIn
        /\ Enablers' = Enablers /\ (Existed' <=> Existed) /\ \A t : Replaces(t)' = Replaces(t)
        /\ \A s : BegunWith(s)' = BegunWith(s)
        /\ Entering' <=> Entering
    BY <2>u, <2>1, <2>2, <2>3
       DEF KeyMakers, KeptByChange, ByPassword, SigningIn, Changing, LoggingIn, Enablers, Existed,
           Replaces, BegunWith, Entering
  <2>5. AuthTypeOK' /\ MadeBegun' BY <1>i, <2>u, <2>1 DEF AuthTypeOK, MadeBegun
  <2>6. RequestsOK' BY <1>i, <2>u, <2>1, <2>3 DEF RequestsOK
  <2>7. AccountOK' BY <1>i, <2>u, <2>1, <2>2, <2>3, <2>4 DEF AccountOK
  <2>8. TokensOK' /\ RowsOK' /\ KeyOK'
    BY <1>i, <2>u, <2>1, <2>2, <2>3, <2>4 DEF TokensOK, RowsOK, KeyOK
  <2>9. PasswordOK' /\ SuspensionOK'
    BY <1>i, <2>u, <2>1, <2>2, <2>3, <2>4 DEF PasswordOK, SuspensionOK
  <2>10. SecretOK' /\ EnabledWasConfirmed' /\ FactorOK'
    BY <1>i, <2>u, <2>1, <2>2, <2>3, <2>4 DEF SecretOK, EnabledWasConfirmed, FactorOK
  <2> QED BY <2>5, <2>6, <2>7, <2>8, <2>9, <2>10 DEF AuthInv
<1> QED BY <1>1, <1>2

\* The invariant holds in every state the service can reach.
THEOREM AuthInvariant == AuthSpec => []AuthInv
<1>1. AuthInit => AuthInv BY AtFirst
<1>2. AuthInv /\ [AuthNext]_authVars => AuthInv' BY Onward
<1> QED BY <1>1, <1>2, PTL DEF AuthSpec

\* The rows of an account, its requests and its history are what they should be: no
\* session, factor or token is left of an account that is not there.
THEOREM AuthTypes == AuthSpec => []AuthTypeOK
<1>1. AuthInv => AuthTypeOK BY DEF AuthInv
<1> QED BY <1>1, AuthInvariant, PTL

\* What the service answered holds: a new token replaces the old ones, a token works
\* once, the recovery key shown last is the one that is stored, and an account is
\* registered once and whole, in whatever order the statements of the handlers come.
THEOREM AnswersAreKept == AuthSpec => []AnswersHold
<1>1. ASSUME AuthInv
      PROVE  AnswersHold
  <2>1. AuthTypeOK /\ AccountOK /\ TokensOK /\ RowsOK /\ KeyOK BY <1>1 DEF AuthInv
  <2>2. NewReplacesOld
    <3>1. SUFFICES ASSUME failures = 0, NEW t \in Tables, NEW a \in tokens[t], NEW b \in tokens[t], a < b
                   PROVE  a # 0 /\ a \notin request[b].past
      BY DEF NewReplacesOld
    <3>2. a \in Nat /\ b \in Nat BY <2>1, AuthServiceAssumption DEF AuthTypeOK, Numbers
    <3>3. b \in Replaces(t) /\ a # b BY <3>1, <3>2 DEF Replaces
    <3> QED BY <2>1, <3>1, <3>3 DEF RowsOK
  <2>3. TokensWorkOnce
    <3>1. ASSUME NEW a \in Given({"loginMFA", "verifyEmail", "resetPassword"})
          PROVE  Consumed(a) /\ a \in Begun
      <4>1. DOMAIN Consuming = {"loginMFA", "verifyEmail", "resetPassword"} BY DEF Consuming
      <4> QED BY <3>1, <4>1 DEF Given, Ended, Consumed, Beyond
    <3> QED BY <2>1, <3>1 DEF TokensWorkOnce, TokensOK
  <2>4. ShownKeyIsStored
    <3>1. \A r \in Given({"register", "recoveryKey"}) : r \in KeyMakers /\ Beyond(r, BeforeTheKey)
      BY DEF Given, Ended, KeyMakers, Beyond
    <3> QED BY <2>1, <3>1 DEF ShownKeyIsStored, KeyOK
  <2>5. RegisteredIsWhole
    <3>1. \A r \in Given({"register"}) : r \in Begun /\ \A s : Registers(r, s)
      BY DEF Given, Ended, Registers, Beyond
    <3>2. \A r, q \in Given({"register"}) : r = q BY <2>1, <3>1 DEF AccountOK
    <3>3. Cardinality(Given({"register"})) <= 1
      <4>1. CASE Given({"register"}) = {} BY <4>1, FS_EmptySet
      <4>2. CASE Given({"register"}) # {}
        <5>1. PICK r : Given({"register"}) = {r} BY <3>2, <4>2
        <5> QED BY <5>1, FS_Singleton
      <4> QED BY <4>1, <4>2
    <3>4. user.there /\ Given({"register"}) # {} => user.resources /\ user.keys
      <4>1. ASSUME user.there, NEW r \in Given({"register"})
            PROVE  user["resources"] /\ user["keys"]
        <5>1. \A what \in {"resources", "keys"} : user[what] BY <2>1, <3>1, <4>1 DEF AccountOK
        <5> QED BY <5>1
      <4> QED BY <4>1
    <3> QED BY <3>3, <3>4 DEF RegisteredIsWhole
  <2> QED BY <2>2, <2>3, <2>4, <2>5 DEF AnswersHold
<1>2. AuthInv => AnswersHold BY <1>1
<1> QED BY <1>2, AuthInvariant, PTL

\* Every session is one its account is entitled to: a new password, a suspension, an
\* enabled factor and one that is demanded end or keep out what they should.
THEOREM OnlyEntitledSessions == AuthSpec => []SessionsAreEntitled
<1>1. ASSUME AuthInv
      PROVE  SessionsAreEntitled
  <2>1. /\ AuthTypeOK /\ MadeBegun /\ PasswordOK /\ SuspensionOK /\ EnabledWasConfirmed /\ FactorOK
    BY <1>1 DEF AuthInv
  <2>2. ~user.there => ByPassword = {} BY <2>1 DEF AuthTypeOK, ByPassword
  <2>3. failures = 0 => OldPasswordsOut BY <2>1, <2>2 DEF PasswordOK, OldPasswordsOut
  <2>4. failures = 0 => SuspendedOut BY <2>1, <2>2 DEF SuspensionOK, SuspendedOut
  <2>5. PasswordNeedsFactor
    <3>1. \A s \in ByPassword \ {0} : request[s].kind = "login" => s \in LoggingIn
      BY <2>1 DEF ByPassword, MadeBegun, LoggingIn
    <3> QED BY <2>1, <3>1 DEF FactorOK, PasswordNeedsFactor
  <2> QED BY <2>1, <2>3, <2>4, <2>5 DEF SessionsAreEntitled, SignInsEnd, SecondFactorHolds
<1>2. AuthInv => SessionsAreEntitled BY <1>1
<1> QED BY <1>2, AuthInvariant, PTL

-------------------------------------------------------------------------------
(* III. The custom domains. *)
-----------------------------------------------------------------------------
(* Types. *)

\* The values that the variables start with, or are reset to, have the types stated.
LEMMA ConstantTypes ==
    /\ NoRow \in Rows /\ [NoRow EXCEPT !.ever = TRUE] \in Rows
    /\ NoCheck \in CheckStates /\ [NoCheck EXCEPT !.done = TRUE] \in CheckStates
    /\ NoPast \in Pasts
    /\ Checks \in Seq(Records)
    /\ Worker \in Checkers
    /\ Records # {}
<1>1. <<>> \in Seq(Records) OBVIOUS
<1>2. Checks \in Seq(Records) /\ Worker \in Checkers /\ Records # {}
  BY CustomDomainsAssumption DEF Records, Checkers
<1> QED BY <1>1, <1>2 DEF NoRow, Rows, NoCheck, CheckStates, NoPast, Pasts

\* What is left of a sequence: its head is one of its elements, and the others are its tail.
LEMMA TailParts ==
    ASSUME NEW S, NEW s \in Seq(S), s # <<>>
    PROVE  /\ Head(s) \in S /\ Tail(s) \in Seq(S)
           /\ Len(Tail(s)) = Len(s) - 1 /\ Len(s) \in Nat
           /\ ToSet(s) = {Head(s)} \cup ToSet(Tail(s))
<1>1. /\ Head(s) \in S /\ Tail(s) \in Seq(S) /\ Len(Tail(s)) = Len(s) - 1
      /\ Len(s) \in Nat /\ Len(s) > 0 /\ Head(s) = s[1]
      /\ \A i \in 1..Len(s) - 1 : Tail(s)[i] = s[i + 1]
  BY HeadTailProperties
<1>2. DOMAIN s = 1..Len(s) /\ DOMAIN Tail(s) = 1..Len(s) - 1 BY <1>1
<1>3. ASSUME NEW x \in ToSet(s) PROVE x \in {Head(s)} \cup ToSet(Tail(s))
  <2>1. PICK i \in 1..Len(s) : s[i] = x BY <1>2 DEF ToSet
  <2>2. CASE i = 1 BY <2>1, <2>2, <1>1
  <2>3. CASE i # 1
    <3>1. i - 1 \in 1..Len(s) - 1 /\ Tail(s)[i - 1] = x BY <2>1, <2>3, <1>1
    <3> QED BY <3>1, <1>2 DEF ToSet
  <2> QED BY <2>2, <2>3
<1>4. ASSUME NEW x \in {Head(s)} \cup ToSet(Tail(s)) PROVE x \in ToSet(s)
  <2>1. CASE x = Head(s) BY <2>1, <1>1, <1>2 DEF ToSet
  <2>2. CASE x \in ToSet(Tail(s))
    <3>1. PICK i \in 1..Len(s) - 1 : Tail(s)[i] = x BY <2>2, <1>2 DEF ToSet
    <3>2. i + 1 \in 1..Len(s) /\ s[i + 1] = x BY <3>1, <1>1
    <3> QED BY <3>2, <1>2 DEF ToSet
  <2> QED BY <1>4, <2>1, <2>2
<1> QED BY <1>1, <1>3, <1>4

\* A batch is a sequence of as many domains at most as it holds, without repetition.
LEMMA BatchIsSequence ==
    ASSUME CustomTypes, NEW rows \in Batches
    PROVE  /\ rows \in Seq(DomainIds) /\ Len(rows) \in Nat /\ Len(rows) <= BatchLimit
           /\ ToSet(rows) \subseteq Pending
           /\ IsInjective(rows)
<1>1. PICK m \in 0..BatchLimit : rows \in [1..m -> Pending] BY DEF Batches, BoundedSeq, SeqOf
<1>2. m \in Nat /\ m <= BatchLimit BY <1>1, CustomDomainsAssumption
<1>3. rows \in Seq(Pending) /\ Len(rows) = m BY <1>1, <1>2
<1>4. Pending \subseteq DomainIds BY DEF Pending
<1>5. IsInjective(rows) BY DEF Batches
<1> QED BY <1>1, <1>2, <1>3, <1>4, <1>5 DEF ToSet

\* The mishaps and the other bounded counts.
LEMMA UsedTypes ==
    ASSUME CustomTypes, NEW what \in {"rounds", "changes", "overrides", "mishaps"}, NEW bound,
           Takes(what, bound)
    PROVE  /\ used' \in [rounds : Nat, changes : Nat, overrides : Nat, mishaps : Nat]
           /\ used'.mishaps = IF what = "mishaps" THEN used.mishaps + 1 ELSE used.mishaps
BY DEF CustomTypes, Takes

\* A row that is deleted is in no order of the checks; the others keep theirs.
LEMMA Unranks ==
    ASSUME CustomTypes, NEW d \in DomainIds, lastChecked' = Unranked(d)
    PROVE  /\ Checked' = Checked \ {d}
           /\ lastChecked' \subseteq Checked' \X Checked'
           /\ \A e, f \in DomainIds \ {d} : <<e, f>> \in lastChecked' <=> <<e, f>> \in lastChecked
<1>1. \A e, f \in DomainIds \ {d} : <<e, f>> \in lastChecked' <=> <<e, f>> \in lastChecked
  BY DEF Unranked
<1>2. lastChecked' \subseteq lastChecked \cap ((DomainIds \ {d}) \X (DomainIds \ {d}))
  BY DEF Unranked
<1>3. Checked' = Checked \ {d} BY <1>1, <1>2 DEF Checked
<1> QED BY <1>1, <1>2, <1>3 DEF CustomTypes

\* A row that is checked comes last in the order.
LEMMA Stamps ==
    ASSUME CustomTypes, NEW d \in DomainIds, lastChecked' = Stamped(d)
    PROVE  /\ Checked' = Checked \cup {d}
           /\ lastChecked' \subseteq Checked' \X Checked'
           /\ \A e, f \in DomainIds \ {d} : <<e, f>> \in lastChecked' <=> <<e, f>> \in lastChecked
           /\ \A e \in Checked' : <<e, d>> \in lastChecked'
           /\ \A e \in DomainIds \ {d} : <<d, e>> \notin lastChecked'
<1>1. \A e, f \in DomainIds \ {d} : <<e, f>> \in lastChecked' <=> <<e, f>> \in lastChecked
  BY DEF Stamped, Unranked
<1>2. \A e \in Checked \cup {d} : <<e, d>> \in lastChecked' BY DEF Stamped
<1>3. \A e \in DomainIds \ {d} : <<d, e>> \notin lastChecked' BY DEF Stamped, Unranked
<1>4. Checked' = Checked \cup {d} BY <1>1, <1>2 DEF Checked
<1>5. lastChecked' \subseteq Checked' \X Checked'
  <2>1. Unranked(d) \subseteq Checked \X Checked BY DEF Unranked, CustomTypes
  <2> QED BY <1>4, <2>1 DEF Stamped
<1> QED BY <1>1, <1>2, <1>3, <1>4, <1>5

\* The order is kept when it is not written.
LEMMA RankUnchanged ==
    ASSUME lastChecked' = lastChecked
    PROVE  Checked' = Checked
BY DEF Checked

\* The steps of a check that write nothing but the state of the checks and what bounds them.
CheckStep(c) ==
    \/ Lookup(c) \/ LookupFails(c) \/ UpdateFails(c) \/ (c = Worker /\ CheckNext)
    \/ \E d \in DomainIds : CheckDomainDirect(c, d)

\* A step of a check leaves the rows alone, and what it leaves of a check is one.
LEMMA CheckSteps ==
    ASSUME CustomTypes, NEW c \in Checkers, CheckStep(c)
    PROVE  /\ UNCHANGED <<domain, lastChecked, zone, adding, past>>
           /\ check' \in [Checkers -> CheckStates]
           /\ \A k \in Checkers \ {c} : check'[k] = check[k]
           /\ used' \in [rounds : Nat, changes : Nat, overrides : Nat, mishaps : Nat]
           /\ used'.mishaps >= used.mishaps
           /\ batch' \in Seq(DomainIds)
<1>t. check[c] \in CheckStates /\ used \in [rounds : Nat, changes : Nat, overrides : Nat, mishaps : Nat]
      /\ batch \in Seq(DomainIds)
  BY DEF CustomTypes
<1>u. used.mishaps \in Nat BY <1>t
<1>e. [NoCheck EXCEPT !.done = TRUE] \in CheckStates BY ConstantTypes
<1>b. ASSUME NEW d \in DomainIds
      PROVE  [of |-> d, left |-> Checks, found |-> {}, done |-> FALSE, current |-> TRUE] \in CheckStates
  BY ConstantTypes DEF CheckStates
<1>p. ASSUME NEW s \in CheckStates, check' = [check EXCEPT ![c] = s]
      PROVE  /\ check' \in [Checkers -> CheckStates]
             /\ \A k \in Checkers \ {c} : check'[k] = check[k]
  BY <1>p DEF CustomTypes
<1>1. CASE Lookup(c)
  <2> DEFINE record == Head(check[c].left)
             s == [check[c] EXCEPT !.left = Tail(@), !.found = @ \cup {r \in {record} : Finds(c, r)},
                          !.current = @ /\ (record = DkimCheck => domain[check[c].of].keyed)]
  <2>1. check[c].left \in Seq(Records) /\ check[c].left # <<>> BY <1>1, <1>t DEF Lookup, CheckStates
  <2>2. record \in Records /\ Tail(check[c].left) \in Seq(Records) BY <2>1, TailParts
  <2>3. {r \in {record} : Finds(c, r)} \subseteq Records BY <2>2
  <2>4. (check[c].current /\ (record = DkimCheck => domain[check[c].of].keyed)) \in BOOLEAN
    OBVIOUS
  <2> HIDE DEF record
  <2>5. s \in CheckStates BY <2>2, <2>3, <2>4, <1>t DEF CheckStates
  <2>6. check' = [check EXCEPT ![c] = s] BY <1>1, <1>t DEF Lookup, CheckStates, CustomTypes, record
  <2> HIDE DEF s
  <2>7. check' \in [Checkers -> CheckStates] /\ \A k \in Checkers \ {c} : check'[k] = check[k]
    BY <1>p, <2>5, <2>6
  <2>8. UNCHANGED <<domain, lastChecked, zone, adding, batch, used, past>> BY <1>1 DEF Lookup
  <2> QED BY <1>t, <1>u, <2>7, <2>8
<1>2. CASE LookupFails(c)
  <2> DEFINE s == [check[c] EXCEPT !.left = Tail(@), !.current = FALSE]
  <2>1. check[c].left \in Seq(Records) /\ check[c].left # <<>>
    BY <1>2, <1>t DEF LookupFails, CheckStates
  <2>2. Tail(check[c].left) \in Seq(Records) BY <2>1, TailParts
  <2>3. s \in CheckStates BY <2>2, <1>t DEF CheckStates
  <2>4. check' = [check EXCEPT ![c] = s] BY <1>2, <1>t DEF LookupFails, CheckStates, CustomTypes
  <2>5. /\ used' \in [rounds : Nat, changes : Nat, overrides : Nat, mishaps : Nat]
        /\ used'.mishaps = used.mishaps + 1
    BY <1>2, UsedTypes DEF LookupFails
  <2> HIDE DEF s
  <2>6. check' \in [Checkers -> CheckStates] /\ \A k \in Checkers \ {c} : check'[k] = check[k]
    BY <1>p, <2>3, <2>4
  <2>7. UNCHANGED <<domain, lastChecked, zone, adding, batch, past>> BY <1>2 DEF LookupFails
  <2> QED BY <1>t, <1>u, <2>5, <2>6, <2>7
<1>3. CASE UpdateFails(c)
  <2>5. /\ used' \in [rounds : Nat, changes : Nat, overrides : Nat, mishaps : Nat]
        /\ used'.mishaps = used.mishaps + 1
    BY <1>3, UsedTypes DEF UpdateFails
  <2>6. check' \in [Checkers -> CheckStates] /\ \A k \in Checkers \ {c} : check'[k] = check[k]
    BY <1>3, <1>p, <1>e DEF UpdateFails, EndCheck
  <2>7. UNCHANGED <<domain, lastChecked, zone, adding, batch, past>> BY <1>3 DEF UpdateFails
  <2> QED BY <1>t, <1>u, <2>5, <2>6, <2>7
<1>4. CASE c = Worker /\ CheckNext
  <2>1. Head(batch) \in DomainIds /\ Tail(batch) \in Seq(DomainIds)
    BY <1>4, <1>t, TailParts DEF CheckNext
  <2>2. check' \in [Checkers -> CheckStates] /\ \A k \in Checkers \ {c} : check'[k] = check[k]
    BY <1>4, <1>p, <1>b, <2>1 DEF CheckNext, BeginCheck
  <2>3. UNCHANGED <<domain, lastChecked, zone, adding, used, past>> /\ batch' \in Seq(DomainIds)
    BY <1>4, <2>1 DEF CheckNext
  <2> QED BY <1>t, <1>u, <2>2, <2>3
<1>5. ASSUME NEW d \in DomainIds, CheckDomainDirect(c, d)
      PROVE  /\ UNCHANGED <<domain, lastChecked, zone, adding, past>>
             /\ check' \in [Checkers -> CheckStates]
             /\ \A k \in Checkers \ {c} : check'[k] = check[k]
             /\ used' \in [rounds : Nat, changes : Nat, overrides : Nat, mishaps : Nat]
             /\ used'.mishaps >= used.mishaps
             /\ batch' \in Seq(DomainIds)
  <2>2. check' \in [Checkers -> CheckStates] /\ \A k \in Checkers \ {c} : check'[k] = check[k]
    BY <1>5, <1>p, <1>b DEF CheckDomainDirect, BeginCheck
  <2>3. UNCHANGED <<domain, lastChecked, zone, adding, batch, used, past>>
    BY <1>5 DEF CheckDomainDirect
  <2> QED BY <1>t, <1>u, <2>2, <2>3
<1> QED BY <1>1, <1>2, <1>3, <1>4, <1>5 DEF CheckStep

-----------------------------------------------------------------------------
(* What each step does to a row, to its past and to the checks. *)

\* A row is deleted, by its owner or for want of a key.
RemovesRow(d) ==
    /\ domain' = Deleted(d)
    /\ lastChecked' = Unranked(d)
    /\ past' = [past EXCEPT ![d] = NoPast]
    /\ UNCHANGED <<zone, batch, check>>
    /\ \/ UNCHANGED <<adding, used>>
       \/ /\ adding' = NoId
          /\ used' \in [rounds : Nat, changes : Nat, overrides : Nat, mishaps : Nat]
          /\ used'.mishaps = used.mishaps + 1

\* The steps there are.
LEMMA StepKinds ==
    ASSUME CustomTypes, [CustomNext]_customVars
    PROVE  \/ \E d \in DomainIds :
                CreateDomain(d) \/ RemovesRow(d) \/ AdminOverrideDomainVerify(d)
           \/ \E d \in DomainIds, record \in Records : ZoneChanges(d, record)
           \/ CreateDKIMKey \/ GetPendingDomains \/ Restart
           \/ \E c \in Checkers : CheckStep(c) \/ UpdateDomainVerification(c)
           \/ UNCHANGED customVars
<1>1. ASSUME NEW d \in DomainIds, DeleteDomain(d) PROVE RemovesRow(d)
  BY <1>1 DEF DeleteDomain, RemovesRow
<1>2. ASSUME NoKey PROVE adding \in DomainIds /\ RemovesRow(adding)
  <2>1. adding \in DomainIds BY <1>2 DEF NoKey, CustomTypes
  <2>2. /\ used' \in [rounds : Nat, changes : Nat, overrides : Nat, mishaps : Nat]
        /\ used'.mishaps = used.mishaps + 1
    BY <1>2, UsedTypes DEF NoKey
  <2> QED BY <1>2, <2>1, <2>2 DEF NoKey, RemovesRow
<1>3. ASSUME CheckNext PROVE Worker \in Checkers /\ CheckStep(Worker)
  BY <1>3 DEF CheckStep, Checkers
<1> QED BY <1>1, <1>2, <1>3 DEF CustomNext, CheckStep

\* A row that is added has no key and nothing verified that it had not.
LEMMA Created ==
    ASSUME CustomTypes, NEW d \in DomainIds, CreateDomain(d)
    PROVE  /\ domain' \in [DomainIds -> Rows]
           /\ \A e \in DomainIds \ {d} : domain'[e] = domain[e]
           /\ domain'[d].there /\ domain'[d].ever /\ domain'[d].keyed = domain[d].keyed
           /\ domain'[d].status = domain[d].status /\ domain'[d].flags = domain[d].flags
BY DEF CustomTypes, CreateDomain, Rows

\* A row that is deleted has nothing left.
LEMMA Removed ==
    ASSUME CustomTypes, NEW d \in DomainIds, RemovesRow(d)
    PROVE  /\ domain' \in [DomainIds -> Rows]
           /\ \A e \in DomainIds \ {d} : domain'[e] = domain[e]
           /\ ~domain'[d].there /\ domain'[d].ever /\ ~domain'[d].keyed
           /\ domain'[d].status = "pending" /\ domain'[d].flags = {}
           /\ past' \in [DomainIds -> Pasts]
           /\ \A e \in DomainIds \ {d} : past'[e] = past[e]
           /\ past'[d] = NoPast
           /\ adding' \in DomainIds \cup {NoId}
           /\ used' \in [rounds : Nat, changes : Nat, overrides : Nat, mishaps : Nat]
           /\ used'.mishaps >= used.mishaps /\ (adding' # adding => used'.mishaps > 0)
<1>1. [NoRow EXCEPT !.ever = TRUE] \in Rows /\ NoPast \in Pasts BY ConstantTypes
<1>2. used.mishaps \in Nat BY DEF CustomTypes
<1>3. domain' = [domain EXCEPT ![d] = [NoRow EXCEPT !.ever = TRUE]] BY DEF RemovesRow, Deleted
<1>4. /\ domain' \in [DomainIds -> Rows]
      /\ \A e \in DomainIds \ {d} : domain'[e] = domain[e]
      /\ domain'[d] = [NoRow EXCEPT !.ever = TRUE]
  BY <1>1, <1>3 DEF CustomTypes
<1>5. /\ past' \in [DomainIds -> Pasts]
      /\ \A e \in DomainIds \ {d} : past'[e] = past[e]
      /\ past'[d] = NoPast
  BY <1>1 DEF CustomTypes, RemovesRow
<1>6. /\ adding' \in DomainIds \cup {NoId}
      /\ used' \in [rounds : Nat, changes : Nat, overrides : Nat, mishaps : Nat]
      /\ used'.mishaps >= used.mishaps /\ (adding' # adding => used'.mishaps > 0)
  BY <1>2 DEF CustomTypes, RemovesRow
<1> QED BY <1>4, <1>5, <1>6 DEF NoRow

\* A row that the administrator decides on is verified as a whole.
LEMMA Overridden ==
    ASSUME CustomTypes, NEW d \in DomainIds, AdminOverrideDomainVerify(d)
    PROVE  /\ domain[d].there
           /\ domain' \in [DomainIds -> Rows]
           /\ \A e \in DomainIds \ {d} : domain'[e] = domain[e] /\ past'[e] = past[e]
           /\ domain'[d].there /\ domain'[d].ever = domain[d].ever
           /\ domain'[d].keyed = domain[d].keyed
           /\ domain'[d].status = "verified" /\ domain'[d].flags = Records
           /\ past' \in [DomainIds -> Pasts]
           /\ ~past'[d].exact /\ past'[d].waited = past[d].waited /\ past'[d].stood = past[d].stood
           /\ used' \in [rounds : Nat, changes : Nat, overrides : Nat, mishaps : Nat]
           /\ used'.mishaps = used.mishaps
<1>1. /\ used' \in [rounds : Nat, changes : Nat, overrides : Nat, mishaps : Nat]
      /\ used'.mishaps = used.mishaps
  BY UsedTypes DEF AdminOverrideDomainVerify
<1>2. /\ domain' \in [DomainIds -> Rows]
      /\ \A e \in DomainIds \ {d} : domain'[e] = domain[e]
      /\ domain'[d].there = domain[d].there /\ domain'[d].ever = domain[d].ever
      /\ domain'[d].keyed = domain[d].keyed
      /\ domain'[d].status = "verified" /\ domain'[d].flags = Records
  BY DEF CustomTypes, AdminOverrideDomainVerify, Rows
<1>3. /\ past' \in [DomainIds -> Pasts]
      /\ \A e \in DomainIds \ {d} : past'[e] = past[e]
      /\ ~past'[d].exact /\ past'[d].waited = past[d].waited /\ past'[d].stood = past[d].stood
  BY DEF CustomTypes, AdminOverrideDomainVerify, Pasts
<1>4. domain[d].there BY DEF AdminOverrideDomainVerify
<1> QED BY <1>1, <1>2, <1>3, <1>4

\* A key is stored for the row that is added, if it is there.
LEMMA KeyStored ==
    ASSUME CustomTypes, CreateDKIMKey
    PROVE  /\ adding \in DomainIds /\ adding' = NoId
           /\ domain' \in [DomainIds -> Rows]
           /\ \A e \in DomainIds \ {adding} : domain'[e] = domain[e]
           /\ domain'[adding].keyed = (domain[adding].keyed \/ domain[adding].there)
           /\ domain'[adding].there = domain[adding].there /\ domain'[adding].ever = domain[adding].ever
           /\ domain'[adding].status = domain[adding].status
           /\ domain'[adding].flags = domain[adding].flags
<1>1. adding \in DomainIds /\ domain[adding] \in Rows /\ domain \in [DomainIds -> Rows]
  BY DEF CustomTypes, CreateDKIMKey
<1>2. (domain[adding].keyed \/ domain[adding].there) \in BOOLEAN BY <1>1
<1> QED BY <1>1, <1>2 DEF CreateDKIMKey, Rows

\* What a check writes to a row that is there, and to no other one.
Writes(c, d) ==
    /\ domain' \in [DomainIds -> Rows]
    /\ \A e \in DomainIds \ {d} : domain'[e] = domain[e] /\ past'[e] = past[e]
    /\ domain'[d].there /\ domain'[d].ever = domain[d].ever
    /\ domain'[d].keyed = domain[d].keyed
    /\ domain'[d].status = Status(check[c].found) /\ domain'[d].flags = check[c].found
    /\ past' \in [DomainIds -> Pasts]
    /\ past'[d].exact = check[c].current /\ past'[d].waited = 0
    /\ past'[d].stood = (past[d].stood /\ check[c].found = Records)
    /\ lastChecked' = Stamped(d)

\* A check ends, and writes what it found when the row is there.
LEMMA Written ==
    ASSUME CustomTypes, NEW c \in Checkers, UpdateDomainVerification(c)
    PROVE  /\ check[c].of \in DomainIds /\ check[c].left = <<>>
           /\ check' \in [Checkers -> CheckStates]
           /\ check'[c] = [NoCheck EXCEPT !.done = TRUE]
           /\ \A k \in Checkers \ {c} : check'[k] = check[k]
           /\ UNCHANGED <<zone, adding, batch, used>>
           /\ \/ domain[check[c].of].there /\ Writes(c, check[c].of)
              \/ ~domain[check[c].of].there /\ UNCHANGED <<domain, lastChecked, past>>
<1> DEFINE d == check[c].of
           s == [NoCheck EXCEPT !.done = TRUE]
<1>1. check[c] \in CheckStates /\ d \in DomainIds /\ check[c].left = <<>>
  BY DEF CustomTypes, UpdateDomainVerification, CheckStates
<1>2. s \in CheckStates /\ check' = [check EXCEPT ![c] = s]
  BY ConstantTypes DEF UpdateDomainVerification, EndCheck
<1>3. /\ check' \in [Checkers -> CheckStates]
      /\ check'[c] = s
      /\ \A k \in Checkers \ {c} : check'[k] = check[k]
  BY <1>2 DEF CustomTypes
<1>4. UNCHANGED <<zone, adding, batch, used>> BY DEF UpdateDomainVerification
<1>5. CASE domain[d].there
  <2>1. Status(check[c].found) \in {"pending", "verifying", "verified"} BY DEF Status
  <2>2. check[c].found \in SUBSET Records /\ check[c].current \in BOOLEAN BY <1>1 DEF CheckStates
  <2>3. /\ domain' = [domain EXCEPT ![d].flags = check[c].found,
                                    ![d].status = Status(check[c].found)]
        /\ lastChecked' = Stamped(d)
        /\ past' = [past EXCEPT ![d] =
                  [exact |-> check[c].current, waited |-> 0,
                   stood |-> past[d].stood /\ check[c].found = Records]]
    BY <1>5 DEF UpdateDomainVerification
  <2> HIDE DEF d
  <2>4. /\ domain' \in [DomainIds -> Rows]
        /\ \A e \in DomainIds \ {d} : domain'[e] = domain[e]
        /\ domain'[d].there = domain[d].there /\ domain'[d].ever = domain[d].ever
        /\ domain'[d].keyed = domain[d].keyed
        /\ domain'[d].status = Status(check[c].found) /\ domain'[d].flags = check[c].found
    BY <1>1, <2>1, <2>2, <2>3 DEF CustomTypes, Rows
  <2>5. (past[d].stood /\ check[c].found = Records) \in BOOLEAN OBVIOUS
  <2>6. /\ past' \in [DomainIds -> Pasts]
        /\ \A e \in DomainIds \ {d} : past'[e] = past[e]
        /\ past'[d].exact = check[c].current /\ past'[d].waited = 0
        /\ past'[d].stood = (past[d].stood /\ check[c].found = Records)
    BY <1>1, <2>2, <2>3, <2>5 DEF CustomTypes, Pasts
  <2>7. Writes(c, d) BY <1>5, <2>3, <2>4, <2>6 DEF Writes
  <2> QED BY <1>1, <1>3, <1>4, <1>5, <2>7 DEF d
<1>6. CASE ~domain[d].there
  <2>1. UNCHANGED <<domain, lastChecked, past>> BY <1>6 DEF UpdateDomainVerification
  <2> QED BY <1>1, <1>3, <1>4, <1>6, <2>1
<1> QED BY <1>5, <1>6

\* A batch is selected: the pending domains that are left out wait once more.
LEMMA Selected ==
    ASSUME CustomTypes, GetPendingDomains
    PROVE  /\ batch = <<>> /\ check[Worker].of = NoId
           /\ batch' \in Batches
           /\ past' \in [DomainIds -> Pasts]
           /\ \A d \in DomainIds :
                /\ past'[d].exact = past[d].exact
                /\ past'[d].waited = IF d \in Pending \ ToSet(batch') THEN past[d].waited + 1
                                     ELSE past[d].waited
                /\ past'[d].stood = (domain[d].there /\ domain[d].status = "verified")
           /\ used' \in [rounds : Nat, changes : Nat, overrides : Nat, mishaps : Nat]
           /\ used'.mishaps = used.mishaps
           /\ UNCHANGED <<domain, lastChecked, zone, adding, check>>
<1>1. /\ used' \in [rounds : Nat, changes : Nat, overrides : Nat, mishaps : Nat]
      /\ used'.mishaps = used.mishaps
  BY UsedTypes DEF GetPendingDomains
<1>2. past' = [d \in DomainIds |->
          [past[d] EXCEPT
             !.waited = IF d \in Pending \ ToSet(batch') THEN @ + 1 ELSE @,
             !.stood = domain[d].there /\ domain[d].status = "verified"]]
  BY DEF GetPendingDomains
<1>3. ASSUME NEW d \in DomainIds
      PROVE  /\ past'[d] \in Pasts
             /\ past'[d].exact = past[d].exact
             /\ past'[d].waited = IF d \in Pending \ ToSet(batch') THEN past[d].waited + 1
                                  ELSE past[d].waited
             /\ past'[d].stood = (domain[d].there /\ domain[d].status = "verified")
  <2> DEFINE w == IF d \in Pending \ ToSet(batch') THEN past[d].waited + 1 ELSE past[d].waited
             b == domain[d].there /\ domain[d].status = "verified"
  <2>1. past[d] \in Pasts /\ past[d].waited \in Nat BY DEF CustomTypes, Pasts
  <2>2. w \in Nat /\ b \in BOOLEAN BY <2>1
  <2>3. past'[d] = [past[d] EXCEPT !.waited = w, !.stood = b] BY <1>2, <2>1 DEF Pasts
  <2> HIDE DEF w, b
  <2>4. past'[d] \in Pasts /\ past'[d].exact = past[d].exact /\ past'[d].waited = w /\ past'[d].stood = b
    BY <2>1, <2>2, <2>3 DEF Pasts
  <2> QED BY <2>4 DEF w, b
<1>4. past' \in [DomainIds -> Pasts] BY <1>2, <1>3
<1>5. /\ batch = <<>> /\ check[Worker].of = NoId /\ batch' \in Batches
      /\ UNCHANGED <<domain, lastChecked, zone, adding, check>>
  BY DEF GetPendingDomains
<1> QED BY <1>1, <1>3, <1>4, <1>5

\* A record of a zone changes: what says that it was looked up lately says so no more.
LEMMA Zoned ==
    ASSUME CustomTypes, NEW d \in DomainIds, NEW record \in Records, ZoneChanges(d, record)
    PROVE  /\ zone' \in [DomainIds -> SUBSET Records]
           /\ \A e \in DomainIds \ {d} : zone'[e] = zone[e] /\ past'[e] = past[e]
           /\ past' \in [DomainIds -> Pasts]
           /\ ~past'[d].exact /\ past'[d].waited = past[d].waited /\ past'[d].stood = past[d].stood
           /\ check' \in [Checkers -> CheckStates]
           /\ \A c \in Checkers :
                /\ check'[c].of = check[c].of /\ check'[c].left = check[c].left
                /\ check'[c].found = check[c].found
                /\ check'[c].current = (check[c].current /\ check[c].of # d)
           /\ used' \in [rounds : Nat, changes : Nat, overrides : Nat, mishaps : Nat]
           /\ used'.mishaps = used.mishaps
           /\ UNCHANGED <<domain, lastChecked, adding, batch>>
<1>1. /\ used' \in [rounds : Nat, changes : Nat, overrides : Nat, mishaps : Nat]
      /\ used'.mishaps = used.mishaps
  BY UsedTypes DEF ZoneChanges
<1>2. zone' \in [DomainIds -> SUBSET Records] /\ \A e \in DomainIds \ {d} : zone'[e] = zone[e]
  <2> DEFINE z == IF record \in zone[d] THEN zone[d] \ {record} ELSE zone[d] \cup {record}
  <2>1. zone' = [zone EXCEPT ![d] = z] BY DEF ZoneChanges
  <2>2. z \in SUBSET Records BY DEF CustomTypes
  <2> HIDE DEF z
  <2> QED BY <2>1, <2>2 DEF CustomTypes
<1>3. /\ past' \in [DomainIds -> Pasts]
      /\ \A e \in DomainIds \ {d} : past'[e] = past[e]
      /\ ~past'[d].exact /\ past'[d].waited = past[d].waited /\ past'[d].stood = past[d].stood
  BY DEF CustomTypes, ZoneChanges, Pasts
<1>4. check' = [c \in Checkers |-> [check[c] EXCEPT !.current = @ /\ check[c].of # d]]
  BY DEF ZoneChanges
<1>5. ASSUME NEW c \in Checkers
      PROVE  /\ check'[c] \in CheckStates
             /\ check'[c].of = check[c].of /\ check'[c].left = check[c].left
             /\ check'[c].found = check[c].found
             /\ check'[c].current = (check[c].current /\ check[c].of # d)
  <2> DEFINE b == check[c].current /\ check[c].of # d
  <2>1. check[c] \in CheckStates /\ b \in BOOLEAN BY DEF CustomTypes
  <2>2. check'[c] = [check[c] EXCEPT !.current = b] BY <1>4, <2>1 DEF CheckStates
  <2> HIDE DEF b
  <2>3. /\ check'[c] \in CheckStates
        /\ check'[c].of = check[c].of /\ check'[c].left = check[c].left
        /\ check'[c].found = check[c].found /\ check'[c].current = b
    BY <2>1, <2>2 DEF CheckStates
  <2> QED BY <2>3 DEF b
<1>6. check' \in [Checkers -> CheckStates] BY <1>4, <1>5
<1>7. UNCHANGED <<domain, lastChecked, adding, batch>> BY DEF ZoneChanges
<1> QED BY <1>1, <1>2, <1>3, <1>5, <1>6, <1>7

\* The process stops: no check, no batch and no addition is under way.
LEMMA Restarted ==
    ASSUME CustomTypes, Restart
    PROVE  /\ check' \in [Checkers -> CheckStates]
           /\ \A c \in Checkers :
                check'[c] = IF check[c].of = NoId THEN check[c] ELSE [NoCheck EXCEPT !.done = TRUE]
           /\ used' \in [rounds : Nat, changes : Nat, overrides : Nat, mishaps : Nat]
           /\ used'.mishaps = used.mishaps + 1
           /\ batch' = <<>> /\ adding' = NoId
           /\ UNCHANGED <<domain, lastChecked, zone, past>>
<1>1. /\ used' \in [rounds : Nat, changes : Nat, overrides : Nat, mishaps : Nat]
      /\ used'.mishaps = used.mishaps + 1
  BY UsedTypes DEF Restart
<1>2. [NoCheck EXCEPT !.done = TRUE] \in CheckStates BY ConstantTypes
<1>3. check' \in [Checkers -> CheckStates] BY <1>2 DEF CustomTypes, Restart
<1> QED BY <1>1, <1>3 DEF Restart

LEMMA TypesKept ==
    ASSUME CustomTypes, [CustomNext]_customVars
    PROVE  CustomTypes'
<1>1. ASSUME NEW d \in DomainIds, CreateDomain(d) PROVE CustomTypes'
  BY <1>1, Created, RankUnchanged DEF CreateDomain, CustomTypes
<1>2. ASSUME NEW d \in DomainIds, RemovesRow(d) PROVE CustomTypes'
  <2>1. lastChecked' = Unranked(d) /\ UNCHANGED <<zone, batch, check>> BY <1>2 DEF RemovesRow
  <2> QED BY <1>2, <2>1, Removed, Unranks DEF CustomTypes
<1>3. ASSUME NEW d \in DomainIds, AdminOverrideDomainVerify(d) PROVE CustomTypes'
  BY <1>3, Overridden, RankUnchanged DEF AdminOverrideDomainVerify, CustomTypes
<1>4. ASSUME NEW d \in DomainIds, NEW record \in Records, ZoneChanges(d, record) PROVE CustomTypes'
  BY <1>4, Zoned, RankUnchanged DEF CustomTypes
<1>5. CASE CreateDKIMKey BY <1>5, KeyStored, RankUnchanged DEF CreateDKIMKey, CustomTypes
<1>6. CASE GetPendingDomains
  <2>1. batch' \in Seq(DomainIds) BY <1>6, Selected, BatchIsSequence
  <2> QED BY <1>6, <2>1, Selected, RankUnchanged DEF CustomTypes
<1>7. CASE Restart
  <2>1. batch' \in Seq(DomainIds) BY <1>7, Restarted
  <2> QED BY <1>7, <2>1, Restarted, RankUnchanged DEF CustomTypes
<1>8. ASSUME NEW c \in Checkers, CheckStep(c) PROVE CustomTypes'
  BY <1>8, CheckSteps, RankUnchanged DEF CustomTypes
<1>9. ASSUME NEW c \in Checkers, UpdateDomainVerification(c) PROVE CustomTypes'
  <2>1. CASE Writes(c, check[c].of)
    <3>1. lastChecked' \subseteq Checked' \X Checked' BY <1>9, <2>1, Written, Stamps DEF Writes
    <3> QED BY <1>9, <2>1, <3>1, Written DEF Writes, CustomTypes
  <2>2. CASE UNCHANGED <<domain, lastChecked, past>>
    BY <1>9, <2>2, Written, RankUnchanged DEF CustomTypes
  <2> QED BY <1>9, <2>1, <2>2, Written
<1>10. CASE UNCHANGED customVars BY <1>10, RankUnchanged DEF customVars, CustomTypes
<1> QED BY <1>1, <1>2, <1>3, <1>4, <1>5, <1>6, <1>7, <1>8, <1>9, <1>10, StepKinds

-----------------------------------------------------------------------------
(* The rows, their order, and what the checks know. *)

\* What a step of a check does to the domain that it is about, and to the batch.
LEMMA CheckOf ==
    ASSUME CustomTypes, NEW c \in Checkers, CheckStep(c)
    PROVE  \/ check'[c].of = check[c].of /\ batch' = batch
           \/ /\ check'[c].of = NoId /\ batch' = batch
              /\ used'.mishaps = used.mishaps + 1
           \/ /\ c = Worker /\ check[c].of = NoId /\ batch # <<>>
              /\ check'[c].of = Head(batch) /\ batch' = Tail(batch)
           \/ /\ c # Worker /\ batch' = batch
              /\ check'[c].of \in DomainIds /\ domain[check'[c].of].there
<1>t. check[c] \in CheckStates /\ check \in [Checkers -> CheckStates] BY DEF CustomTypes
<1>1. CASE Lookup(c) BY <1>1, <1>t DEF Lookup, CheckStates
<1>2. CASE LookupFails(c) BY <1>2, <1>t DEF LookupFails, CheckStates
<1>3. CASE UpdateFails(c)
  <2>1. used'.mishaps = used.mishaps + 1 BY <1>3, UsedTypes DEF UpdateFails
  <2>2. check' = [check EXCEPT ![c] = [NoCheck EXCEPT !.done = TRUE]] /\ batch' = batch
    BY <1>3 DEF UpdateFails, EndCheck
  <2>3. check'[c] = [NoCheck EXCEPT !.done = TRUE] BY <1>t, <2>2
  <2>4. check'[c].of = NoId BY <2>3 DEF NoCheck
  <2> QED BY <2>1, <2>2, <2>4
<1>4. CASE c = Worker /\ CheckNext
  <2>1. check' = [check EXCEPT ![c] = [of |-> Head(batch), left |-> Checks, found |-> {},
                                       done |-> FALSE, current |-> TRUE]]
    BY <1>4 DEF CheckNext, BeginCheck
  <2>2. check'[c].of = Head(batch) BY <1>t, <2>1
  <2> QED BY <1>4, <2>2 DEF CheckNext
<1>5. ASSUME NEW d \in DomainIds, CheckDomainDirect(c, d)
      PROVE  /\ c # Worker /\ batch' = batch
             /\ check'[c].of \in DomainIds /\ domain[check'[c].of].there
  <2>1. check' = [check EXCEPT ![c] = [of |-> d, left |-> Checks, found |-> {},
                                       done |-> FALSE, current |-> TRUE]]
    BY <1>5 DEF CheckDomainDirect, BeginCheck
  <2>2. check'[c].of = d BY <1>t, <2>1
  <2> QED BY <1>5, <2>2 DEF CheckDomainDirect
<1> QED BY <1>1, <1>2, <1>3, <1>4, <1>5 DEF CheckStep

\* The rows of all other domains stay what they are.
LEMMA RowsOfOthers ==
    ASSUME TablesOK, CustomTypes, NEW d \in DomainIds,
           \A e \in DomainIds \ {d} : domain'[e] = domain[e] /\ (past'[e] = past[e] \/ domain[e].there),
           Checked' \ {d} = Checked \ {d},
           domain[d].ever => domain'[d].ever,
           domain'[d].there => domain'[d].ever,
           ~domain'[d].there =>
              /\ ~domain'[d].keyed /\ domain'[d].status = "pending" /\ domain'[d].flags = {}
              /\ past'[d] = NoPast /\ d \notin Checked',
           check' \in [Checkers -> CheckStates],
           \A c \in Checkers : \/ check'[c].of = check[c].of \/ check'[c].of = NoId
                               \/ domain[check'[c].of].ever,
           ToSet(batch') \subseteq ToSet(batch)
    PROVE  TablesOK'
<1>t. /\ \A c \in Checkers : check[c].of \in DomainIds \cup {NoId} /\ check'[c].of \in DomainIds \cup {NoId}
      /\ ToSet(batch) \subseteq DomainIds
  BY DEF CustomTypes, CheckStates, ToSet
<1>1. \A e \in DomainIds : domain[e].ever => domain'[e].ever OBVIOUS
<1>2. ASSUME NEW e \in DomainIds
      PROVE  /\ domain'[e].there => domain'[e].ever
             /\ ~domain'[e].there =>
                  /\ ~domain'[e].keyed /\ domain'[e].status = "pending" /\ domain'[e].flags = {}
                  /\ past'[e] = NoPast /\ e \notin Checked'
  BY DEF TablesOK
<1>3. ASSUME NEW c \in Checkers, check'[c].of # NoId PROVE domain'[check'[c].of].ever
  BY <1>1, <1>3, <1>t DEF TablesOK
<1>4. \A e \in ToSet(batch') : domain'[e].ever BY <1>1, <1>t DEF TablesOK
<1> QED BY <1>2, <1>3, <1>4 DEF TablesOK

LEMMA RowsKept ==
    ASSUME CustomTypes, TablesOK, [CustomNext]_customVars
    PROVE  TablesOK'
<1>c. \A c \in Checkers : check[c].of \in DomainIds \cup {NoId} BY DEF CustomTypes, CheckStates
<1>d. \A d \in DomainIds : domain[d].there => domain[d].ever BY DEF TablesOK
<1>1. ASSUME NEW d \in DomainIds, CreateDomain(d) PROVE TablesOK'
  <2>1. UNCHANGED <<lastChecked, batch, check, past>> BY <1>1 DEF CreateDomain
  <2> QED BY <1>1, <2>1, Created, RankUnchanged, RowsOfOthers DEF CustomTypes
<1>2. ASSUME NEW d \in DomainIds, RemovesRow(d) PROVE TablesOK'
  <2>1. lastChecked' = Unranked(d) /\ UNCHANGED <<zone, batch, check>> BY <1>2 DEF RemovesRow
  <2>2. Checked' = Checked \ {d} BY <2>1, Unranks
  <2> QED BY <1>2, <2>1, <2>2, Removed, RowsOfOthers DEF CustomTypes
<1>3. ASSUME NEW d \in DomainIds, AdminOverrideDomainVerify(d) PROVE TablesOK'
  <2>1. UNCHANGED <<lastChecked, batch, check>> BY <1>3 DEF AdminOverrideDomainVerify
  <2> QED BY <1>3, <1>d, <2>1, Overridden, RankUnchanged, RowsOfOthers DEF CustomTypes
<1>4. ASSUME NEW d \in DomainIds, NEW record \in Records, ZoneChanges(d, record) PROVE TablesOK'
  <2>1. \A e \in DomainIds : past'[e] = NoPast \/ past[e] # NoPast
    <3>1. ASSUME past[d] = NoPast PROVE past'[d] = NoPast
      <4>1. past'[d] \in Pasts BY <1>4, Zoned
      <4>2. ~past'[d].exact /\ past'[d].waited = 0 /\ ~past'[d].stood
        BY <1>4, <3>1, Zoned DEF NoPast
      <4> QED BY <4>1, <4>2 DEF NoPast, Pasts
    <3> QED BY <1>4, <3>1, Zoned
  <2> QED BY <1>4, <1>c, <2>1, Zoned, RankUnchanged DEF TablesOK
<1>5. CASE CreateDKIMKey
  <2>1. UNCHANGED <<lastChecked, batch, check, past>> BY <1>5 DEF CreateDKIMKey
  <2>2. Checked' = Checked BY <2>1, RankUnchanged
  <2>3. adding \in DomainIds /\ check' \in [Checkers -> CheckStates]
    BY <1>5, <2>1, KeyStored DEF CustomTypes
  <2>4. \A e \in DomainIds \ {adding} : domain'[e] = domain[e] BY <1>5, KeyStored
  <2>5. /\ domain'[adding].there = domain[adding].there
        /\ domain'[adding].ever = domain[adding].ever
        /\ domain'[adding].keyed = (domain[adding].keyed \/ domain[adding].there)
        /\ domain'[adding].status = domain[adding].status
        /\ domain'[adding].flags = domain[adding].flags
    BY <1>5, KeyStored
  <2>6. ~domain[adding].there =>
           /\ ~domain[adding].keyed /\ domain[adding].status = "pending"
           /\ domain[adding].flags = {} /\ past[adding] = NoPast /\ adding \notin Checked
    BY <2>3 DEF TablesOK
  <2> QED BY <1>d, <2>1, <2>2, <2>3, <2>4, <2>5, <2>6, RowsOfOthers
<1>6. CASE GetPendingDomains
  <2>1. \A d \in ToSet(batch') : d \in DomainIds /\ domain[d].there
    BY <1>6, Selected, BatchIsSequence DEF Pending
  <2>2. ASSUME NEW d \in DomainIds, ~domain[d].there PROVE past'[d] = NoPast
    <3>1. past'[d] \in Pasts /\ past[d] = NoPast /\ d \notin Pending
      <4>1. past'[d] \in Pasts BY <1>6, Selected
      <4>2. past[d] = NoPast BY <2>2 DEF TablesOK
      <4>3. d \notin Pending BY <2>2 DEF Pending
      <4> QED BY <4>1, <4>2, <4>3
    <3>2. ~past'[d].exact /\ past'[d].waited = 0 /\ ~past'[d].stood
      <4>1. /\ past'[d].exact = past[d].exact
            /\ past'[d].waited = IF d \in Pending \ ToSet(batch') THEN past[d].waited + 1
                                 ELSE past[d].waited
            /\ past'[d].stood = (domain[d].there /\ domain[d].status = "verified")
        BY <1>6, Selected
      <4>2. past[d].exact = FALSE /\ past[d].waited = 0 BY <3>1 DEF NoPast
      <4>3. past'[d].exact = FALSE /\ past'[d].waited = 0 BY <3>1, <4>1, <4>2
      <4>4. past'[d].stood = FALSE BY <2>2, <4>1
      <4> QED BY <4>3, <4>4
    <3> QED BY <3>1, <3>2 DEF Pasts, NoPast
  <2>3. UNCHANGED <<domain, lastChecked, check>> BY <1>6, Selected
  <2> QED BY <2>1, <2>2, <2>3, <1>c, <1>d, RankUnchanged DEF TablesOK
<1>7. CASE Restart
  <2>1. \A c \in Checkers : check'[c].of = NoId BY <1>7, Restarted DEF NoCheck
  <2>2. batch' = <<>> /\ UNCHANGED <<domain, lastChecked, past>> BY <1>7, Restarted
  <2>3. ToSet(batch') = {} BY <2>2 DEF ToSet
  <2>4. Checked' = Checked BY <2>2, RankUnchanged
  <2> QED BY <2>1, <2>2, <2>3, <2>4 DEF TablesOK
<1>8. ASSUME NEW c \in Checkers, CheckStep(c) PROVE TablesOK'
  <2>1. UNCHANGED <<domain, lastChecked, past>> /\ \A k \in Checkers \ {c} : check'[k] = check[k]
    BY <1>8, CheckSteps
  <2>2. Checked' = Checked BY <2>1, RankUnchanged
  <2>3. ASSUME batch # <<>> PROVE Head(batch) \in ToSet(batch) /\ ToSet(Tail(batch)) \subseteq ToSet(batch)
    BY <2>3, TailParts DEF CustomTypes
  <2>4. ToSet(batch') \subseteq ToSet(batch) BY <1>8, <2>3, CheckOf
  <2>5. check'[c].of # NoId => domain[check'[c].of].ever BY <1>8, <1>d, <2>3, CheckOf DEF TablesOK
  <2> QED BY <2>1, <2>2, <2>4, <2>5 DEF TablesOK
<1>9. ASSUME NEW c \in Checkers, UpdateDomainVerification(c) PROVE TablesOK'
  <2>1. /\ check' \in [Checkers -> CheckStates] /\ batch' = batch
        /\ \A k \in Checkers : check'[k].of = check[k].of \/ check'[k].of = NoId
    BY <1>9, Written DEF NoCheck
  <2>2. CASE domain[check[c].of].there /\ Writes(c, check[c].of)
    <3>1. check[c].of \in DomainIds /\ Checked' = Checked \cup {check[c].of}
      BY <1>9, <2>2, Written, Stamps DEF Writes
    <3> QED BY <2>1, <2>2, <3>1, <1>d, RowsOfOthers DEF Writes
  <2>3. CASE UNCHANGED <<domain, lastChecked, past>>
    <3>1. Checked' = Checked BY <2>3, RankUnchanged
    <3> QED BY <2>1, <2>3, <3>1 DEF TablesOK
  <2> QED BY <1>9, <2>2, <2>3, Written
<1>10. CASE UNCHANGED customVars BY <1>10, RankUnchanged DEF customVars, TablesOK
<1> QED BY <1>1, <1>2, <1>3, <1>4, <1>5, <1>6, <1>7, <1>8, <1>9, <1>10, StepKinds

LEMMA OrderKept ==
    ASSUME CustomTypes, OrderOK, [CustomNext]_customVars
    PROVE  OrderOK'
<1>1. ASSUME lastChecked' = lastChecked PROVE OrderOK'
  <2>1. Checked' = Checked BY <1>1, RankUnchanged
  <2> QED BY <1>1, <2>1 DEF OrderOK
<1>2. ASSUME NEW d \in DomainIds, lastChecked' = Unranked(d) PROVE OrderOK'
  <2>1. Checked \subseteq DomainIds BY DEF Checked
  <2> QED BY <1>2, <2>1, Unranks DEF OrderOK
<1>3. ASSUME NEW d \in DomainIds, lastChecked' = Stamped(d) PROVE OrderOK'
  <2>1. Checked \subseteq DomainIds BY DEF Checked
  <2>2. ASSUME NEW e \in Checked', NEW f \in Checked', e # f
        PROVE  <<e, f>> \in lastChecked' <=> <<f, e>> \notin lastChecked'
    <3>1. CASE e = d BY <1>3, <2>1, <2>2, <3>1, Stamps
    <3>2. CASE f = d BY <1>3, <2>1, <2>2, <3>2, Stamps
    <3>3. CASE e # d /\ f # d BY <1>3, <2>1, <2>2, <3>3, Stamps DEF OrderOK
    <3> QED BY <3>1, <3>2, <3>3
  <2> QED BY <2>2 DEF OrderOK
<1>4. \/ lastChecked' = lastChecked
      \/ \E d \in DomainIds : lastChecked' = Unranked(d) \/ lastChecked' = Stamped(d)
  <2>1. ASSUME NEW d \in DomainIds, CreateDomain(d) \/ AdminOverrideDomainVerify(d)
        PROVE  lastChecked' = lastChecked
    BY <2>1 DEF CreateDomain, AdminOverrideDomainVerify
  <2>2. ASSUME NEW d \in DomainIds, RemovesRow(d) PROVE lastChecked' = Unranked(d)
    BY <2>2 DEF RemovesRow
  <2>3. ASSUME NEW d \in DomainIds, NEW record \in Records, ZoneChanges(d, record)
        PROVE  lastChecked' = lastChecked
    BY <2>3 DEF ZoneChanges
  <2>4. ASSUME CreateDKIMKey \/ GetPendingDomains \/ Restart \/ UNCHANGED customVars
        PROVE  lastChecked' = lastChecked
    BY <2>4 DEF CreateDKIMKey, GetPendingDomains, Restart, customVars
  <2>5. ASSUME NEW c \in Checkers, CheckStep(c) PROVE lastChecked' = lastChecked BY <2>5, CheckSteps
  <2>6. ASSUME NEW c \in Checkers, UpdateDomainVerification(c)
        PROVE  check[c].of \in DomainIds /\
               (lastChecked' = lastChecked \/ lastChecked' = Stamped(check[c].of))
    BY <2>6, Written DEF Writes
  <2> QED BY <2>1, <2>2, <2>3, <2>4, <2>5, <2>6, StepKinds
<1> QED BY <1>1, <1>2, <1>3, <1>4

\* What FoundSoFar says of one check.
FoundSoFarBy(c) ==
    /\ check[c].of = NoId => check[c].left = <<>>
    /\ check[c].of # NoId /\ check[c].current =>
         /\ zone[check[c].of] \ ToSet(check[c].left) \subseteq check[c].found
         /\ check[c].found \subseteq zone[check[c].of]

\* A check that begins has found nothing and has every record left.
LEMMA FoundAtFirst ==
    ASSUME CustomTypes, NEW c \in Checkers, NEW d \in DomainIds,
           check' = BeginCheck(c, d), zone' = zone
    PROVE  FoundSoFarBy(c)'
<1>1. check'[c] = [of |-> d, left |-> Checks, found |-> {}, done |-> FALSE, current |-> TRUE]
  BY DEF CustomTypes, BeginCheck
<1>2. zone[d] \subseteq ToSet(Checks) BY DEF CustomTypes, Records
<1>3. d # NoId BY CustomDomainsAssumption
<1> QED BY <1>1, <1>2, <1>3 DEF FoundSoFarBy

LEMMA FoundKept ==
    ASSUME CustomTypes, FoundSoFar, [CustomNext]_customVars
    PROVE  FoundSoFar'
<1>f. /\ FoundSoFar <=> \A c \in Checkers : FoundSoFarBy(c)
      /\ FoundSoFar' <=> \A c \in Checkers : FoundSoFarBy(c)'
  BY DEF FoundSoFar, FoundSoFarBy
<1>0. ASSUME NEW c \in Checkers, check'[c] = check[c], zone' = zone PROVE FoundSoFarBy(c)'
  BY <1>0, <1>f DEF FoundSoFarBy
<1>e. ASSUME NEW c \in Checkers, check'[c] = [NoCheck EXCEPT !.done = TRUE] PROVE FoundSoFarBy(c)'
  <2>1. check'[c].of = NoId /\ check'[c].left = <<>> BY <1>e DEF NoCheck
  <2> QED BY <2>1 DEF FoundSoFarBy
<1>1. ASSUME NEW d \in DomainIds, CreateDomain(d) \/ RemovesRow(d) \/ AdminOverrideDomainVerify(d)
      PROVE  FoundSoFar'
  <2>1. UNCHANGED <<check, zone>> BY <1>1 DEF CreateDomain, RemovesRow, AdminOverrideDomainVerify
  <2> QED BY <2>1, <1>0, <1>f
<1>2. ASSUME NEW d \in DomainIds, NEW record \in Records, ZoneChanges(d, record)
      PROVE  FoundSoFar'
  <2>1. ASSUME NEW c \in Checkers PROVE FoundSoFarBy(c)'
    <3>1. /\ check'[c].of = check[c].of /\ check'[c].left = check[c].left
          /\ check'[c].found = check[c].found
          /\ check'[c].current = (check[c].current /\ check[c].of # d)
          /\ check[c].of \in DomainIds \cup {NoId}
          /\ \A e \in DomainIds \ {d} : zone'[e] = zone[e]
      BY <1>2, Zoned DEF CustomTypes, CheckStates
    <3>2. FoundSoFarBy(c) BY <1>f
    <3> QED BY <3>1, <3>2 DEF FoundSoFarBy
  <2> QED BY <2>1, <1>f
<1>3. CASE CreateDKIMKey \/ GetPendingDomains \/ UNCHANGED customVars
  <2>1. UNCHANGED <<check, zone>> BY <1>3 DEF CreateDKIMKey, GetPendingDomains, customVars
  <2> QED BY <2>1, <1>0, <1>f
<1>4. CASE Restart BY <1>4, <1>0, <1>e, <1>f, Restarted
<1>5. ASSUME NEW c \in Checkers, CheckStep(c) PROVE FoundSoFar'
  <2>1. zone' = zone /\ \A k \in Checkers \ {c} : check'[k] = check[k] BY <1>5, CheckSteps
  <2>2. check[c] \in CheckStates /\ check \in [Checkers -> CheckStates] BY DEF CustomTypes
  <2>3. CASE Lookup(c)
    <3> DEFINE record == Head(check[c].left)
               more == {r \in {record} : Finds(c, r)}
    <3>1. check[c].left \in Seq(Records) /\ check[c].left # <<>>
      BY <2>2, <2>3 DEF Lookup, CheckStates
    <3>2. ToSet(check[c].left) = {record} \cup ToSet(Tail(check[c].left)) BY <3>1, TailParts
    <3>3. /\ check'[c].of = check[c].of /\ check'[c].left = Tail(check[c].left)
          /\ check'[c].found = check[c].found \cup more
          /\ check'[c].current = (check[c].current /\ (record = DkimCheck => domain[check[c].of].keyed))
      BY <2>2, <2>3 DEF Lookup, CheckStates
    <3>4. FoundSoFarBy(c) /\ check[c].of # NoId BY <1>f, <3>1 DEF FoundSoFarBy
    <3>5. ASSUME check'[c].current
          PROVE  check[c].current /\ more = {record} \cap zone[check[c].of]
      BY <3>3, <3>5 DEF Finds
    <3> HIDE DEF record, more
    <3>6. FoundSoFarBy(c)' BY <2>1, <3>2, <3>3, <3>4, <3>5 DEF FoundSoFarBy
    <3> QED BY <1>0, <1>f, <2>1, <3>6
  <2>4. CASE LookupFails(c)
    <3>1. check[c].left # <<>> BY <2>4 DEF LookupFails
    <3>2. /\ check'[c].of = check[c].of
          /\ check'[c].current = FALSE
      BY <2>2, <2>4 DEF LookupFails, CheckStates
    <3>3. check[c].of # NoId BY <1>f, <3>1 DEF FoundSoFarBy
    <3>4. FoundSoFarBy(c)' BY <3>2, <3>3 DEF FoundSoFarBy
    <3> QED BY <1>0, <1>f, <2>1, <3>4
  <2>5. CASE UpdateFails(c)
    <3>1. check'[c] = [NoCheck EXCEPT !.done = TRUE] BY <2>2, <2>5 DEF UpdateFails, EndCheck
    <3> QED BY <1>0, <1>e, <1>f, <2>1, <3>1
  <2>6. CASE c = Worker /\ CheckNext
    <3>1. check' = BeginCheck(c, Head(batch)) /\ batch # <<>> /\ batch \in Seq(DomainIds)
      BY <2>6 DEF CheckNext, CustomTypes
    <3>2. Head(batch) \in DomainIds BY <3>1, TailParts
    <3>3. FoundSoFarBy(c)' BY <2>1, <3>1, <3>2, FoundAtFirst
    <3> QED BY <1>0, <1>f, <2>1, <3>3
  <2>7. ASSUME NEW d \in DomainIds, CheckDomainDirect(c, d) PROVE FoundSoFar'
    <3>1. check' = BeginCheck(c, d) BY <2>7 DEF CheckDomainDirect
    <3>2. FoundSoFarBy(c)' BY <2>1, <3>1, FoundAtFirst
    <3> QED BY <1>0, <1>f, <2>1, <3>2
  <2> QED BY <1>5, <2>3, <2>4, <2>5, <2>6, <2>7 DEF CheckStep
<1>6. ASSUME NEW c \in Checkers, UpdateDomainVerification(c) PROVE FoundSoFar'
  BY <1>0, <1>e, <1>f, <1>6, Written
<1> QED BY <1>1, <1>2, <1>3, <1>4, <1>5, <1>6, StepKinds

-----------------------------------------------------------------------------
(* What the worker has, and what the rows say. *)

\* The worker's share of WorkerOK: how much it has.
Load == Len(batch) + (IF check[Worker].of = NoId THEN 0 ELSE 1)

LEMMA LoadType ==
    CustomTypes =>
        Load \in Nat /\ Len(batch) \in Nat /\ InFlight \subseteq DomainIds /\ Worker \in Checkers
<1> SUFFICES ASSUME CustomTypes
             PROVE  /\ Load \in Nat /\ Len(batch) \in Nat
                    /\ InFlight \subseteq DomainIds /\ Worker \in Checkers
  OBVIOUS
<1>1. batch \in Seq(DomainIds) /\ check[Worker].of \in DomainIds \cup {NoId} /\ Worker \in Checkers
  BY ConstantTypes DEF CustomTypes, CheckStates
<1> QED BY <1>1 DEF Load, InFlight, ToSet

\* What a step does to what the worker has: a selection fills it, a step of a check
\* keeps it or gives up one that is checked, a write gives up one, a restart all.
LEMMA FlightSteps ==
    ASSUME CustomTypes, TablesOK, [CustomNext]_customVars
    PROVE  \/ /\ GetPendingDomains
              /\ InFlight = {} /\ InFlight' = ToSet(batch') /\ Load' <= BatchLimit
           \/ /\ Restart
              /\ InFlight' = {} /\ Load' = 0
           \/ /\ ~GetPendingDomains
              /\ InFlight' \subseteq InFlight /\ Load' <= Load
              /\ \/ InFlight' = InFlight
                 \/ used'.mishaps = used.mishaps + 1 /\ InFlight \subseteq InFlight' \cup {check[Worker].of}
                 \/ UpdateDomainVerification(Worker) /\ InFlight \subseteq InFlight' \cup {check[Worker].of}
<1>t. CustomTypes' /\ Load \in Nat /\ Load' \in Nat /\ Worker \in Checkers
  <2>1. CustomTypes' BY TypesKept
  <2>2. (Load \in Nat)' BY <2>1, LoadType, PTL
  <2> QED BY <2>1, <2>2, LoadType
<1> DEFINE kept == InFlight' = InFlight /\ Load' = Load
           ended == InFlight' \subseteq InFlight /\ InFlight \subseteq InFlight' \cup {check[Worker].of} /\ Load' <= Load
<1>k. ASSUME batch' = batch, check'[Worker].of = check[Worker].of PROVE kept
  BY <1>k DEF InFlight, Load
<1>e. ASSUME batch' = batch, check'[Worker].of = NoId PROVE ended
  <2>1. Len(batch) \in Nat BY LoadType
  <2> QED BY <1>e, <2>1 DEF InFlight, Load
<1>1. ASSUME NEW d \in DomainIds, CreateDomain(d) \/ RemovesRow(d) \/ AdminOverrideDomainVerify(d)
      PROVE  kept
  BY <1>1, <1>k DEF CreateDomain, RemovesRow, AdminOverrideDomainVerify
<1>2. ASSUME NEW d \in DomainIds, NEW record \in Records, ZoneChanges(d, record) PROVE kept
  BY <1>2, <1>k, <1>t, Zoned
<1>3. ASSUME CreateDKIMKey \/ UNCHANGED customVars PROVE kept
  BY <1>3, <1>k DEF CreateDKIMKey, customVars
<1>4. ASSUME GetPendingDomains
      PROVE  InFlight = {} /\ InFlight' = ToSet(batch') /\ Load' <= BatchLimit
  <2>1. /\ batch = <<>> /\ check[Worker].of = NoId /\ check' = check
        /\ Len(batch') \in Nat /\ Len(batch') <= BatchLimit
    BY <1>4, Selected, BatchIsSequence
  <2>2. ToSet(batch) = {} BY <2>1 DEF ToSet
  <2> QED BY <2>1, <2>2 DEF InFlight, Load
<1>5. ASSUME Restart PROVE InFlight' = {} /\ Load' = 0
  <2>1. batch' = <<>> /\ check'[Worker].of = NoId BY <1>5, <1>t, Restarted DEF NoCheck
  <2>2. ToSet(batch') = {} /\ Len(batch') = 0 BY <2>1 DEF ToSet
  <2> QED BY <2>1, <2>2 DEF InFlight, Load
<1>6. ASSUME NEW c \in Checkers, CheckStep(c)
      PROVE  kept \/ (ended /\ used'.mishaps = used.mishaps + 1)
  <2>1. \A k \in Checkers \ {c} : check'[k] = check[k] BY <1>6, CheckSteps
  <2>2. CASE c # Worker
    <3>1. batch' = batch /\ check'[Worker].of = check[Worker].of BY <1>6, <1>t, <2>1, <2>2, CheckOf
    <3> QED BY <3>1, <1>k
  <2>3. CASE c = Worker
    <3>1. CASE check'[c].of = check[c].of /\ batch' = batch BY <3>1, <2>3, <1>k
    <3>2. CASE check'[c].of = NoId /\ batch' = batch /\ used'.mishaps = used.mishaps + 1
      BY <3>2, <2>3, <1>e
    <3>3. CASE /\ c = Worker /\ check[c].of = NoId /\ batch # <<>>
               /\ check'[c].of = Head(batch) /\ batch' = Tail(batch)
      <4>1. /\ Head(batch) \in DomainIds /\ ToSet(batch) = {Head(batch)} \cup ToSet(Tail(batch))
            /\ Len(Tail(batch)) = Len(batch) - 1 /\ Len(batch) \in Nat
        BY <3>3, TailParts DEF CustomTypes
      <4>2. Head(batch) # NoId BY <4>1, CustomDomainsAssumption
      <4> QED BY <3>3, <4>1, <4>2 DEF InFlight, Load
    <3> QED BY <1>6, <2>3, <3>1, <3>2, <3>3, CheckOf
  <2> QED BY <2>2, <2>3
<1>7. ASSUME NEW c \in Checkers, UpdateDomainVerification(c)
      PROVE  kept \/ (ended /\ UpdateDomainVerification(Worker))
  <2>1. /\ batch' = batch /\ check'[c].of = NoId
        /\ \A k \in Checkers \ {c} : check'[k] = check[k]
    BY <1>7, Written DEF NoCheck
  <2> QED BY <1>7, <2>1, <1>t, <1>k, <1>e
<1>8. CASE GetPendingDomains BY <1>4, <1>8
<1>9. CASE Restart BY <1>5, <1>9
<1>10. CASE ~GetPendingDomains /\ ~Restart
  <2>1. kept \/ (ended /\ (used'.mishaps = used.mishaps + 1 \/ UpdateDomainVerification(Worker)))
    BY <1>1, <1>2, <1>3, <1>6, <1>7, <1>10, StepKinds
  <2> QED BY <1>t, <1>10, <2>1
<1> QED BY <1>8, <1>9, <1>10

LEMMA WorkerKept ==
    ASSUME CustomTypes, TablesOK, WorkerOK, [CustomNext]_customVars
    PROVE  WorkerOK'
<1>l. BatchLimit \in Nat \ {0} /\ Load \in Nat /\ Load' \in Nat /\ InFlight' \subseteq DomainIds
  <2>1. CustomTypes' BY TypesKept
  <2>2. (Load \in Nat /\ InFlight \subseteq DomainIds)' BY <2>1, LoadType, PTL
  <2> QED BY <2>2, LoadType, CustomDomainsAssumption
<1>1. CASE GetPendingDomains
  <2>1. InFlight' = ToSet(batch') /\ Load' <= BatchLimit
    <3>1. ~Restart
      <4>1. ASSUME Restart PROVE used'.mishaps = used.mishaps /\ used'.mishaps = used.mishaps + 1
        BY <1>1, <4>1, Selected, Restarted
      <4>2. used.mishaps \in Nat BY DEF CustomTypes
      <4> QED BY <4>1, <4>2
    <3> QED BY <1>1, <3>1, FlightSteps
  <2>2. ASSUME NEW d \in ToSet(batch') PROVE ~past'[d].stood
    <3>1. d \in Pending /\ past'[d].stood = (domain[d].there /\ domain[d].status = "verified")
      BY <1>1, <2>2, Selected, BatchIsSequence DEF Pending
    <3>2. domain[d].status # "verified" BY <3>1 DEF Pending
    <3> QED BY <3>1, <3>2
  <2> QED BY <2>1, <2>2 DEF WorkerOK, Load
<1>2. CASE ~GetPendingDomains
  <2>1. Load' <= BatchLimit /\ InFlight' \subseteq InFlight
    BY <1>2, <1>l, FlightSteps DEF WorkerOK, Load
  <2>2. ASSUME NEW d \in DomainIds, past'[d].stood PROVE past[d].stood
    <3>1. ASSUME NEW e \in DomainIds, CreateDomain(e) PROVE past[d].stood
      BY <3>1, <2>2 DEF CreateDomain
    <3>2. ASSUME NEW e \in DomainIds, RemovesRow(e) PROVE past[d].stood
      BY <3>2, <2>2, Removed DEF NoPast
    <3>3. ASSUME NEW e \in DomainIds, AdminOverrideDomainVerify(e) PROVE past[d].stood
      BY <3>3, <2>2, Overridden
    <3>4. ASSUME NEW e \in DomainIds, NEW record \in Records, ZoneChanges(e, record)
          PROVE  past[d].stood
      BY <3>4, <2>2, Zoned
    <3>5. ASSUME CreateDKIMKey \/ Restart \/ UNCHANGED customVars PROVE past[d].stood
      BY <3>5, <2>2 DEF CreateDKIMKey, Restart, customVars
    <3>6. ASSUME NEW c \in Checkers, CheckStep(c) PROVE past[d].stood BY <3>6, <2>2, CheckSteps
    <3>7. ASSUME NEW c \in Checkers, UpdateDomainVerification(c) PROVE past[d].stood
      BY <3>7, <2>2, Written DEF Writes
    <3> QED BY <1>2, <3>1, <3>2, <3>3, <3>4, <3>5, <3>6, <3>7, StepKinds
  <2> QED BY <1>l, <2>1, <2>2 DEF WorkerOK, Load
<1> QED BY <1>1, <1>2

LEMMA FlagsKept ==
    ASSUME CustomTypes, TablesOK, FoundSoFar, FlagsAreOfZone, [CustomNext]_customVars
    PROVE  FlagsAreOfZone'
<1>1. ASSUME NEW d \in DomainIds, CreateDomain(d) PROVE FlagsAreOfZone'
  <2>1. UNCHANGED <<zone, past>> BY <1>1 DEF CreateDomain
  <2> QED BY <1>1, <2>1, Created DEF FlagsAreOfZone
<1>2. ASSUME NEW d \in DomainIds, RemovesRow(d) PROVE FlagsAreOfZone'
  <2>1. zone' = zone /\ ~past'[d].exact BY <1>2, Removed DEF RemovesRow, NoPast
  <2> QED BY <1>2, <2>1, Removed DEF FlagsAreOfZone
<1>3. ASSUME NEW d \in DomainIds, AdminOverrideDomainVerify(d) PROVE FlagsAreOfZone'
  <2>1. zone' = zone BY <1>3 DEF AdminOverrideDomainVerify
  <2> QED BY <1>3, <2>1, Overridden DEF FlagsAreOfZone
<1>4. ASSUME NEW d \in DomainIds, NEW record \in Records, ZoneChanges(d, record)
      PROVE  FlagsAreOfZone'
  BY <1>4, Zoned DEF FlagsAreOfZone
<1>5. CASE CreateDKIMKey
  <2>1. UNCHANGED <<zone, past>> BY <1>5 DEF CreateDKIMKey
  <2> QED BY <1>5, <2>1, KeyStored DEF FlagsAreOfZone
<1>6. CASE GetPendingDomains
  <2>1. UNCHANGED <<zone, domain>> /\ \A d \in DomainIds : past'[d].exact = past[d].exact
    BY <1>6, Selected
  <2> QED BY <2>1 DEF FlagsAreOfZone
<1>7. CASE Restart \/ UNCHANGED customVars
  <2>1. UNCHANGED <<zone, domain, past>> BY <1>7 DEF Restart, customVars
  <2> QED BY <2>1 DEF FlagsAreOfZone
<1>8. ASSUME NEW c \in Checkers, CheckStep(c) PROVE FlagsAreOfZone'
  BY <1>8, CheckSteps DEF FlagsAreOfZone
<1>9. ASSUME NEW c \in Checkers, UpdateDomainVerification(c) PROVE FlagsAreOfZone'
  <2>1. zone' = zone /\ check[c].of \in DomainIds /\ check[c].left = <<>> BY <1>9, Written
  <2>2. check[c].of # NoId BY <2>1, CustomDomainsAssumption
  <2>3. CASE Writes(c, check[c].of)
    <3>1. ASSUME check[c].current PROVE check[c].found = zone[check[c].of]
      <4>1. ToSet(check[c].left) = {} BY <2>1 DEF ToSet
      <4> QED BY <2>2, <3>1, <4>1 DEF FoundSoFar
    <3> QED BY <2>1, <2>3, <3>1 DEF Writes, FlagsAreOfZone
  <2>4. CASE UNCHANGED <<domain, lastChecked, past>> BY <2>1, <2>4 DEF FlagsAreOfZone
  <2> QED BY <1>9, <2>3, <2>4, Written
<1> QED BY <1>1, <1>2, <1>3, <1>4, <1>5, <1>6, <1>7, <1>8, <1>9, StepKinds

LEMMA WholeKept ==
    ASSUME CustomTypes, VerifiedIsWhole, [CustomNext]_customVars
    PROVE  VerifiedIsWhole'
<1>r. Records # {} BY ConstantTypes
<1>1. ASSUME NEW d \in DomainIds, CreateDomain(d) PROVE VerifiedIsWhole'
  BY <1>1, Created DEF VerifiedIsWhole
<1>2. ASSUME NEW d \in DomainIds, RemovesRow(d) PROVE VerifiedIsWhole'
  BY <1>2, <1>r, Removed DEF VerifiedIsWhole
<1>3. ASSUME NEW d \in DomainIds, AdminOverrideDomainVerify(d) PROVE VerifiedIsWhole'
  BY <1>3, Overridden DEF VerifiedIsWhole
<1>4. ASSUME \/ \E d \in DomainIds, record \in Records : ZoneChanges(d, record)
             \/ GetPendingDomains \/ Restart \/ UNCHANGED customVars
             \/ \E c \in Checkers : CheckStep(c)
      PROVE  VerifiedIsWhole'
  <2>1. domain' = domain BY <1>4, CheckSteps DEF ZoneChanges, GetPendingDomains, Restart, customVars
  <2> QED BY <2>1 DEF VerifiedIsWhole
<1>5. CASE CreateDKIMKey BY <1>5, KeyStored DEF VerifiedIsWhole
<1>6. ASSUME NEW c \in Checkers, UpdateDomainVerification(c) PROVE VerifiedIsWhole'
  <2>1. CASE Writes(c, check[c].of)
    <3>1. Status(check[c].found) = "verified" <=> check[c].found = Records BY DEF Status
    <3> QED BY <2>1, <3>1 DEF Writes, VerifiedIsWhole
  <2>2. CASE UNCHANGED <<domain, lastChecked, past>> BY <2>2 DEF VerifiedIsWhole
  <2> QED BY <1>6, <2>1, <2>2, Written
<1> QED BY <1>1, <1>2, <1>3, <1>4, <1>5, <1>6, StepKinds

LEMMA KeyedKept ==
    ASSUME CustomTypes, KeyedUnlessAdding, [CustomNext]_customVars
    PROVE  KeyedUnlessAdding'
<1>u. used.mishaps \in Nat /\ adding \in DomainIds \cup {NoId} BY DEF CustomTypes
<1>1. ASSUME NEW d \in DomainIds, CreateDomain(d) PROVE KeyedUnlessAdding'
  <2>1. adding = NoId /\ adding' = d /\ used' = used BY <1>1 DEF CreateDomain
  <2> QED BY <1>1, <2>1, Created, CustomDomainsAssumption DEF KeyedUnlessAdding
<1>2. ASSUME NEW d \in DomainIds, RemovesRow(d) PROVE KeyedUnlessAdding'
  BY <1>2, <1>u, Removed DEF KeyedUnlessAdding
<1>3. ASSUME NEW d \in DomainIds, AdminOverrideDomainVerify(d) PROVE KeyedUnlessAdding'
  <2>1. adding' = adding BY <1>3 DEF AdminOverrideDomainVerify
  <2> QED BY <1>3, <2>1, Overridden DEF KeyedUnlessAdding
<1>4. ASSUME NEW d \in DomainIds, NEW record \in Records, ZoneChanges(d, record)
      PROVE  KeyedUnlessAdding'
  BY <1>4, Zoned DEF KeyedUnlessAdding
<1>5. CASE CreateDKIMKey
  <2>1. used' = used BY <1>5 DEF CreateDKIMKey
  <2> QED BY <1>5, <2>1, KeyStored DEF KeyedUnlessAdding
<1>6. CASE GetPendingDomains BY <1>6, Selected DEF KeyedUnlessAdding
<1>7. CASE Restart BY <1>7, <1>u, Restarted DEF KeyedUnlessAdding
<1>8. ASSUME NEW c \in Checkers, CheckStep(c) PROVE KeyedUnlessAdding'
  <2>1. used'.mishaps >= used.mishaps /\ used'.mishaps \in Nat /\ UNCHANGED <<domain, adding>>
    BY <1>8, CheckSteps
  <2> QED BY <1>u, <2>1 DEF KeyedUnlessAdding
<1>9. ASSUME NEW c \in Checkers, UpdateDomainVerification(c) PROVE KeyedUnlessAdding'
  <2>1. UNCHANGED <<adding, used>> BY <1>9, Written
  <2>2. CASE domain[check[c].of].there /\ Writes(c, check[c].of)
    BY <2>1, <2>2 DEF Writes, KeyedUnlessAdding
  <2>3. CASE UNCHANGED <<domain, lastChecked, past>> BY <2>1, <2>3 DEF KeyedUnlessAdding
  <2> QED BY <1>9, <2>2, <2>3, Written
<1>10. CASE UNCHANGED customVars BY <1>10 DEF customVars, KeyedUnlessAdding
<1> QED BY <1>1, <1>2, <1>3, <1>4, <1>5, <1>6, <1>7, <1>8, <1>9, <1>10, StepKinds

-----------------------------------------------------------------------------
(* Everyone takes turns. *)

\* A sequence has as many elements as it is long at most, and exactly so many when
\* none is repeated.
LEMMA ElementsOfSequence ==
    ASSUME NEW S, NEW s \in Seq(S)
    PROVE  /\ IsFiniteSet(ToSet(s)) /\ Cardinality(ToSet(s)) <= Len(s)
           /\ IsInjective(s) => Cardinality(ToSet(s)) = Len(s)
<1>1. Len(s) \in Nat /\ DOMAIN s = 1..Len(s) /\ s \in [1..Len(s) -> ToSet(s)] BY DEF ToSet
<1>2. s \in Surjection(1..Len(s), ToSet(s)) BY <1>1 DEF Surjection, ToSet
<1>3. IsFiniteSet(1..Len(s)) /\ Cardinality(1..Len(s)) = Len(s) BY <1>1, FS_Interval
<1>4. /\ IsFiniteSet(ToSet(s)) /\ Cardinality(ToSet(s)) <= Len(s)
      /\ Cardinality(ToSet(s)) = Len(s) <=> s \in Injection(1..Len(s), ToSet(s))
  BY <1>2, <1>3, FS_Surjection
<1>5. IsInjective(s) => s \in Injection(1..Len(s), ToSet(s)) BY <1>1 DEF Injection
<1> QED BY <1>4, <1>5

\* The worker has no more domains than its load.
LEMMA FlightIsBounded ==
    ASSUME CustomTypes
    PROVE  IsFiniteSet(InFlight) /\ Cardinality(InFlight) \in Nat /\ Cardinality(InFlight) <= Load
<1>1. batch \in Seq(DomainIds) /\ Len(batch) \in Nat BY LoadType DEF CustomTypes
<1>2. /\ IsFiniteSet(ToSet(batch)) /\ Cardinality(ToSet(batch)) <= Len(batch)
      /\ Cardinality(ToSet(batch)) \in Nat
  BY <1>1, ElementsOfSequence, FS_CardinalityType
<1>3. CASE check[Worker].of = NoId
  <2>1. InFlight = ToSet(batch) BY <1>3 DEF InFlight
  <2> QED BY <1>1, <1>2, <1>3, <2>1 DEF Load
<1>4. CASE check[Worker].of # NoId
  <2>1. InFlight = ToSet(batch) \cup {check[Worker].of} BY <1>4 DEF InFlight
  <2>2. /\ IsFiniteSet(InFlight)
        /\ Cardinality(InFlight) <= Cardinality(ToSet(batch)) + 1
        /\ Cardinality(InFlight) \in Nat
    <3> DEFINE T == ToSet(batch)
    <3>1. IsFiniteSet(T) /\ Cardinality(T) \in Nat /\ InFlight = T \cup {check[Worker].of}
      BY <1>2, <2>1
    <3> HIDE DEF T
    <3>2. /\ IsFiniteSet(InFlight)
          /\ Cardinality(InFlight) = IF check[Worker].of \in T THEN Cardinality(T) ELSE Cardinality(T) + 1
      BY <3>1, FS_AddElement
    <3> QED BY <3>1, <3>2 DEF T
  <2> QED BY <1>1, <1>2, <1>4, <2>2 DEF Load
<1> QED BY <1>3, <1>4

\* No mishap is forgotten.
LEMMA MishapsGrow ==
    ASSUME CustomTypes, [CustomNext]_customVars
    PROVE  used.mishaps \in Nat /\ used'.mishaps \in Nat /\ used'.mishaps >= used.mishaps
<1>t. CustomTypes' BY TypesKept
<1>u. used.mishaps \in Nat /\ used'.mishaps \in Nat BY <1>t DEF CustomTypes
<1>1. ASSUME NEW d \in DomainIds, CreateDomain(d) \/ RemovesRow(d) \/ AdminOverrideDomainVerify(d)
      PROVE  used'.mishaps >= used.mishaps
  <2>1. CreateDomain(d) => used' = used BY DEF CreateDomain
  <2> QED BY <1>1, <1>u, <2>1, Removed, Overridden
<1>2. ASSUME NEW d \in DomainIds, NEW record \in Records, ZoneChanges(d, record)
      PROVE  used'.mishaps >= used.mishaps
  BY <1>2, <1>u, Zoned
<1>3. ASSUME CreateDKIMKey \/ UNCHANGED customVars PROVE used'.mishaps >= used.mishaps
  BY <1>3, <1>u DEF CreateDKIMKey, customVars
<1>4. ASSUME GetPendingDomains \/ Restart PROVE used'.mishaps >= used.mishaps
  BY <1>4, <1>u, Selected, Restarted
<1>5. ASSUME NEW c \in Checkers, CheckStep(c) \/ UpdateDomainVerification(c)
      PROVE  used'.mishaps >= used.mishaps
  BY <1>5, <1>u, CheckSteps, Written
<1> QED BY <1>u, <1>1, <1>2, <1>3, <1>4, <1>5, StepKinds

\* The order of two domains that a step leaves alone.
LEMMA EarlierOfOthers ==
    ASSUME CustomTypes, NEW x \in DomainIds,
           lastChecked' = Unranked(x) \/ lastChecked' = Stamped(x),
           NEW d \in DomainIds \ {x}, NEW e \in DomainIds \ {x}
    PROVE  Earlier(d, e)' <=> Earlier(d, e)
<1>1. /\ (d \in Checked' <=> d \in Checked) /\ (e \in Checked' <=> e \in Checked)
      /\ (<<d, e>> \in lastChecked' <=> <<d, e>> \in lastChecked)
  BY Unranks, Stamps
<1> QED BY <1>1 DEF Earlier

\* No step puts a domain before another one that it was behind, except that the latter
\* starts anew with its wait.
LEMMA PrecedeSteps ==
    ASSUME CustomTypes, TablesOK, [CustomNext]_customVars, NEW d \in DomainIds
    PROVE  \/ past'[d].waited = 0
           \/ /\ MayPrecede(d)' \subseteq MayPrecede(d)
              /\ GetPendingDomains \/ past'[d].waited = past[d].waited
<1> DEFINE same == MayPrecede(d)' \subseteq MayPrecede(d)
           waits == past'[d].waited = past[d].waited
<1>s. ASSUME lastChecked' = lastChecked,
             \A e \in DomainIds : /\ domain'[e].there = domain[e].there
                                  /\ domain'[e].ever = domain[e].ever
      PROVE  same
  <2>1. Checked' = Checked BY <1>s, RankUnchanged
  <2> QED BY <1>s, <2>1 DEF MayPrecede, Earlier
<1>1. ASSUME NEW x \in DomainIds, CreateDomain(x) PROVE past'[d].waited = 0 \/ (same /\ waits)
  <2>1. ~domain[x].ever /\ UNCHANGED <<lastChecked, past>> BY <1>1 DEF CreateDomain
  <2>2. CASE d = x BY <2>1, <2>2 DEF TablesOK, NoPast
  <2>3. CASE d # x
    <3>1. Checked' = Checked BY <2>1, RankUnchanged
    <3>2. \A e \in DomainIds \ {x} : domain'[e] = domain[e] BY <1>1, Created
    <3> QED BY <2>1, <2>3, <3>1, <3>2 DEF MayPrecede, Earlier
  <2> QED BY <2>2, <2>3
<1>2. ASSUME NEW x \in DomainIds, RemovesRow(x) PROVE past'[d].waited = 0 \/ (same /\ waits)
  <2>1. CASE d = x BY <1>2, <2>1, Removed DEF NoPast
  <2>2. CASE d # x
    <3>1. /\ \A e \in DomainIds \ {x} : domain'[e] = domain[e]
          /\ ~domain'[x].there /\ domain'[x].ever /\ past'[d] = past[d]
      BY <1>2, <2>2, Removed
    <3>2. \A e \in DomainIds \ {x} : Earlier(d, e)' <=> Earlier(d, e)
      BY <1>2, <2>2, EarlierOfOthers DEF RemovesRow
    <3> QED BY <3>1, <3>2 DEF MayPrecede
  <2> QED BY <2>1, <2>2
<1>3. ASSUME NEW x \in DomainIds, AdminOverrideDomainVerify(x) PROVE same /\ waits
  <2>1. lastChecked' = lastChecked BY <1>3 DEF AdminOverrideDomainVerify
  <2>2. \A e \in DomainIds : domain'[e].there = domain[e].there /\ domain'[e].ever = domain[e].ever
    <3>1. domain[x] \in Rows /\ domain' = [domain EXCEPT ![x] = [domain[x] EXCEPT !.status = "verified", !.flags = Records]]
      BY <1>3 DEF AdminOverrideDomainVerify, CustomTypes, Rows
    <3> QED BY <3>1 DEF CustomTypes, Rows
  <2>3. past'[d].waited = past[d].waited BY <1>3, Overridden
  <2> QED BY <1>s, <2>1, <2>2, <2>3
<1>4. ASSUME NEW x \in DomainIds, NEW record \in Records, ZoneChanges(x, record) PROVE same /\ waits
  BY <1>4, <1>s, Zoned
<1>5. ASSUME CreateDKIMKey PROVE same /\ waits
  <2>1. UNCHANGED <<lastChecked, past>> BY <1>5 DEF CreateDKIMKey
  <2> QED BY <1>5, <1>s, <2>1, KeyStored
<1>6. ASSUME GetPendingDomains PROVE same BY <1>6, <1>s, Selected
<1>7. ASSUME Restart \/ UNCHANGED customVars PROVE same /\ waits
  BY <1>7, <1>s DEF Restart, customVars
<1>8. ASSUME NEW c \in Checkers, CheckStep(c) PROVE same /\ waits BY <1>8, <1>s, CheckSteps
<1>9. ASSUME NEW c \in Checkers, UpdateDomainVerification(c)
      PROVE  past'[d].waited = 0 \/ (same /\ waits)
  <2>1. PICK x \in DomainIds : x = check[c].of BY <1>9, Written
  <2>2. CASE domain[x].there /\ Writes(c, x) /\ d = x BY <2>2 DEF Writes
  <2>3. CASE domain[x].there /\ Writes(c, x) /\ d # x
    <3>1. /\ \A e \in DomainIds \ {x} : domain'[e] = domain[e]
          /\ domain'[x].ever = domain[x].ever /\ domain[x].ever
          /\ past'[d] = past[d] /\ lastChecked' = Stamped(x)
      BY <2>1, <2>3 DEF Writes, TablesOK
    <3>2. \A e \in DomainIds \ {x} : Earlier(d, e)' <=> Earlier(d, e)
      BY <2>1, <2>3, <3>1, EarlierOfOthers
    <3>3. Earlier(d, x)' BY <2>1, <2>3, <3>1, Stamps DEF Earlier
    <3> QED BY <3>1, <3>2, <3>3 DEF MayPrecede
  <2>4. CASE UNCHANGED <<domain, lastChecked, past>> BY <2>4, <1>s
  <2> QED BY <1>9, <2>1, <2>2, <2>3, <2>4, Written
<1> QED BY <1>1, <1>2, <1>3, <1>4, <1>5, <1>6, <1>7, <1>8, <1>9, StepKinds

\* The domains before d that the worker has still to select.
Ahead(d) == MayPrecede(d) \ InFlight

LEMMA AheadIsBounded ==
    ASSUME NEW d \in DomainIds
    PROVE  /\ IsFiniteSet(Ahead(d)) /\ Cardinality(Ahead(d)) \in Nat
           /\ Cardinality(DomainIds) \in Nat
           /\ Cardinality(Ahead(d)) <= Cardinality(DomainIds) - 1
<1> DEFINE others == DomainIds \ {d}
<1>1. IsFiniteSet(DomainIds) BY CustomDomainsAssumption
<1>2. IsFiniteSet(others) /\ Cardinality(others) = Cardinality(DomainIds) - 1
  BY <1>1, FS_RemoveElement
<1>3. Ahead(d) \in SUBSET others BY DEF Ahead, MayPrecede
<1> HIDE DEF others
<1> QED BY <1>1, <1>2, <1>3, FS_Subset, FS_CardinalityType

\* The same of the state after a step.
LEMMA AheadThenIsBounded ==
    ASSUME NEW d \in DomainIds
    PROVE  /\ IsFiniteSet(Ahead(d)') /\ Cardinality(Ahead(d)') \in Nat
           /\ Cardinality(Ahead(d)') <= Cardinality(DomainIds) - 1
<1> DEFINE others == DomainIds \ {d}
<1>1. IsFiniteSet(DomainIds) BY CustomDomainsAssumption
<1>2. IsFiniteSet(others) /\ Cardinality(others) = Cardinality(DomainIds) - 1
  BY <1>1, FS_RemoveElement
<1>3. Ahead(d)' \in SUBSET others BY DEF Ahead, MayPrecede
<1> HIDE DEF others
<1> QED BY <1>1, <1>2, <1>3, FS_Subset, FS_CardinalityType

\* How long a wait may grow, in domains of the batches that left d out.
Turn(d) ==
    past[d].waited * BatchLimit + Cardinality(Ahead(d))
        <= Cardinality(DomainIds) - 1 + used.mishaps * BatchLimit

\* A batch that leaves a pending domain out is full of domains that were before it.
LEMMA FullBatch ==
    ASSUME CustomTypes, TablesOK, GetPendingDomains, NEW d \in Pending \ ToSet(batch')
    PROVE  /\ ToSet(batch') \subseteq MayPrecede(d)
           /\ IsFiniteSet(ToSet(batch')) /\ Cardinality(ToSet(batch')) = BatchLimit
<1>1. batch' \in Batches BY Selected
<1>2. Len(batch') = BatchLimit /\ \A e \in ToSet(batch') : ~Earlier(d, e) BY <1>1 DEF Batches
<1>3. batch' \in Seq(DomainIds) /\ ToSet(batch') \subseteq Pending /\ IsInjective(batch')
  BY <1>1, BatchIsSequence
<1>4. ToSet(batch') \subseteq MayPrecede(d) BY <1>2, <1>3 DEF MayPrecede, Pending
<1> QED BY <1>2, <1>3, <1>4, ElementsOfSequence

LEMMA TurnsKept ==
    ASSUME CustomTypes, TablesOK, WorkerOK, TurnsLeft, [CustomNext]_customVars
    PROVE  TurnsLeft'
<1> SUFFICES ASSUME NEW d \in DomainIds PROVE Turn(d)' BY DEF TurnsLeft, Turn, Ahead
<1>t. Turn(d) BY DEF TurnsLeft, Turn, Ahead
<1> DEFINE w == past[d].waited
           v == past'[d].waited
           m == used.mishaps
           n == used'.mishaps
           N == Cardinality(DomainIds)
           A == Cardinality(Ahead(d))
           B == Cardinality(Ahead(d)')
<1>1. /\ m \in Nat /\ n \in Nat /\ n >= m
      /\ N \in Nat /\ A \in Nat /\ B \in Nat /\ B <= N - 1
      /\ IsFiniteSet(Ahead(d)) /\ IsFiniteSet(Ahead(d)')
      /\ BatchLimit \in Nat /\ w \in Nat
  BY MishapsGrow, AheadIsBounded, AheadThenIsBounded, CustomDomainsAssumption DEF CustomTypes, Pasts
<1>2. w * BatchLimit + A <= N - 1 + m * BatchLimit BY <1>t DEF Turn
<1>3. SUFFICES v * BatchLimit + B <= N - 1 + n * BatchLimit BY DEF Turn
<1>4. w * BatchLimit \in Nat /\ m * BatchLimit \in Nat /\ n * BatchLimit \in Nat BY <1>1
<1>5. /\ n * BatchLimit >= m * BatchLimit
      /\ n = m + 1 => n * BatchLimit = m * BatchLimit + BatchLimit
      /\ (w + 1) * BatchLimit = w * BatchLimit + BatchLimit
      /\ 0 * BatchLimit = 0
  BY <1>1
<1>6. CASE v = 0 BY <1>1, <1>4, <1>5, <1>6
<1>7. CASE v # 0 /\ GetPendingDomains
  <2>1. InFlight = {} /\ InFlight' = ToSet(batch')
    <3>1. batch = <<>> /\ check[Worker].of = NoId /\ check' = check BY <1>7, Selected
    <3> QED BY <3>1 DEF InFlight, ToSet
  <2>2. MayPrecede(d)' \subseteq MayPrecede(d) BY <1>7, PrecedeSteps
  <2>3. CASE d \in Pending \ ToSet(batch')
    <3>1. v = w + 1 BY <1>7, <2>3, Selected
    <3> DEFINE S == ToSet(batch')
               M == MayPrecede(d)
    <3>2. S \subseteq M /\ IsFiniteSet(S) /\ Cardinality(S) = BatchLimit BY <1>7, <2>3, FullBatch
    <3>3. Ahead(d) = M /\ Ahead(d)' \in SUBSET (M \ S) BY <2>1, <2>2 DEF Ahead
    <3> HIDE DEF S, M
    <3>4. Cardinality(M \ S) = Cardinality(M) - BatchLimit /\ IsFiniteSet(M \ S)
      <4>1. IsFiniteSet(M) /\ M \cap S = S BY <1>1, <3>2, <3>3
      <4> QED BY <3>2, <4>1, FS_Difference
    <3>5. B <= A - BatchLimit BY <3>3, <3>4, FS_Subset
    <3> HIDE DEF w, v, m, n, N, A, B
    <3> QED BY <1>1, <1>2, <1>4, <1>5, <3>1, <3>5
  <2>4. CASE d \notin Pending \ ToSet(batch')
    <3>1. v = w BY <1>7, <2>4, Selected
    <3>2. Ahead(d)' \in SUBSET Ahead(d) BY <2>1, <2>2 DEF Ahead
    <3>3. B <= A BY <1>1, <3>2, FS_Subset
    <3> HIDE DEF w, v, m, n, N, A, B
    <3> QED BY <1>1, <1>2, <1>4, <1>5, <3>1, <3>3
  <2> QED BY <2>3, <2>4
<1>8. CASE v # 0 /\ ~GetPendingDomains
  <2>1. MayPrecede(d)' \subseteq MayPrecede(d) /\ v = w BY <1>8, PrecedeSteps
  <2>2. CASE Ahead(d)' \subseteq Ahead(d)
    <3>1. B <= A BY <1>1, <2>2, FS_Subset
    <3> HIDE DEF w, v, m, n, N, A, B
    <3> QED BY <1>1, <1>2, <1>4, <1>5, <2>1, <3>1
  <2>3. ASSUME NEW S, IsFiniteSet(S), Cardinality(S) <= BatchLimit,
               Ahead(d)' \subseteq Ahead(d) \cup S, n = m + 1
        PROVE  v * BatchLimit + B <= N - 1 + n * BatchLimit
    <3>1. B <= A + BatchLimit
      <4> DEFINE D == Ahead(d)
                 E == Ahead(d)'
      <4>1. IsFiniteSet(D) /\ E \in SUBSET (D \cup S) /\ Cardinality(D) \in Nat /\ Cardinality(E) \in Nat
        BY <1>1, <2>3
      <4> HIDE DEF D, E
      <4>2. /\ IsFiniteSet(D \cup S) /\ IsFiniteSet(D \cap S)
            /\ Cardinality(D \cup S) = Cardinality(D) + Cardinality(S) - Cardinality(D \cap S)
        BY <2>3, <4>1, FS_Union, FS_Intersection
      <4>3. Cardinality(D \cap S) \in Nat /\ Cardinality(S) \in Nat
        BY <2>3, <4>2, FS_CardinalityType
      <4>4. Cardinality(E) <= Cardinality(D \cup S) BY <4>1, <4>2, FS_Subset
      <4>5. Cardinality(E) <= Cardinality(D) + BatchLimit BY <1>1, <2>3, <4>1, <4>2, <4>3, <4>4
      <4> QED BY <4>5 DEF D, E
    <3>2. n = m + 1 BY <2>3
    <3> HIDE DEF w, v, m, n, N, A, B
    <3> QED BY <1>1, <1>2, <1>4, <1>5, <2>1, <3>1, <3>2
  <2>4. CASE Restart
    <3>1. /\ IsFiniteSet(InFlight) /\ Cardinality(InFlight) \in Nat
          /\ Cardinality(InFlight) <= Load /\ Load \in Nat /\ Load <= BatchLimit
      BY FlightIsBounded, LoadType DEF WorkerOK, Load
    <3>2. n = m + 1 BY <2>4, Restarted
    <3>3. Ahead(d)' \subseteq Ahead(d) \cup InFlight BY <2>1 DEF Ahead
    <3>4. Cardinality(InFlight) <= BatchLimit BY <1>1, <3>1
    <3> QED BY <2>3, <3>1, <3>2, <3>3, <3>4
  <2>5. CASE n = m + 1 /\ InFlight \subseteq InFlight' \cup {check[Worker].of}
    <3> DEFINE S == {check[Worker].of}
    <3>1. IsFiniteSet(S) /\ Cardinality(S) = 1 BY FS_Singleton
    <3>2. Ahead(d)' \subseteq Ahead(d) \cup S BY <2>1, <2>5 DEF Ahead
    <3>3. Cardinality(S) <= BatchLimit BY <3>1, CustomDomainsAssumption
    <3> HIDE DEF S
    <3> QED BY <2>3, <2>5, <3>1, <3>2, <3>3
  <2>6. CASE UpdateDomainVerification(Worker) /\ InFlight \subseteq InFlight' \cup {check[Worker].of}
    <3>1. PICK x \in DomainIds : x = check[Worker].of BY <2>6, Written, ConstantTypes
    <3>2. x \notin MayPrecede(d)'
      <4>1. domain[x].ever /\ x # NoId BY <3>1, ConstantTypes, CustomDomainsAssumption DEF TablesOK
      <4>2. CASE domain[x].there /\ Writes(Worker, x)
        <5>1. domain'[x].ever /\ lastChecked' = Stamped(x) BY <4>1, <4>2 DEF Writes
        <5>2. d # x => Earlier(d, x)' BY <5>1, Stamps DEF Earlier
        <5> QED BY <5>1, <5>2 DEF MayPrecede
      <4>3. CASE ~domain[x].there /\ UNCHANGED <<domain, lastChecked, past>>
        BY <4>1, <4>3 DEF MayPrecede
      <4> QED BY <2>6, <3>1, <4>2, <4>3, Written, ConstantTypes
    <3>3. Ahead(d)' \subseteq Ahead(d) BY <2>1, <2>6, <3>1, <3>2 DEF Ahead
    <3> QED BY <2>2, <3>3
  <2>7. CASE InFlight' = InFlight
    <3>1. Ahead(d)' \subseteq Ahead(d) BY <2>1, <2>7 DEF Ahead
    <3> QED BY <2>2, <3>1
  <2> QED BY <1>8, <2>4, <2>5, <2>6, <2>7, FlightSteps
<1> QED BY <1>6, <1>7, <1>8

-----------------------------------------------------------------------------
(* The theorems. *)

LEMMA CustomInvInit == CustomInit => CustomInv
<1> SUFFICES ASSUME CustomInit PROVE CustomInv OBVIOUS
<1>d. \A d \in DomainIds : domain[d] = NoRow /\ past[d] = NoPast BY DEF CustomInit
<1>c. \A c \in Checkers : check[c] = NoCheck BY DEF CustomInit
<1>e. lastChecked = {} /\ batch = <<>> /\ adding = NoId /\ Checked = {} BY DEF CustomInit, Checked
<1>i. InFlight = {} /\ Len(batch) = 0 /\ ToSet(batch) = {} /\ check[Worker].of = NoId
  <2>1. check[Worker].of = NoId /\ ToSet(batch) = {} /\ Len(batch) = 0
    BY <1>c, <1>e, ConstantTypes DEF NoCheck, ToSet
  <2> QED BY <2>1 DEF InFlight
<1>u. used.mishaps = 0 /\ used \in [rounds : Nat, changes : Nat, overrides : Nat, mishaps : Nat]
  BY DEF CustomInit
<1>1. CustomTypes
  <2>1. domain \in [DomainIds -> Rows] /\ past \in [DomainIds -> Pasts]
    BY ConstantTypes DEF CustomInit
  <2>2. check \in [Checkers -> CheckStates] BY ConstantTypes DEF CustomInit
  <2>3. zone \in [DomainIds -> SUBSET Records] BY DEF CustomInit
  <2>4. batch \in Seq(DomainIds) BY <1>e
  <2> QED BY <1>e, <1>u, <2>1, <2>2, <2>3, <2>4 DEF CustomTypes
<1>2. TablesOK BY <1>d, <1>c, <1>e, <1>i DEF TablesOK, NoRow, NoCheck
<1>3. OrderOK BY <1>e DEF OrderOK
<1>4. FoundSoFar BY <1>c DEF FoundSoFar, NoCheck
<1>5. WorkerOK BY <1>i, CustomDomainsAssumption DEF WorkerOK
<1>6. FlagsAreOfZone BY <1>d DEF FlagsAreOfZone, NoPast
<1>7. VerifiedIsWhole BY <1>d, ConstantTypes DEF VerifiedIsWhole, NoRow
<1>8. KeyedUnlessAdding BY <1>d DEF KeyedUnlessAdding, NoRow
<1>9. TurnsLeft
  <2>1. ASSUME NEW d \in DomainIds PROVE Turn(d)
    <3>1. past[d].waited = 0 /\ used.mishaps = 0 BY <1>d, <1>u DEF NoPast
    <3> QED BY <3>1, AheadIsBounded, CustomDomainsAssumption DEF Turn
  <2> QED BY <2>1 DEF TurnsLeft, Turn, Ahead
<1> QED BY <1>1, <1>2, <1>3, <1>4, <1>5, <1>6, <1>7, <1>8, <1>9 DEF CustomInv

LEMMA CustomInvStep == CustomInv /\ [CustomNext]_customVars => CustomInv'
BY TypesKept, RowsKept, OrderKept, FoundKept, WorkerKept, FlagsKept, WholeKept, KeyedKept, TurnsKept
   DEF CustomInv

\* The tables, the batch and the checks have their types, the rows and the checks are about
\* ids that were given out, the times of the last checks are of one order, and what the
\* properties say holds in every state.
THEOREM CustomInvariant == CustomSpec => []CustomInv
<1> QED BY CustomInvInit, CustomInvStep, PTL DEF CustomSpec

\* The types of the tables and of the batch: a batch is never larger than the LIMIT of the
\* query, a row with a last_checked_at is there, and of two of them one was checked first.
THEOREM CustomTypesHold == CustomSpec => []CustomTypeOK
<1>1. CustomInv => CustomTypeOK
  <2> SUFFICES ASSUME CustomInv PROVE CustomTypeOK OBVIOUS
  <2>1. ASSUME NEW d \in DomainIds
        PROVE  /\ domain[d].there \in BOOLEAN /\ domain[d].keyed \in BOOLEAN
               /\ domain[d].there => domain[d].ever
               /\ domain[d].status \in {"pending", "verifying", "verified"}
               /\ domain[d].flags \subseteq Records
               /\ zone[d] \subseteq Records
    <3>1. domain[d] \in Rows /\ zone[d] \subseteq Records BY DEF CustomInv, CustomTypes
    <3> QED BY <3>1 DEF CustomInv, TablesOK, Rows
  <2>2. /\ lastChecked \subseteq Checked \X Checked
        /\ \A d, e \in Checked :
             /\ domain[d].there
             /\ d # e => (<<d, e>> \in lastChecked <=> <<e, d>> \notin lastChecked)
    BY DEF CustomInv, CustomTypes, OrderOK, TablesOK, Checked
  <2>3. Len(batch) <= BatchLimit BY LoadType, CustomDomainsAssumption DEF CustomInv, WorkerOK
  <2>4. adding \in DomainIds \cup {NoId} /\ \A c \in Checkers : check[c].of \in DomainIds \cup {NoId}
    BY DEF CustomInv, CustomTypes, CheckStates
  <2> QED BY <2>1, <2>2, <2>3, <2>4 DEF CustomTypeOK
<1> QED BY <1>1, CustomInvariant, PTL

\* What the table of the domains says was found: flags are those of a check that nothing
\* disturbed, a domain is verified exactly when each of its records is, it has its key
\* unless something failed, and the worker leaves none out of more batches than the others
\* need to be checked once each.
THEOREM ChecksHold == CustomSpec => []ChecksAreTrue
<1>1. CustomInv => ChecksAreTrue
  <2> SUFFICES ASSUME CustomInv PROVE ChecksAreTrue OBVIOUS
  <2>1. ASSUME NEW d \in DomainIds
        PROVE  past[d].waited * BatchLimit
                   <= Cardinality(DomainIds) - 1 + used.mishaps * BatchLimit
    <3>1. Turn(d) BY DEF CustomInv, TurnsLeft, Turn, Ahead
    <3>2. past[d].waited \in Nat /\ used.mishaps \in Nat /\ BatchLimit \in Nat
      BY CustomDomainsAssumption DEF CustomInv, CustomTypes, Pasts
    <3>3. Cardinality(Ahead(d)) \in Nat /\ Cardinality(DomainIds) \in Nat BY AheadIsBounded
    <3>4. past[d].waited * BatchLimit \in Nat /\ used.mishaps * BatchLimit \in Nat BY <3>2
    <3> QED BY <3>1, <3>3, <3>4 DEF Turn
  <2>2. EveryoneTakesTurns BY <2>1 DEF EveryoneTakesTurns
  <2> QED BY <2>2 DEF CustomInv, ChecksAreTrue
<1> QED BY <1>1, CustomInvariant, PTL

\* A domain that was verified when the worker selected its batch loses that to a check that
\* its owner asked for, and to none of the worker's.
THEOREM VerifiedDomainsStand == CustomSpec => VerifiedStands
<1> DEFINE Stands ==
      \A d \in DomainIds :
         /\ domain[d].status = "verified" /\ past[d].stood
         /\ domain'[d].there /\ domain'[d].status # "verified"
         => \E c \in Demands : check[c].of = d /\ check'[c].of = NoId
<1>1. CustomInv /\ [CustomNext]_customVars => Stands
  <2> SUFFICES ASSUME CustomInv, [CustomNext]_customVars, NEW d \in DomainIds,
                      domain[d].status = "verified", past[d].stood,
                      domain'[d].there, domain'[d].status # "verified"
               PROVE  \E c \in Demands : check[c].of = d /\ check'[c].of = NoId
    OBVIOUS
  <2>t. CustomTypes /\ WorkerOK BY DEF CustomInv
  <2>1. ASSUME NEW x \in DomainIds, CreateDomain(x) PROVE FALSE BY <2>1, <2>t, Created
  <2>2. ASSUME NEW x \in DomainIds, RemovesRow(x) PROVE FALSE BY <2>2, <2>t, Removed
  <2>3. ASSUME NEW x \in DomainIds, AdminOverrideDomainVerify(x) PROVE FALSE
    BY <2>3, <2>t, Overridden
  <2>4. ASSUME CreateDKIMKey PROVE FALSE BY <2>4, <2>t, KeyStored
  <2>5. ASSUME \/ \E x \in DomainIds, record \in Records : ZoneChanges(x, record)
               \/ GetPendingDomains \/ Restart \/ UNCHANGED customVars
               \/ \E c \in Checkers : CheckStep(c)
        PROVE  FALSE
    <3>1. domain' = domain
      BY <2>5, <2>t, CheckSteps DEF ZoneChanges, GetPendingDomains, Restart, customVars
    <3> QED BY <3>1
  <2>6. PICK c \in Checkers : UpdateDomainVerification(c)
    BY <2>t, <2>1, <2>2, <2>3, <2>4, <2>5, StepKinds
  <2>7. check[c].of = d /\ check'[c].of = NoId
    <3>1. check'[c].of = NoId BY <2>6, <2>t, Written DEF NoCheck
    <3>2. CASE check[c].of # d BY <2>6, <2>t, <3>2, Written DEF Writes
    <3> QED BY <3>1, <3>2
  <2>8. c # Worker
    <3>1. ASSUME c = Worker PROVE d \in InFlight BY <2>7, <3>1, CustomDomainsAssumption DEF InFlight
    <3> QED BY <2>t, <3>1 DEF WorkerOK
  <2>9. c \in Demands BY <2>8 DEF Checkers
  <2> QED BY <2>7, <2>9
<1> QED BY <1>1, CustomInvariant, PTL DEF CustomSpec, VerifiedStands

-------------------------------------------------------------------------------
(* IV. The three side by side. *)

\* A behaviour of the three side by side is one of each: what one of them does leaves
\* the variables of the others alone.  So each theorem above is one of ServicesSpec.
THEOREM EachBehavesAlone == ServicesSpec => Spec /\ AuthSpec /\ CustomSpec
<1>1. ServicesInit => Init /\ AuthInit /\ CustomInit BY DEF ServicesInit
<1>2. [ServicesNext]_<<smtpVars, authVars, customVars, service>> =>
        [Next]_vars /\ [AuthNext]_authVars /\ [CustomNext]_customVars
  <2> SUFFICES ASSUME [ServicesNext]_<<smtpVars, authVars, customVars, service>>
               PROVE  [Next]_vars /\ [AuthNext]_authVars /\ [CustomNext]_customVars
    OBVIOUS
  <2>1. CASE service = "smtp" /\ Next /\ UNCHANGED <<authVars, customVars>> BY <2>1
  <2>2. CASE service = "auth" /\ AuthNext /\ UNCHANGED <<smtpVars, customVars>> BY <2>2 DEF smtpVars
  <2>3. CASE service = "domains" /\ CustomNext /\ UNCHANGED <<smtpVars, authVars>>
    BY <2>3 DEF smtpVars
  <2>4. CASE UNCHANGED <<smtpVars, authVars, customVars, service>> BY <2>4 DEF smtpVars
  <2> QED BY <2>1, <2>2, <2>3, <2>4 DEF ServicesNext
<1> QED BY <1>1, <1>2, PTL DEF ServicesSpec, Spec, AuthSpec, CustomSpec

ItsTurn == service \in {"smtp", "auth", "domains"}

\* The variables of the service whose turn it is have their types.
THEOREM ServicesTypes == ServicesSpec => []ServicesTypeOK
<1>1. ServicesInit => ItsTurn BY DEF ServicesInit, ItsTurn
<1>2. ItsTurn /\ [ServicesNext]_<<smtpVars, authVars, customVars, service>> => ItsTurn'
  BY DEF ServicesNext, ItsTurn
<1>3. ItsTurn /\ TypeOK /\ AuthTypeOK /\ CustomTypeOK => ServicesTypeOK
  BY DEF ServicesTypeOK, ItsTurn
<1> QED
  BY <1>1, <1>2, <1>3, EachBehavesAlone, SmtpTypes, AuthTypes, CustomTypesHold, PTL
     DEF ServicesSpec
===============================================================================
