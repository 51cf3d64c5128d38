--------------------------- MODULE ThreadsProofs ---------------------------
(***************************************************************************)
(* What TLAPS proves about Threads for every number of tickets, messages   *)
(* and requests in flight.                                                 *)
(***************************************************************************)
EXTENDS Threads, FiniteSetTheorems, TLAPS

-----------------------------------------------------------------------------
(* The inductive invariant: what a request that waits between two of its   *)
(* statements still knows about the rows.                                  *)

Unread(m) == message[m].status = "unread"

\* A ticket under creation is not there yet, and its message belongs to none.
Creations ==
    \A c \in Call : call[c].stage = "addTicket" =>
        /\ call[c].ticket \in Ticket /\ ticket[call[c].ticket] = NULL
        /\ call[c].messages # {}
        /\ \A m \in call[c].messages : Sent(m) /\ message[m].ticket = NULL

\* Two creations have no ticket and no message in common.
Separate ==
    \A c, d \in Call : c # d /\ call[c].stage = "addTicket" /\ call[d].stage = "addTicket" =>
        call[c].ticket # call[d].ticket /\ call[c].messages \cap call[d].messages = {}

\* An opening is of a ticket that exists; no other request has marked anything.
Openings ==
    \A c \in Call :
        /\ call[c].stage \in {"find", "lookUp"} =>
             call[c].ticket \in Ticket /\ ticket[call[c].ticket] # NULL
        /\ call[c].stage \notin {"find", "lookUp"} => call[c].marked = {}

\* Before its find, an opening has marked the messages of the ticket but the late ones.
Met ==
    \A c \in Call : call[c].stage = "find" =>
        /\ call[c].marked \subseteq MessagesOf(call[c].ticket)
        /\ \A m \in MessagesOf(call[c].ticket) : ~Unread(m) \/ m \in late

\* What an opening has found contains what it has marked.
Found ==
    \A c \in Call : call[c].stage = "lookUp" =>
        /\ call[c].marked \subseteq call[c].messages
        /\ \A m \in call[c].messages : Sent(m) /\ (~Unread(m) \/ m \in late)

\* A message names a ticket that exists; what was shown was sent.
Linked ==
    /\ \A m \in Message : Sent(m) /\ message[m].ticket # NULL => ticket[message[m].ticket] # NULL
    /\ \A m \in shown : Sent(m)

Protocol == Creations /\ Separate /\ Openings /\ Met /\ Found /\ Linked

IInv == TypeOK /\ Protocol /\ ReadWasShown /\ ShownIsRead /\ CreationIsWhole

-----------------------------------------------------------------------------
(* Facts about types.                                                      *)

\* A call at rest is a request.
LEMMA IdleType == Idle \in Request
BY DEF Idle, Request, Stage, About

\* A message that was sent is a row, and read or unread.
LEMMA SentType ==
    ASSUME TypeOK, NEW m \in Message, Sent(m)
    PROVE  message[m] \in Row /\ (Unread(m) \/ message[m].status = "read")
BY DEF TypeOK, Sent, Row, MessageStatus, Unread

\* A message that is sent is a new row; the others stay.
LEMMA CreateMessageEffect ==
    ASSUME TypeOK, NEW m \in Message, NEW t \in Ticket \cup {NULL}, NEW sender \in Sender,
           CreateMessage(m, t, sender)
    PROVE  /\ message' \in [Message -> Row \cup {NULL}]
           /\ ~Sent(m) /\ Sent(m)'
           /\ message'[m].ticket = t /\ message'[m].status = "unread"
           /\ \A n \in Message : n # m => message'[n] = message[n]
<1>1. [ticket |-> t, sender |-> sender, status |-> "unread"] \in Row
    BY DEF Row, MessageStatus
<1> QED BY <1>1, ThreadsAssumption DEF CreateMessage, TypeOK, Sent

-----------------------------------------------------------------------------
(* The invariant holds at first, and every action keeps it.                *)

\* Nothing has been sent.
LEMMA InitIInv == Init => IInv
BY IdleType
DEF Init, IInv, TypeOK, Protocol, Creations, Separate, Openings, Met, Found, Linked,
    ReadWasShown, ShownIsRead, CreationIsWhole, Sent, Idle, MessagesOf, UnderWay

\* A message arrives, during an opening or not.
LEMMA SendMessageIInv ==
    ASSUME IInv, NEW m \in Message, NEW sender \in Sender, NEW t \in Ticket \cup {NULL},
           SendMessage(m, t, sender)
    PROVE  IInv'
<1>1. /\ TypeOK /\ Protocol /\ ReadWasShown /\ ShownIsRead /\ CreationIsWhole
      /\ UNCHANGED <<ticket, payment, call, shown, unshown>>
    BY DEF IInv, SendMessage
<1>2. /\ message' \in [Message -> Row \cup {NULL}]
      /\ ~Sent(m) /\ Sent(m)'
      /\ message'[m].ticket = t /\ message'[m].status = "unread"
      /\ \A n \in Message : n # m => message'[n] = message[n]
    BY <1>1, CreateMessageEffect DEF SendMessage
<1>3. late \subseteq late' /\ loose \subseteq loose'
    BY DEF SendMessage
<1>4. TypeOK'
    BY <1>1, <1>2 DEF SendMessage, TypeOK
<1>5. \A n \in Message : n # m => (Sent(n)' <=> Sent(n)) /\ (Unread(n)' <=> Unread(n))
    BY <1>2 DEF Sent, Unread
<1>6. \A u \in Ticket : MessagesOf(u)' = MessagesOf(u) \cup (IF u = t THEN {m} ELSE {})
    BY <1>2, <1>5 DEF MessagesOf
<1>7. Creations'
    BY <1>1, <1>2, <1>5, <1>4 DEF Protocol, Creations, TypeOK, Request
<1>8. Separate' /\ Openings'
    BY <1>1 DEF Protocol, Separate, Openings
<1>9. Met'
  <2> SUFFICES ASSUME NEW c \in Call, call[c].stage = "find"
               PROVE  /\ call[c].marked \subseteq MessagesOf(call[c].ticket)'
                      /\ \A n \in MessagesOf(call[c].ticket)' : ~Unread(n)' \/ n \in late'
    BY <1>1 DEF Met
  <2>1. call[c].ticket \in Ticket
    BY <1>1 DEF Protocol, Openings
  <2>2. t = call[c].ticket => m \in late'
    BY <2>1, ThreadsAssumption DEF SendMessage, Marking
  <2> QED BY <1>1, <1>2, <1>3, <1>5, <1>6, <2>1, <2>2 DEF Protocol, Met, MessagesOf
<1>10. Found'
    BY <1>1, <1>3, <1>5, <1>2 DEF Protocol, Found, TypeOK, Request
<1>11. Linked'
    BY <1>1, <1>2, <1>5 DEF Protocol, Linked, SendMessage, TypeOK
<1>12. ReadWasShown'
    BY <1>1, <1>2, <1>5 DEF ReadWasShown, UnderWay
<1>13. ShownIsRead'
    BY <1>1, <1>2, <1>3, <1>5, <1>4 DEF ShownIsRead, Protocol, Linked, TypeOK
<1>14. CreationIsWhole'
  <2>1. t = NULL => m \in loose'
    BY DEF SendMessage
  <2> QED BY <1>1, <1>2, <1>3, <1>5, <1>6, <2>1 DEF CreationIsWhole
<1> QED BY <1>4, <1>7, <1>8, <1>9, <1>10, <1>11, <1>12, <1>13, <1>14 DEF IInv, Protocol

\* The first message of a ticket is saved before the ticket.
LEMMA CreateTicketIInv ==
    ASSUME IInv, NEW m \in Message, NEW sender \in Sender, NEW c \in Call, NEW t \in Ticket,
           NEW about \in About, CreateTicket(c, t, about, m, sender)
    PROVE  IInv'
<1>1. /\ TypeOK /\ Protocol /\ ReadWasShown /\ ShownIsRead /\ CreationIsWhole
      /\ UNCHANGED <<ticket, payment, shown, unshown, late, loose>>
    BY DEF IInv, CreateTicket, history
<1>2. /\ message' \in [Message -> Row \cup {NULL}]
      /\ ~Sent(m) /\ Sent(m)'
      /\ message'[m].ticket = NULL /\ message'[m].status = "unread"
      /\ \A n \in Message : n # m => message'[n] = message[n]
    BY <1>1, CreateMessageEffect DEF CreateTicket
<1> DEFINE new == [Idle EXCEPT !.stage = "addTicket", !.ticket = t, !.about = about,
                               !.messages = {m}]
<1>3. new \in Request
    BY IdleType DEF Request, Stage
<1>4. /\ call' = [call EXCEPT ![c] = new]
      /\ call[c].stage = "idle" /\ ticket[t] = NULL /\ Creating(t) = {}
    BY DEF CreateTicket
<1>5. /\ call'[c].stage = "addTicket" /\ call'[c].ticket = t /\ call'[c].messages = {m}
      /\ call'[c].marked = {} /\ \A d \in Call : d # c => call'[d] = call[d]
    BY <1>1, <1>4 DEF TypeOK, Idle
<1>6. TypeOK'
    BY <1>1, <1>2, <1>3, <1>4 DEF TypeOK
<1>7. \A n \in Message : n # m => (Sent(n)' <=> Sent(n)) /\ (Unread(n)' <=> Unread(n))
    BY <1>2 DEF Sent, Unread
<1>8. \A u \in Ticket : MessagesOf(u)' = MessagesOf(u)
    BY <1>2, <1>7, ThreadsAssumption DEF MessagesOf
<1>9. Creations'
  <2> SUFFICES ASSUME NEW d \in Call, call'[d].stage = "addTicket"
               PROVE  /\ call'[d].ticket \in Ticket /\ ticket[call'[d].ticket] = NULL
                      /\ call'[d].messages # {}
                      /\ \A n \in call'[d].messages : Sent(n)' /\ message'[n].ticket = NULL
    BY <1>1 DEF Creations
  <2>1. CASE d = c
    BY <1>2, <1>4, <1>5, <2>1
  <2>2. CASE d # c
    <3>1. /\ call[d].ticket \in Ticket /\ ticket[call[d].ticket] = NULL
          /\ call[d].messages # {} /\ call[d].messages \subseteq Message
          /\ \A n \in call[d].messages : Sent(n) /\ message[n].ticket = NULL
      BY <1>1, <1>5, <2>2 DEF Protocol, Creations, TypeOK, Request
    <3> QED BY <1>2, <1>5, <1>7, <2>2, <3>1
  <2> QED BY <2>1, <2>2
<1>10. Separate'
  <2>1. \A d \in Call : call[d].stage = "addTicket" => call[d].ticket # t /\ m \notin call[d].messages
    BY <1>1, <1>2, <1>4 DEF Creating, Protocol, Creations
  <2> QED BY <1>1, <1>5, <2>1 DEF Protocol, Separate
<1>11. Openings'
    BY <1>1, <1>5 DEF Protocol, Openings
<1>12. Met'
    BY <1>1, <1>2, <1>5, <1>7, <1>8 DEF Protocol, Met, Openings, MessagesOf
<1>13. Found'
    BY <1>1, <1>2, <1>5, <1>7 DEF Protocol, Found, TypeOK, Request
<1>14. Linked'
    BY <1>1, <1>2, <1>7 DEF Protocol, Linked, TypeOK
<1>15. ReadWasShown'
  <2>1. UnderWay' = UnderWay
    <3>1. call[c].marked = {}
      BY <1>1, <1>4 DEF Protocol, Openings
    <3>2. \A d \in Call : call'[d].marked = call[d].marked
      BY <3>1, <1>5
    <3> QED BY <3>2 DEF UnderWay
  <2> QED BY <1>1, <1>2, <1>7, <2>1 DEF ReadWasShown
<1>16. ShownIsRead'
    BY <1>1, <1>2, <1>7 DEF ShownIsRead, Protocol, Linked, TypeOK
<1>17. CreationIsWhole'
    BY <1>1, <1>2, <1>4, <1>5, <1>7, <1>8 DEF CreationIsWhole
<1> QED BY <1>6, <1>9, <1>10, <1>11, <1>12, <1>13, <1>14, <1>15, <1>16, <1>17 DEF IInv, Protocol

\* A request that ends, and what it had marked.
LEMMA FinishEffect ==
    ASSUME TypeOK, NEW c \in Call, Finish(c)
    PROVE  /\ call' \in [Call -> Request]
           /\ call'[c].stage = "idle" /\ call'[c].marked = {}
           /\ \A d \in Call : d # c => call'[d] = call[d]
           /\ UnderWay \subseteq UnderWay' \cup call[c].marked
<1>1. /\ call' \in [Call -> Request]
      /\ call'[c].stage = "idle" /\ call'[c].marked = {}
      /\ \A d \in Call : d # c => call'[d] = call[d]
    BY IdleType DEF Finish, TypeOK, Idle
<1>2. ASSUME NEW m \in UnderWay, m \notin call[c].marked PROVE m \in UnderWay'
  <2>1. PICK d \in Call : m \in call[d].marked
    BY <1>2 DEF UnderWay
  <2>2. d # c
    BY <1>2, <2>1
  <2> QED BY <1>1, <2>1, <2>2 DEF UnderWay
<1> QED BY <1>1, <1>2

\* The ticket is saved, and with it the link of its message.
LEMMA AddTicketIInv == ASSUME IInv, NEW c \in Call, AddTicket(c) PROVE IInv'
<1>0. PICK t \in Ticket : t = call[c].ticket
    BY DEF IInv, Protocol, Creations, AddTicket
<1>1. /\ TypeOK /\ Protocol /\ ReadWasShown /\ ShownIsRead /\ CreationIsWhole
      /\ UNCHANGED <<payment, shown, unshown, late, loose>> /\ call[c].stage = "addTicket"
    BY DEF IInv, AddTicket, history
<1>2. /\ ticket[t] = NULL /\ call[c].messages # {} /\ call[c].messages \subseteq Message
      /\ \A m \in call[c].messages : Sent(m) /\ message[m].ticket = NULL
    BY <1>0, <1>1 DEF Protocol, Creations, TypeOK, Request
<1>3. /\ call' \in [Call -> Request]
      /\ call'[c].stage = "idle" /\ call'[c].marked = {}
      /\ \A d \in Call : d # c => call'[d] = call[d]
      /\ UnderWay \subseteq UnderWay' \cup call[c].marked
    BY <1>1, FinishEffect DEF AddTicket
<1>4. /\ ticket' = [ticket EXCEPT ![t] = call[c].about]
      /\ message' = [m \in Message |-> IF m \in call[c].messages
                                       THEN [message[m] EXCEPT !.ticket = t]
                                       ELSE message[m]]
    BY <1>0 DEF AddTicket
<1>5. ASSUME NEW m \in Message
      PROVE  /\ message'[m] \in Row \cup {NULL}
             /\ (Sent(m)' <=> Sent(m))
             /\ Sent(m) => message'[m].status = message[m].status
             /\ Sent(m) => message'[m].ticket = IF m \in call[c].messages THEN t ELSE message[m].ticket
  <2>1. CASE m \in call[c].messages
    <3>1. message[m] \in Row
      BY <1>1, <1>2, <2>1, SentType
    <3>2. message'[m] = [message[m] EXCEPT !.ticket = t]
      BY <1>4, <2>1
    <3>3. message'[m] \in Row /\ message'[m].status = message[m].status /\ message'[m].ticket = t
      BY <1>2, <3>1, <3>2 DEF Row
    <3> QED BY <2>1, <3>3, <1>2, ThreadsAssumption DEF Sent
  <2>2. CASE m \notin call[c].messages
    BY <1>1, <1>4, <2>2 DEF Sent, TypeOK
  <2> QED BY <2>1, <2>2
<1>6. TypeOK'
  <2>1. message' \in [Message -> Row \cup {NULL}]
    BY <1>4, <1>5
  <2>2. ticket' \in [Ticket -> About \cup {NULL}]
    BY <1>1, <1>4 DEF TypeOK, Request
  <2> QED BY <1>1, <1>3, <2>1, <2>2 DEF TypeOK
<1>7. /\ ticket'[t] # NULL /\ \A u \in Ticket : u # t => ticket'[u] = ticket[u]
      /\ \A u \in Ticket : ticket[u] # NULL => ticket'[u] # NULL
    BY <1>1, <1>2, <1>4, ThreadsAssumption DEF TypeOK, Request
<1>8. /\ \A u \in Ticket : u # t => MessagesOf(u)' = MessagesOf(u)
      /\ call[c].messages \subseteq MessagesOf(t)'
      /\ \A u \in Ticket : MessagesOf(u) \subseteq MessagesOf(u)'
    BY <1>2, <1>5, ThreadsAssumption DEF MessagesOf
<1>9. Creations'
  <2> SUFFICES ASSUME NEW d \in Call, call'[d].stage = "addTicket"
               PROVE  /\ call'[d].ticket \in Ticket /\ ticket'[call'[d].ticket] = NULL
                      /\ call'[d].messages # {}
                      /\ \A n \in call'[d].messages : Sent(n)' /\ message'[n].ticket = NULL
    BY DEF Creations
  <2>1. d # c /\ call'[d] = call[d]
    BY <1>3
  <2>2. /\ call[d].ticket \in Ticket /\ ticket[call[d].ticket] = NULL
        /\ call[d].messages # {} /\ call[d].messages \subseteq Message
        /\ \A n \in call[d].messages : Sent(n) /\ message[n].ticket = NULL
    BY <1>1, <2>1 DEF Protocol, Creations, TypeOK, Request
  <2>3. call[d].ticket # t /\ call[d].messages \cap call[c].messages = {}
    BY <1>0, <1>1, <2>1 DEF Protocol, Separate
  <2> QED BY <1>5, <1>7, <2>1, <2>2, <2>3
<1>10. Separate'
    BY <1>1, <1>3 DEF Protocol, Separate
<1>11. Openings'
    BY <1>1, <1>3, <1>7 DEF Protocol, Openings
<1>12. Met'
    BY <1>0, <1>1, <1>2, <1>3, <1>5, <1>8 DEF Protocol, Met, Openings, MessagesOf, Unread
<1>13. Found'
    BY <1>1, <1>3, <1>5 DEF Protocol, Found, TypeOK, Request, Unread
<1>14. Linked'
  <2>1. ASSUME NEW m \in Message, Sent(m)', message'[m].ticket # NULL
        PROVE  ticket'[message'[m].ticket] # NULL
    <3>1. Sent(m) /\ message'[m].ticket \in Ticket
      BY <1>5, <1>6, <2>1 DEF TypeOK, Sent, Row
    <3> QED BY <1>1, <1>5, <1>7, <3>1, <2>1 DEF Protocol, Linked
  <2> QED BY <1>1, <1>5, <2>1 DEF Protocol, Linked, TypeOK
<1>15. ReadWasShown'
  <2>1. call[c].marked = {}
    BY <1>1 DEF Protocol, Openings
  <2> QED BY <1>1, <1>3, <1>5, <2>1 DEF ReadWasShown
<1>16. ShownIsRead'
    BY <1>1, <1>5 DEF ShownIsRead, Protocol, Linked, TypeOK
<1>17. CreationIsWhole'
  <2>1. \A u \in Ticket : ticket'[u] # NULL => MessagesOf(u)' # {}
    BY <1>1, <1>2, <1>7, <1>8 DEF CreationIsWhole
  <2>2. ASSUME NEW m \in Message, Sent(m)', message'[m].ticket = NULL
        PROVE  m \in loose' \/ \E d \in Call : call'[d].stage = "addTicket" /\ m \in call'[d].messages
    <3>1. m \notin call[c].messages /\ Sent(m) /\ message[m].ticket = NULL
      BY <1>2, <1>5, <2>2, ThreadsAssumption
    <3> QED BY <1>1, <1>3, <3>1 DEF CreationIsWhole
  <2> QED BY <2>1, <2>2 DEF CreationIsWhole
<1> QED BY <1>6, <1>9, <1>10, <1>11, <1>12, <1>13, <1>14, <1>15, <1>16, <1>17 DEF IInv, Protocol

\* A creation that fails leaves its message without a ticket.
LEMMA AddTicketFailsIInv == ASSUME IInv, NEW c \in Call, AddTicketFails(c) PROVE IInv'
<1>1. /\ TypeOK /\ Protocol /\ ReadWasShown /\ ShownIsRead /\ CreationIsWhole
      /\ UNCHANGED <<ticket, message, payment, shown, unshown, late>>
      /\ call[c].stage = "addTicket" /\ loose' = loose \cup call[c].messages
    BY DEF IInv, AddTicketFails, tables
<1>2. /\ call' \in [Call -> Request]
      /\ call'[c].stage = "idle" /\ call'[c].marked = {}
      /\ \A d \in Call : d # c => call'[d] = call[d]
      /\ UnderWay \subseteq UnderWay' \cup call[c].marked
    BY <1>1, FinishEffect DEF AddTicketFails
<1>3. TypeOK'
    BY <1>1, <1>2 DEF TypeOK, Request
<1>4. Protocol'
    BY <1>1, <1>2
    DEF Protocol, Creations, Separate, Openings, Met, Found, Linked, Sent, Unread, MessagesOf
<1>5. ReadWasShown'
  <2>1. call[c].marked = {}
    BY <1>1 DEF Protocol, Openings
  <2> QED BY <1>1, <1>2, <2>1 DEF ReadWasShown, Sent
<1>6. ShownIsRead' /\ CreationIsWhole'
    BY <1>1, <1>2 DEF ShownIsRead, CreationIsWhole, Sent, MessagesOf
<1> QED BY <1>3, <1>4, <1>5, <1>6 DEF IInv

\* An opening marks the messages there are.
LEMMA MarkReadIInv == ASSUME IInv, NEW c \in Call, NEW t \in Ticket, MarkRead(c, t) PROVE IInv'
<1>1. /\ TypeOK /\ Protocol /\ ReadWasShown /\ ShownIsRead /\ CreationIsWhole
      /\ UNCHANGED <<ticket, payment, shown, unshown, late, loose>>
      /\ call[c].stage = "idle" /\ ticket[t] # NULL
    BY DEF IInv, MarkRead, history
<1> DEFINE new == [Idle EXCEPT !.stage = "find", !.ticket = t, !.marked = MessagesOf(t)]
<1>2. new \in Request
    BY IdleType DEF Request, Stage, MessagesOf
<1>3. call' = [call EXCEPT ![c] = new]
    BY DEF MarkRead
<1>4. /\ call'[c].stage = "find" /\ call'[c].ticket = t /\ call'[c].marked = MessagesOf(t)
      /\ \A d \in Call : d # c => call'[d] = call[d]
    BY <1>1, <1>3 DEF TypeOK, Idle
<1>5. ASSUME NEW m \in Message
      PROVE  /\ message'[m] \in Row \cup {NULL} /\ (Sent(m)' <=> Sent(m))
             /\ Sent(m) => message'[m].ticket = message[m].ticket
             /\ Sent(m) => message'[m].status = IF m \in MessagesOf(t) THEN "read"
                                                ELSE message[m].status
  <2>1. message'[m] = IF m \in MessagesOf(t) THEN [message[m] EXCEPT !.status = "read"]
                      ELSE message[m]
    BY DEF MarkRead, Marks
  <2>2. CASE m \in MessagesOf(t)
    <3>1. message[m] \in Row /\ Sent(m)
      BY <1>1, <2>2, SentType DEF MessagesOf
    <3>2. /\ message'[m] \in Row /\ message'[m].ticket = message[m].ticket
          /\ message'[m].status = "read"
      BY <2>1, <2>2, <3>1 DEF Row, MessageStatus
    <3> QED BY <2>2, <3>1, <3>2, ThreadsAssumption DEF Sent
  <2>3. CASE m \notin MessagesOf(t)
    BY <1>1, <2>1, <2>3 DEF TypeOK, Sent
  <2> QED BY <2>2, <2>3
<1>6. TypeOK'
  <2>1. message' \in [Message -> Row \cup {NULL}]
    BY <1>5 DEF MarkRead
  <2> QED BY <1>1, <1>2, <1>3, <2>1 DEF TypeOK
<1>7. \A u \in Ticket : MessagesOf(u)' = MessagesOf(u)
    BY <1>5 DEF MessagesOf
<1>8. \A m \in Message : Sent(m) /\ ~Unread(m) => ~Unread(m)'
    BY <1>5 DEF Unread
<1>9. Creations'
    BY <1>1, <1>4, <1>5 DEF Protocol, Creations, TypeOK, Request
<1>10. Separate' /\ Openings'
    BY <1>1, <1>4 DEF Protocol, Separate, Openings
<1>11. Met'
  <2> SUFFICES ASSUME NEW d \in Call, NEW u \in Ticket, call'[d].stage = "find", u = call'[d].ticket
               PROVE  /\ call'[d].marked \subseteq MessagesOf(u)'
                      /\ \A m \in MessagesOf(u)' : ~Unread(m)' \/ m \in late
    BY <1>1, <1>10 DEF Met, Openings
  <2>1. CASE d = c
    BY <1>4, <1>5, <1>7, <2>1 DEF MessagesOf, Unread
  <2>2. CASE d # c
    BY <1>1, <1>4, <1>7, <1>8, <2>2 DEF Protocol, Met, MessagesOf
  <2> QED BY <2>1, <2>2
<1>12. Found'
    BY <1>1, <1>4, <1>5, <1>8 DEF Protocol, Found, TypeOK, Request
<1>13. Linked'
    BY <1>1, <1>5 DEF Protocol, Linked, TypeOK
<1>14. ReadWasShown'
  <2>1. UnderWay' = UnderWay \cup MessagesOf(t)
    <3>1. call[c].marked = {}
      BY <1>1 DEF Protocol, Openings
    <3> QED BY <3>1, <1>4 DEF UnderWay
  <2> QED BY <1>1, <1>5, <2>1 DEF ReadWasShown
<1>15. ShownIsRead'
    BY <1>1, <1>5 DEF ShownIsRead, Protocol, Linked, TypeOK
<1>16. CreationIsWhole'
    BY <1>1, <1>4, <1>5, <1>7 DEF CreationIsWhole
<1> QED BY <1>6, <1>9, <1>10, <1>11, <1>12, <1>13, <1>14, <1>15, <1>16 DEF IInv, Protocol

\* An opening reads the messages, the late ones too.
LEMMA FindTicketIInv == ASSUME IInv, NEW c \in Call, FindTicket(c) PROVE IInv'
<1>1. /\ TypeOK /\ Protocol /\ ReadWasShown /\ ShownIsRead /\ CreationIsWhole
      /\ UNCHANGED <<ticket, message, payment, shown, unshown, late, loose>>
      /\ call[c].stage = "find"
    BY DEF IInv, FindTicket, tables, history
<1>2. call[c] \in Request
    BY <1>1 DEF TypeOK
<1> DEFINE new == [call[c] EXCEPT !.stage = "lookUp", !.messages = MessagesOf(call[c].ticket)]
<1>3. new \in Request
    BY <1>2 DEF Request, Stage, MessagesOf
<1>4. call' = [call EXCEPT ![c] = new]
    BY DEF FindTicket
<1>5. /\ call'[c].stage = "lookUp" /\ call'[c].ticket = call[c].ticket
      /\ call'[c].messages = MessagesOf(call[c].ticket) /\ call'[c].marked = call[c].marked
      /\ \A d \in Call : d # c => call'[d] = call[d]
    BY <1>1, <1>2, <1>4 DEF TypeOK, Request
<1>6. TypeOK'
    BY <1>1, <1>3, <1>4 DEF TypeOK
<1>7. Creations' /\ Separate' /\ Openings' /\ Linked'
    BY <1>1, <1>5 DEF Protocol, Creations, Separate, Openings, Linked, Sent
<1>8. Met' /\ Found'
    BY <1>1, <1>5 DEF Protocol, Met, Found, Sent, Unread, MessagesOf
<1>9. ReadWasShown'
  <2>1. UnderWay' = UnderWay
    BY <1>5 DEF UnderWay
  <2> QED BY <1>1, <2>1 DEF ReadWasShown, Sent
<1>10. ShownIsRead' /\ CreationIsWhole'
    BY <1>1, <1>5 DEF ShownIsRead, CreationIsWhole, Sent, MessagesOf
<1> QED BY <1>6, <1>7, <1>8, <1>9, <1>10 DEF IInv, Protocol

\* What was found is shown.
LEMMA AnswerIInv == ASSUME IInv, NEW c \in Call, Answer(c) PROVE IInv'
<1>1. /\ TypeOK /\ Protocol /\ ReadWasShown /\ ShownIsRead /\ CreationIsWhole
      /\ UNCHANGED <<ticket, message, payment, unshown, late, loose>>
      /\ call[c].stage = "lookUp" /\ shown' = shown \cup call[c].messages
    BY DEF IInv, Answer, tables
<1>2. /\ call' \in [Call -> Request]
      /\ call'[c].stage = "idle" /\ call'[c].marked = {}
      /\ \A d \in Call : d # c => call'[d] = call[d]
      /\ UnderWay \subseteq UnderWay' \cup call[c].marked
    BY <1>1, FinishEffect DEF Answer
<1>3. /\ call[c].marked \subseteq call[c].messages /\ call[c].messages \subseteq Message
      /\ \A m \in call[c].messages : Sent(m) /\ (~Unread(m) \/ m \in late)
    BY <1>1 DEF Protocol, Found, TypeOK, Request
<1>4. TypeOK'
    BY <1>1, <1>2, <1>3 DEF TypeOK
<1>5. Protocol'
    BY <1>1, <1>2, <1>3
    DEF Protocol, Creations, Separate, Openings, Met, Found, Linked, Sent, Unread, MessagesOf
<1>6. ReadWasShown'
    BY <1>1, <1>2, <1>3 DEF ReadWasShown, Sent
<1>7. ShownIsRead'
    BY <1>1, <1>3, SentType DEF ShownIsRead
<1>8. CreationIsWhole'
    BY <1>1, <1>2 DEF CreationIsWhole, Sent, MessagesOf
<1> QED BY <1>4, <1>5, <1>6, <1>7, <1>8 DEF IInv

\* An opening that throws leaves its messages marked.
LEMMA LookUpThrowsIInv == ASSUME IInv, NEW c \in Call, LookUpThrows(c) PROVE IInv'
<1>1. /\ TypeOK /\ Protocol /\ ReadWasShown /\ ShownIsRead /\ CreationIsWhole
      /\ UNCHANGED <<ticket, message, payment, shown, late, loose>>
      /\ call[c].stage = "lookUp" /\ unshown' = unshown \cup call[c].marked
    BY DEF IInv, LookUpThrows, tables
<1>2. /\ call' \in [Call -> Request]
      /\ call'[c].stage = "idle" /\ call'[c].marked = {}
      /\ \A d \in Call : d # c => call'[d] = call[d]
      /\ UnderWay \subseteq UnderWay' \cup call[c].marked
    BY <1>1, FinishEffect DEF LookUpThrows
<1>3. TypeOK'
    BY <1>1, <1>2 DEF TypeOK, Request
<1>4. Protocol'
    BY <1>1, <1>2
    DEF Protocol, Creations, Separate, Openings, Met, Found, Linked, Sent, Unread, MessagesOf
<1>5. ReadWasShown'
    BY <1>1, <1>2 DEF ReadWasShown, Sent
<1>6. ShownIsRead' /\ CreationIsWhole'
    BY <1>1, <1>2 DEF ShownIsRead, CreationIsWhole, Sent, MessagesOf
<1> QED BY <1>3, <1>4, <1>5, <1>6 DEF IInv

\* A restart breaks every request off.
LEMMA RestartIInv == IInv /\ Restart => IInv'
<1> SUFFICES ASSUME IInv, Restart PROVE IInv'
    OBVIOUS
<1>1. /\ TypeOK /\ Protocol /\ ReadWasShown /\ ShownIsRead /\ CreationIsWhole
      /\ UNCHANGED <<ticket, message, payment, shown, late>>
      /\ \A c \in Call : call'[c] = Idle
      /\ unshown' = unshown \cup UnderWay
    BY DEF IInv, Restart, tables, UnderWay
<1>2. loose \subseteq loose'
      /\ \A c \in Call : call[c].stage = "addTicket" => call[c].messages \subseteq loose'
    BY DEF Restart
<1>3. TypeOK'
  <2>1. call' \in [Call -> Request]
    BY IdleType DEF Restart
  <2>2. unshown' \subseteq Message /\ loose' \subseteq Message
    BY <1>1 DEF Restart, TypeOK, Request, UnderWay
  <2> QED BY <1>1, <2>1, <2>2 DEF TypeOK
<1>4. Protocol'
    BY <1>1 DEF Protocol, Creations, Separate, Openings, Met, Found, Linked, Sent, Idle
<1>5. ReadWasShown'
    BY <1>1 DEF ReadWasShown, Sent
<1>6. ShownIsRead' /\ CreationIsWhole'
    BY <1>1, <1>2 DEF ShownIsRead, CreationIsWhole, Sent, MessagesOf
<1> QED BY <1>3, <1>4, <1>5, <1>6 DEF IInv

\* Every step keeps the invariant.
LEMMA NextIInv == IInv /\ [Next]_vars => IInv'
<1> SUFFICES ASSUME IInv, [Next]_vars PROVE IInv'
    OBVIOUS
<1>1. ASSUME NEW t \in Ticket, SavePayment(t) PROVE IInv'
  <2>1. UNCHANGED <<ticket, message, call, shown, unshown, late, loose>> /\ payment' \subseteq Ticket
    BY <1>1 DEF SavePayment, tables, history, IInv, TypeOK
  <2> QED BY <2>1 DEF IInv, TypeOK, Protocol, Creations, Separate, Openings, Met, Found, Linked, Sent,
             Unread, MessagesOf, UnderWay, ReadWasShown, ShownIsRead, CreationIsWhole
<1>2. CASE UNCHANGED vars
    BY <1>2 DEF vars, tables, history, IInv, TypeOK, Protocol, Creations, Separate, Openings, Met,
                Found, Linked, Sent, Unread, MessagesOf, UnderWay, ReadWasShown, ShownIsRead,
                CreationIsWhole
<1> QED BY <1>1, <1>2, SendMessageIInv, CreateTicketIInv, AddTicketIInv, AddTicketFailsIInv,
           MarkReadIInv, FindTicketIInv, AnswerIInv, LookUpThrowsIInv, RestartIInv DEF Next

\* The invariant holds in every state.
LEMMA Invariance == Spec => []IInv
BY InitIInv, NextIInv, PTL DEF Spec

-----------------------------------------------------------------------------
(* The theorems.                                                           *)

\* A message that is unread is counted in the table of the one it is for: if it is
\* neither shown nor marked it is unread, its ticket exists and the join keeps it.
LEMMA UnreadIsCounted == IInv => WaitingIsCounted
<1> SUFFICES ASSUME IInv, NEW m \in Message, Sent(m), message[m].ticket # NULL,
                    m \notin shown \cup unshown \cup UnderWay
             PROVE  LET t == message[m].ticket
                        counts == IF message[m].sender = "host" THEN GetTicketsByGuestId
                                  ELSE GetTicketsByHostId
                    IN  t \in DOMAIN counts /\ counts[t] > 0
    BY DEF WaitingIsCounted
<1> DEFINE t == message[m].ticket
<1>1. /\ t \in Ticket /\ ticket[t] # NULL /\ m \in MessagesOf(t) /\ message[m].status = "unread"
    BY SentType DEF IInv, Protocol, Linked, ReadWasShown, MessagesOf, Row, Unread
<1>2. ASSUME NEW ms \in SUBSET Message, m \in ms PROVE CountUnreadMessages(ms) > 0
  <2> DEFINE unread == {n \in ms : message[n].status = "unread"}
  <2>1. IsFiniteSet(unread) /\ m \in unread
    BY <1>1, <1>2, ThreadsAssumption, FS_Subset
  <2>2. Cardinality(unread) \in Nat /\ Cardinality(unread) # 0
    BY <2>1, FS_CardinalityType, FS_EmptySet
  <2> QED BY <2>2 DEF CountUnreadMessages
<1>3. CASE message[m].sender = "host"
    BY <1>1, <1>2, <1>3 DEF GetTicketsByGuestId, MessagesOf
<1>4. CASE message[m].sender # "host"
  <2>1. m \in ForHost(t) /\ ForHost(t) \subseteq Message
    BY <1>1, <1>4 DEF ForHost, MessagesOf
  <2> QED BY <1>1, <1>2, <1>4, <2>1 DEF GetTicketsByHostId
<1> QED BY <1>3, <1>4

\* The tables and requests stay well-typed (messages.service.ts:30-64).
THEOREM TypeCorrect == Spec => []TypeOK
BY Invariance, PTL DEF IInv

\* A message counts as read only once an opening has marked it, and then it has
\* been shown unless that opening is under way or broke off
\* (messages.repository.ts:180-186).
THEOREM ReadMessagesWereShown == Spec => []ReadWasShown
BY Invariance, PTL DEF IInv

\* A shown message counts as unread only if it slipped in between the marking and
\* the find (messages.repository.ts:180-186).
THEOREM ShownMessagesAreRead == Spec => []ShownIsRead
BY Invariance, PTL DEF IInv

\* Tickets have messages, and messages without a ticket are explained by creations
\* that are under way or broke off (messages.service.ts:47-63).
THEOREM CreationsAreWhole == Spec => []CreationIsWhole
BY Invariance, PTL DEF IInv

\* Whoever is written to finds the message counted until an opening marks it
\* (messages.repository.ts:33-163).
THEOREM WaitingMessagesAreCounted == Spec => []WaitingIsCounted
BY Invariance, UnreadIsCounted, PTL

=============================================================================
