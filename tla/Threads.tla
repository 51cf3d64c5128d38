------------------------------- MODULE Threads -------------------------------
(***************************************************************************)
(* Messages between a guest and a host, kept in tickets.                   *)
(*                                                                         *)
(* A ticket is created with its first message, in two saves; opening it    *)
(* marks its messages read, whoever opens it, and then reads them, in five *)
(* statements.  Nothing runs in a transaction, so messages arrive between  *)
(* the statements of an opening, and an opening or a creation may break    *)
(* off after what it has written.                                          *)
(***************************************************************************)
EXTENDS Naturals, FiniteSets

CONSTANTS
    Ticket,
    Message,
    Call,           \* requests in flight
    NULL

MessageStatus == {"unread", "read"}
\* Who wrote a message: the ticket's guest or its host.
Sender == {"guest", "host"}
\* A row of messages; NULL as its ticket when it has none.
Row == [ticket : Ticket \cup {NULL}, sender : Sender, status : MessageStatus]
\* What a ticket is about: a booking, or a listing that is not booked.
About == {"booking", "property"}

ASSUME ThreadsAssumption ==
    /\ IsFiniteSet(Message)
    /\ NULL \notin Ticket \cup About \cup Row

Stage == {"idle", "addTicket", "find", "lookUp"}
\* A request: its ticket, its first message or the messages it has found and, as
\* history, the messages it has marked read.
Request == [stage : Stage, ticket : Ticket \cup {NULL}, about : About,
            messages : SUBSET Message, marked : SUBSET Message]

VARIABLES
    ticket,     \* tickets: what each is about, NULL before creation
    message,    \* messages, NULL before they are sent
    payment,    \* external: tickets whose booking has a row of payments
    call,       \* requests in flight
    shown,      \* history: messages that an answer has contained
    unshown,    \* history: messages that an opening has marked and broke off
    late,       \* history: messages that came after an opening's marking, before its find
    loose       \* history: messages of broken creations, or sent without a ticket

tables == <<ticket, message>>
history == <<shown, unshown, late, loose>>
vars == <<tables, payment, call, history>>

TypeOK ==
    /\ ticket \in [Ticket -> About \cup {NULL}]
    /\ message \in [Message -> Row \cup {NULL}]
    /\ payment \in SUBSET Ticket
    /\ call \in [Call -> Request]
    /\ shown \in SUBSET Message /\ unshown \in SUBSET Message
    /\ late \in SUBSET Message /\ loose \in SUBSET Message

-----------------------------------------------------------------------------

Idle == [stage |-> "idle", ticket |-> NULL, about |-> "property", messages |-> {},
         marked |-> {}]

Init ==
    /\ ticket = [t \in Ticket |-> NULL]
    /\ message = [m \in Message |-> NULL]
    /\ payment = {}
    /\ call = [c \in Call |-> Idle]
    /\ shown = {} /\ unshown = {} /\ late = {} /\ loose = {}

Finish(c) == call' = [call EXCEPT ![c] = Idle]

Sent(m) == message[m] # NULL
MessagesOf(t) == {m \in Message : Sent(m) /\ message[m].ticket = t}
CreateMessage(m, t, sender) ==
    /\ ~Sent(m)
    /\ message' = [message EXCEPT ![m] = [ticket |-> t, sender |-> sender, status |-> "unread"]]

Creating(t) == {c \in Call : call[c].stage = "addTicket" /\ call[c].ticket = t}
Marking(t) == {c \in Call : call[c].stage = "find" /\ call[c].ticket = t}

-----------------------------------------------------------------------------
(* sendMessage, createTicket.                                              *)

\* The ticket is taken from the body, which may leave it out; a ticket that does
\* not exist breaks the foreign key.
SendMessage(m, t, sender) ==
    /\ t # NULL => ticket[t] # NULL
    /\ CreateMessage(m, t, sender)
    /\ late' = late \cup (IF t # NULL /\ Marking(t) # {} THEN {m} ELSE {})
    /\ loose' = loose \cup (IF t = NULL THEN {m} ELSE {})
    /\ UNCHANGED <<ticket, payment, call, shown, unshown>>

\* The message is saved first, on its own.
CreateTicket(c, t, about, m, sender) ==
    /\ call[c].stage = "idle" /\ ticket[t] = NULL /\ Creating(t) = {}
    /\ CreateMessage(m, NULL, sender)
    /\ call' = [call EXCEPT ![c] = [Idle EXCEPT !.stage = "addTicket", !.ticket = t,
                                             !.about = about, !.messages = {m}]]
    /\ UNCHANGED <<ticket, payment, history>>

\* Fault: the ticket is saved without its message.
AddTicketAlone(c) ==
    /\ call[c].stage = "addTicket"
    /\ ticket' = [ticket EXCEPT ![call[c].ticket] = call[c].about]
    /\ loose' = loose \cup call[c].messages
    /\ Finish(c)
    /\ UNCHANGED <<message, payment, shown, unshown, late>>

\* Saving the ticket with its messages writes their ticketId, in one transaction.
AddTicket(c) ==
    LET t == call[c].ticket
    IN  /\ call[c].stage = "addTicket"
        /\ ticket' = [ticket EXCEPT ![t] = call[c].about]
        /\ message' = [m \in Message |-> IF m \in call[c].messages
                                         THEN [message[m] EXCEPT !.ticket = t]
                                         ELSE message[m]]
        /\ Finish(c)
        /\ UNCHANGED <<payment, history>>

\* No title, no host, or a booking that does not exist: the second save fails.
AddTicketFails(c) ==
    /\ call[c].stage = "addTicket"
    /\ loose' = loose \cup call[c].messages
    /\ Finish(c)
    /\ UNCHANGED <<tables, payment, shown, unshown, late>>

-----------------------------------------------------------------------------
(* getMessagesByTicketId.                                                  *)

\* Fault: the UPDATE has lost its condition.
MarksAll(m, t) == Sent(m)
\* Fault: only what the guest wrote is marked.
MarksGuests(m, t) == m \in MessagesOf(t) /\ message[m].sender = "guest"
Marks(m, t) == m \in MessagesOf(t)

\* All messages of the ticket, the reader's own among them, become read.
MarkRead(c, t) ==
    /\ call[c].stage = "idle" /\ ticket[t] # NULL
    /\ message' = [m \in Message |-> IF Marks(m, t) THEN [message[m] EXCEPT !.status = "read"]
                                     ELSE message[m]]
    /\ call' = [call EXCEPT ![c] = [Idle EXCEPT !.stage = "find", !.ticket = t,
                                             !.marked = MessagesOf(t)]]
    /\ UNCHANGED <<ticket, payment, history>>

FindTicket(c) ==
    /\ call[c].stage = "find"
    /\ call' = [call EXCEPT ![c].stage = "lookUp", ![c].messages = MessagesOf(call[c].ticket)]
    /\ UNCHANGED <<tables, payment, history>>

\* A booking without a payment, and a ticket without messages, make the lookups throw.
Answers(c) ==
    /\ call[c].messages # {}
    /\ ticket[call[c].ticket] = "booking" => call[c].ticket \in payment

\* Fault: the messages are marked once more, as the answer is sent.
AnswerAndMark(c) ==
    LET t == call[c].ticket
    IN  /\ call[c].stage = "lookUp" /\ Answers(c)
        /\ message' = [m \in Message |-> IF Marks(m, t) THEN [message[m] EXCEPT !.status = "read"]
                                         ELSE message[m]]
        /\ shown' = shown \cup call[c].messages
        /\ Finish(c)
        /\ UNCHANGED <<ticket, payment, unshown, late, loose>>

Answer(c) ==
    /\ call[c].stage = "lookUp" /\ Answers(c)
    /\ shown' = shown \cup call[c].messages
    /\ Finish(c)
    /\ UNCHANGED <<tables, payment, unshown, late, loose>>

\* The messages are marked already.
LookUpThrows(c) ==
    /\ call[c].stage = "lookUp" /\ ~Answers(c)
    /\ unshown' = unshown \cup call[c].marked
    /\ Finish(c)
    /\ UNCHANGED <<tables, payment, shown, late, loose>>

-----------------------------------------------------------------------------
(* The environment: the booking's payment is saved; a restart.             *)

SavePayment(t) ==
    /\ t \notin payment
    /\ payment' = payment \cup {t}
    /\ UNCHANGED <<tables, call, history>>

Restart ==
    /\ \E c \in Call : call[c].stage # "idle"
    /\ call' = [c \in Call |-> Idle]
    /\ unshown' = unshown \cup UNION {call[c].marked : c \in Call}
    /\ loose' = loose \cup UNION {call[c].messages : c \in {d \in Call : call[d].stage = "addTicket"}}
    /\ UNCHANGED <<tables, payment, shown, late>>

Next ==
    \/ \E m \in Message, sender \in Sender :
         \/ \E t \in Ticket \cup {NULL} : SendMessage(m, t, sender)
         \/ \E c \in Call, t \in Ticket, about \in About : CreateTicket(c, t, about, m, sender)
    \/ \E c \in Call : \/ AddTicket(c) \/ AddTicketFails(c)
                       \/ \E t \in Ticket : MarkRead(c, t)
                       \/ FindTicket(c) \/ Answer(c) \/ LookUpThrows(c)
    \/ \E t \in Ticket : SavePayment(t)
    \/ Restart

Spec == Init /\ [][Next]_vars

-----------------------------------------------------------------------------
(* The tables of tickets, getTicketsByHostId and getTicketsByGuestId.      *)

CountUnreadMessages(ms) == Cardinality({m \in ms : message[m].status = "unread"})

\* The join keeps the messages others wrote, and the tickets that have one.
ForHost(t) == {m \in MessagesOf(t) : message[m].sender # "host"}
GetTicketsByHostId ==
    [t \in {u \in Ticket : ticket[u] # NULL /\ ForHost(u) # {}} |-> CountUnreadMessages(ForHost(t))]

\* The guest's own messages count until someone opens the ticket.
GetTicketsByGuestId ==
    [t \in {u \in Ticket : ticket[u] # NULL} |-> CountUnreadMessages(MessagesOf(t))]

-----------------------------------------------------------------------------
(* Properties.                                                             *)

\* What openings under way have marked.
UnderWay == UNION {call[c].marked : c \in Call}

\* A message counts as read only if an answer has shown it, or an opening that
\* has marked it is still under way or broke off: it is marked before it is
\* fetched, so what arrives in between is not lost from the counts
\* (messages.repository.ts:180-186).
ReadWasShown ==
    \A m \in Message : Sent(m) /\ message[m].status = "read" =>
        m \in shown \cup unshown \cup UnderWay

\* A message that was shown counts as unread only if it came while the ticket was
\* being opened, after the marking (messages.repository.ts:180-186).
ShownIsRead ==
    \A m \in shown : message[m].status = "read" \/ m \in late

\* Although ticket and first message are saved apart, every ticket has a message,
\* so that opening it finds it, and a message has no ticket only while its ticket
\* is being created, when the creation broke off between the saves, or when the
\* sender named none (messages.service.ts:47-63).
CreationIsWhole ==
    /\ \A t \in Ticket : ticket[t] # NULL => MessagesOf(t) # {}
    /\ \A m \in Message : Sent(m) /\ message[m].ticket = NULL =>
         m \in loose \/ \E c \in Call : call[c].stage = "addTicket" /\ m \in call[c].messages

\* Nobody waits unnoticed: a message that no answer has shown and no opening has
\* marked is counted in the table of the one it is for
\* (messages.repository.ts:33-87, 89-163, messages-utils.ts:67-79).
WaitingIsCounted ==
    \A m \in Message :
        LET t == message[m].ticket
            counts == IF message[m].sender = "host" THEN GetTicketsByGuestId ELSE GetTicketsByHostId
        IN  /\ Sent(m) /\ t # NULL
            /\ m \notin shown \cup unshown \cup UnderWay
            => t \in DOMAIN counts /\ counts[t] > 0

=============================================================================
