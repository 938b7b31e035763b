--------------------------- MODULE ChatConversation ---------------------------
(***************************************************************************)
(* The conversation of one booking: src/src/chat/chat.service.ts and       *)
(* chat.gateway.ts.                                                        *)
(*                                                                         *)
(* It is opened and closed after the booking's own commit, best effort, by *)
(* reading the row and saving the copy.  Messages are stored under a lock  *)
(* of the conversation, then emitted to the sockets of this process and    *)
(* over Redis to those of the others.  Left out: texts, typing signals,    *)
(* lists and notifications; the ride ends with the booking.                *)
(***************************************************************************)
EXTENDS Naturals, FiniteSets

CONSTANTS Requests,  \* requests in progress
          Processes, \* application processes
          MaxKeys    \* bound: client message ids of a sender

VARIABLES booking,      \* "PENDING", "CONFIRMED" or "ENDED"
          commute,      \* bookingMode is COMMUTE
          conversation, \* status and number of the last message, 0 for none
          messages,     \* sender, client id, number in order of creation, whether read
          request,      \* request |-> how far it is and what it read
          bus,          \* messages Redis still carries, with the process they are for
          heard         \* process |-> message |-> times its sockets were told

chatVars == <<booking, commute, conversation, messages, request, bus, heard>>

Users == {"driver", "passenger"}
Ids == Users \X (1..MaxKeys)
Idle == [at |-> "idle", id |-> <<"driver", 1>>, last |-> 0, send |-> FALSE]

Init ==
  /\ booking = "PENDING" /\ commute \in BOOLEAN
  /\ conversation = [status |-> "NONE", last |-> 0]
  /\ messages = {} /\ bus = {}
  /\ request = [r \in Requests |-> Idle]
  /\ heard = [p \in Processes |-> [id \in Ids |-> 0]]

Goes(r, to) == request' = [request EXCEPT ![r] = to]

\* The bookings and rides services decide this.
Confirm ==
  /\ booking = "PENDING" /\ booking' = "CONFIRMED"
  /\ UNCHANGED <<commute, conversation, messages, request, bus, heard>>

EndBooking ==
  /\ booking # "ENDED" /\ booking' = "ENDED"
  /\ UNCHANGED <<commute, conversation, messages, request, bus, heard>>

-----------------------------------------------------------------------------
(* Opening and closing.                                                    *)

isChatEligibleBooking == booking = "CONFIRMED" \/ (commute /\ booking = "PENDING")

OpenReads(r) ==
  /\ request[r] = Idle /\ conversation.status = "NONE" /\ isChatEligibleBooking
  /\ Goes(r, [Idle EXCEPT !.at = "open"])
  /\ UNCHANGED <<booking, commute, conversation, messages, bus, heard>>

\* The row of a second opener violates the unique booking: it takes the first.
OpenSaves(r) ==
  /\ request[r].at = "open"
  /\ conversation' = IF conversation.status = "NONE" THEN [conversation EXCEPT !.status = "OPEN"]
                     ELSE conversation
  /\ Goes(r, Idle)
  /\ UNCHANGED <<booking, commute, messages, bus, heard>>

CloseReads(r) ==
  /\ request[r] = Idle /\ booking = "ENDED" /\ conversation.status = "OPEN"
  /\ Goes(r, [Idle EXCEPT !.at = "close", !.last = conversation.last])
  /\ UNCHANGED <<booking, commute, conversation, messages, bus, heard>>

\* The whole copy is written back, the time of the last message with it.  A
\* sender goes on with what is stored now.
CloseSaves(r) ==
  /\ request[r].at = "close"
  /\ conversation' = [status |-> "CLOSED", last |-> request[r].last]
  /\ Goes(r, Idle)
  /\ UNCHANGED <<booking, commute, messages, bus, heard>>

\* Failures are logged; a sender then goes on with the open conversation.
CloseFails(r) ==
  /\ request[r].at = "close"
  /\ Goes(r, IF request[r].send THEN [request[r] EXCEPT !.at = "checked"] ELSE Idle)
  /\ UNCHANGED <<booking, commute, conversation, messages, bus, heard>>

-----------------------------------------------------------------------------
(* Messages.                                                               *)

\* requireParticipant closes the conversation of an ended booking first.
sendMessage(r, id) ==
  /\ request[r] = Idle /\ conversation.status = "OPEN"
  /\ Goes(r, [at |-> IF booking = "ENDED" THEN "close" ELSE "checked",
              id |-> id, last |-> conversation.last, send |-> TRUE])
  /\ UNCHANGED <<booking, commute, conversation, messages, bus, heard>>

Known(id) == \E m \in messages : m.id = id

\* Mutant: the conversation is not locked and read again before the insert.
TrustsTheCheck == TRUE

\* What the transaction sees under its lock.
StillOpen == conversation.status = "OPEN"

Store(r) ==
  /\ request[r].at = "checked"
  /\ IF Known(request[r].id) \/ ~StillOpen
     THEN Goes(r, Idle) /\ UNCHANGED <<conversation, messages>>
     ELSE LET n == Cardinality(messages) + 1 IN
          /\ messages' = messages \cup {[id |-> request[r].id, n |-> n, read |-> FALSE]}
          /\ conversation' = [conversation EXCEPT !.last = n]
          /\ Goes(r, [request[r] EXCEPT !.at = "stored"])
  /\ UNCHANGED <<booking, commute, bus, heard>>

\* Who hears of a message over the bus.
Others(p) == Processes \ {p}

\* publishAndFanout on process p: Redis may be down.
Publish(r, p) ==
  /\ request[r].at = "stored"
  /\ heard' = [heard EXCEPT ![p][request[r].id] = @ + 1]
  /\ bus' = bus \/ bus' = bus \cup {<<q, request[r].id>> : q \in Others(p)}
  /\ Goes(r, Idle)
  /\ UNCHANGED <<booking, commute, conversation, messages>>

\* Redis keeps nothing for a process that does not listen.
Hear(p, id) ==
  /\ <<p, id>> \in bus /\ bus' = bus \ {<<p, id>>}
  /\ heard' = [heard EXCEPT ![p][id] = @ + 1] \/ UNCHANGED heard
  /\ UNCHANGED <<booking, commute, conversation, messages, request>>

\* The process stops before it published.
Stop(r) ==
  /\ request[r].at = "stored" /\ Goes(r, Idle)
  /\ UNCHANGED <<booking, commute, conversation, messages, bus, heard>>

\* One statement for every unread message of the other.
markRead(u) ==
  /\ \E m \in messages : m.id[1] # u /\ ~m.read
  /\ messages' = {[m EXCEPT !.read = @ \/ m.id[1] # u] : m \in messages}
  /\ UNCHANGED <<booking, commute, conversation, request, bus, heard>>

Next ==
  \/ Confirm \/ EndBooking
  \/ \E r \in Requests :
       \/ OpenReads(r) \/ OpenSaves(r) \/ CloseReads(r) \/ CloseSaves(r) \/ CloseFails(r)
       \/ \E id \in Ids : sendMessage(r, id)
       \/ Store(r) \/ Stop(r)
       \/ \E p \in Processes : Publish(r, p)
  \/ \E p \in Processes, id \in Ids : Hear(p, id)
  \/ \E u \in Users : markRead(u)

Spec == Init /\ [][Next]_chatVars

-----------------------------------------------------------------------------
(* Properties.                                                             *)

\* A client id stands for one message however often it is sent, and the
\* sockets of a process are told of a message at most once.
ToldOnce ==
  /\ \A m, o \in messages : m.id = o.id \/ m.n = o.n => m = o
  /\ \A p \in Processes, id \in Ids : heard[p][id] <= 1

\* A closed conversation gets no message and stays closed, although a check
\* and its insert, a close and an open are steps of different requests.
NothingAfterClose ==
  [][conversation.status = "CLOSED" =>
       /\ conversation'.status = "CLOSED"
       /\ Cardinality(messages') = Cardinality(messages)]_chatVars

=============================================================================
