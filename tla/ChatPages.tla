------------------------------ MODULE ChatPages ------------------------------
(***************************************************************************)
(* What a participant reads of a conversation: listConversations,          *)
(* getConversation, listMessages and markRead of src/src/chat/             *)
(* chat.service.ts.                                                        *)
(*                                                                         *)
(* A message is created when its transaction begins and visible when that  *)
(* commits, so a later one may be seen first.  The database counts time    *)
(* finer than the program: a time that was read and is used as a bound has *)
(* lost its fraction.  One participant reads, a query at a time, page by   *)
(* page, newest first, while messages come in.  Left out: texts, profiles  *)
(* and who may read; opening, closing and sending are ChatConversation's.  *)
(***************************************************************************)
EXTENDS Naturals, Sequences, FiniteSets

CONSTANTS Messages, \* ids, which are compared as well as the times
          Own,      \* those the participant wrote
          Limit,    \* messages of a page
          Fine,     \* fractions of the database in one unit of the program
          MaxTime   \* bound

VARIABLES time,
          created, \* created_at, 0 before the transaction began
          stored,  \* messages of committed transactions
          read,    \* those with read_at
          lastAt,  \* last_message_at of the conversation, 0 for none
          reading, \* the pages read: messages, what was there at first, whether more
          item     \* the conversation as a list shows it, as far as it was read

pageVars == <<time, created, stored, read, lastAt, reading, item>>

NotReading == [shown |-> <<>>, cursors |-> {}, first |-> {}, more |-> FALSE]
NoItem == [lastAt |-> 0, last |-> {}, unread |-> 0, todo |-> {"list"}]

Init ==
  /\ time = 1 /\ created = [m \in Messages |-> 0] /\ stored = {} /\ read = {} /\ lastAt = 0
  /\ reading = NotReading /\ item = NoItem

Tick ==
  /\ time < MaxTime /\ time' = time + 1
  /\ UNCHANGED <<created, stored, read, lastAt, reading, item>>

-----------------------------------------------------------------------------
(* Messages come in.                                                       *)

BeginSend(m) ==
  /\ created[m] = 0 /\ created' = [created EXCEPT ![m] = time]
  /\ UNCHANGED <<time, stored, read, lastAt, reading, item>>

\* The transactions take the lock of the conversation in any order.
Store(m) ==
  /\ created[m] # 0 /\ m \notin stored
  /\ stored' = stored \cup {m} /\ lastAt' = created[m]
  /\ UNCHANGED <<time, created, read, reading, item>>

-----------------------------------------------------------------------------
(* Pages.                                                                  *)

Newer(m, n) == created[m] > created[n] \/ (created[m] = created[n] /\ m > n)

\* A time as the program holds it.
Truncated(t) == (t \div Fine) * Fine

\* Newest first.
InOrder(S) ==
  CHOOSE s \in [1..Cardinality(S) -> S] : \A i, j \in 1..Cardinality(S) : i < j => Newer(s[i], s[j])

\* The condition on what comes after a cursor.
After(c) ==
  {m \in stored : created[m] < Truncated(created[c]) \/ (created[m] = Truncated(created[c]) /\ m < c)}

\* One row more than a page holds tells whether there is another.
Page(S) ==
  LET rows == InOrder(S) IN
  [items |-> SubSeq(rows, 1, IF Len(rows) > Limit THEN Limit ELSE Len(rows)),
   more |-> Len(rows) > Limit]

FirstPage ==
  /\ reading = NotReading /\ stored # {}
  /\ LET page == Page(stored) IN
     reading' = [shown |-> page.items, cursors |-> {}, first |-> stored, more |-> page.more]
  /\ UNCHANGED <<time, created, stored, read, lastAt, item>>

NextPage ==
  /\ reading.more
  /\ LET cursor == reading.shown[Len(reading.shown)]
         page == Page(After(cursor))
     IN reading' = [reading EXCEPT !.shown = @ \o page.items, !.cursors = @ \cup {cursor},
                             !.more = page.more]
  /\ UNCHANGED <<time, created, stored, read, lastAt, item>>

Leave ==
  /\ reading # NotReading /\ reading' = NotReading
  /\ UNCHANGED <<time, created, stored, read, lastAt, item>>

\* One statement; without a cursor for every message of the other.
Reached(m, upTo) == upTo = {} \/ \E c \in upTo : created[m] <= Truncated(created[c])

markRead(upTo) ==
  /\ read' = read \cup {m \in stored \ Own : Reached(m, upTo)}
  /\ read' # read
  /\ UNCHANGED <<time, created, stored, lastAt, reading, item>>

-----------------------------------------------------------------------------
(* The list: the conversation first, then its last message and the count.  *)

Newest == {m \in stored : \A n \in stored : n = m \/ Newer(m, n)}
Unread == Cardinality({m \in stored \ Own : m \notin read})

listConversations ==
  /\ item.todo = {"list"}
  /\ item' = [item EXCEPT !.lastAt = lastAt, !.todo = {"last", "count"}]
  /\ UNCHANGED <<time, created, stored, read, lastAt, reading>>

FindLast ==
  /\ "last" \in item.todo
  /\ item' = [item EXCEPT !.last = Newest, !.todo = @ \ {"last"}]
  /\ UNCHANGED <<time, created, stored, read, lastAt, reading>>

CountUnread ==
  /\ "count" \in item.todo
  /\ item' = [item EXCEPT !.unread = Unread, !.todo = @ \ {"count"}]
  /\ UNCHANGED <<time, created, stored, read, lastAt, reading>>

Next ==
  \/ Tick \/ FirstPage \/ NextPage \/ Leave
  \/ \E m \in Messages : BeginSend(m) \/ Store(m)
  \/ markRead({}) \/ \E m \in stored : markRead({m})
  \/ listConversations \/ FindLast \/ CountUnread

Spec == Init /\ [][Next]_pageVars

-----------------------------------------------------------------------------
(* Properties.                                                             *)

\* However messages come in between, the pages of one reading show nothing
\* twice and go from newer to older, and at their end everything was shown that
\* was there at the start, but for what shares the unit of time of a cursor that
\* has lost its fraction (listMessages).
PagesAreComplete ==
  /\ \A i, j \in DOMAIN reading.shown : i < j => Newer(reading.shown[i], reading.shown[j])
  /\ reading # NotReading /\ ~reading.more =>
       \A m \in reading.first :
         \/ \E i \in DOMAIN reading.shown : reading.shown[i] = m
         \/ \E c \in reading.cursors :
              /\ Newer(c, m) /\ Truncated(created[m]) = Truncated(created[c])
              /\ created[c] # Truncated(created[c])

\* A list never shows a last message that is older than the time it gives for
\* it, and nobody's own message is counted as unread or marked (listConversations).
ListHoldsTogether ==
  /\ item.todo \cap {"list", "last"} = {} /\ item.lastAt # 0 =>
       \E m \in item.last : created[m] >= item.lastAt
  /\ read \subseteq stored \ Own
  /\ item.unread <= Cardinality(Messages \ Own)

\* Whoever marks up to a message has read it
\* (src/src/chat/dto: upToMessageId).  The code leaves the message itself unread
\* unless its time has no fraction; no run checks it (README, section 6).
MarkedUpTo == [][\A m \in Messages \ Own : markRead({m}) => m \in read']_pageVars

=============================================================================
