--------------------------- MODULE SupportTickets ---------------------------
(***************************************************************************)
(* The support tickets of one user: src/src/support/.                      *)
(*                                                                         *)
(* A ticket may be about a ride the user takes part in.  The user's        *)
(* requests look first, and write in a later transaction; admins change    *)
(* the status under the lock of the ticket.  Retries carry an idempotency  *)
(* key.  Left out: categories, subjects, references, attachments, lists,   *)
(* the activity feed of admins and requests without a key.                 *)
(***************************************************************************)
EXTENDS Naturals, FiniteSets, Sequences, SequencesExt

CONSTANTS Processes, Admins,
          Rides,  \* rides tickets may be about
          Keys,   \* idempotency keys of tickets
          CKeys,  \* idempotency keys of comments
          MaxTickets \* bound: ids of tickets

VARIABLES role,     \* ride |-> what the user is to it: DRIVER, PASSENGER or none
          ticket,   \* id |-> key, ride, status, assignee and status history
          comments, \* ticket, key and author of each comment
          told,     \* idempotency keys of notifications
          work      \* process |-> what it has looked at and is about to write

supportVars == <<role, ticket, comments, told, work>>

Idle == [does |-> "nothing"]
Ids == 1..MaxTickets
NoTicket == [key |-> "none", ride |-> "none", status |-> "NONE", assignee |-> "none",
             history |-> << >>]

Init ==
  /\ role \in [Rides -> {"DRIVER", "PASSENGER", "none"}]
  /\ ticket = [t \in Ids |-> NoTicket]
  /\ comments = {} /\ told = {}
  /\ work = [p \in Processes |-> Idle]

Known == {t \in Ids : ticket[t].status # "NONE"}

\* Bookings are made and drafts are published; past ones stay eligible.
TakePart(r) ==
  /\ role[r] = "none" /\ role' = [role EXCEPT ![r] = "PASSENGER"]
  /\ UNCHANGED <<ticket, comments, told, work>>

-----------------------------------------------------------------------------
(* Tickets.                                                                *)

KeyUsed(key) == \E t \in Known : ticket[t].key = key

resolveRideEligibility(r) == role[r] # "none"

\* A key that is known gets its ticket.
CheckTicket(p, key, r) ==
  /\ work[p] = Idle /\ ~KeyUsed(key) /\ resolveRideEligibility(r)
  /\ work' = [work EXCEPT ![p] = [does |-> "create", key |-> key, ride |-> r]]
  /\ UNCHANGED <<role, ticket, comments, told>>

\* Mutant: the unique index on the user's keys is missing.
Duplicates(key) == FALSE

\* Another request has taken the key: the transaction gives its ticket, or fails.
TakenMeanwhile(key) == KeyUsed(key)

createTicket(p) ==
  /\ work[p].does = "create"
  /\ IF TakenMeanwhile(work[p].key) THEN UNCHANGED <<ticket, told>>
     ELSE \E t \in Ids \ Known :
            /\ \A u \in Ids \ Known : t <= u
            /\ ticket' = [ticket EXCEPT ![t] =
                 [key |-> work[p].key, ride |-> work[p].ride, status |-> "CREATED",
                  assignee |-> "none", history |-> <<"CREATED">>]]
            /\ told' = told \cup {<<t, "CREATED">>}
  /\ work' = [work EXCEPT ![p] = Idle]
  /\ UNCHANGED <<role, comments>>

SUPPORT_STATUS_TRANSITIONS ==
  [CREATED |-> {"IN_PROGRESS", "RESOLVED"}, IN_PROGRESS |-> {"RESOLVED"}, RESOLVED |-> {}]

updateStatus(a, t, to) ==
  /\ t \in Known /\ to \in SUPPORT_STATUS_TRANSITIONS[ticket[t].status]
  /\ ticket' = [ticket EXCEPT ![t].status = to, ![t].history = Append(@, to),
                              ![t].assignee = IF @ = "none" THEN a ELSE @]
  /\ told' = told \cup {<<t, to>>}
  /\ UNCHANGED <<role, comments, work>>

-----------------------------------------------------------------------------
(* Comments.                                                               *)

CommentKeyUsed(t, key) == \E c \in comments : c.ticket = t /\ c.key = key

\* The user may not comment on a resolved ticket, admins may.
CheckComment(p, t, key, by) ==
  /\ work[p] = Idle /\ t \in Known /\ ~CommentKeyUsed(t, key)
  /\ by = "USER" => ticket[t].status # "RESOLVED"
  /\ work' = [work EXCEPT ![p] = [does |-> "comment", ticket |-> t, key |-> key, by |-> by]]
  /\ UNCHANGED <<role, ticket, comments, told>>

addComment(p) ==
  /\ work[p].does = "comment"
  /\ LET w == work[p] IN
     IF CommentKeyUsed(w.ticket, w.key) THEN UNCHANGED <<comments, told>>
     ELSE /\ comments' = comments \cup {[ticket |-> w.ticket, key |-> w.key, by |-> w.by]}
          /\ told' = IF w.by = "ADMIN" THEN told \cup {<<w.ticket, w.key>>} ELSE told
  /\ work' = [work EXCEPT ![p] = Idle]
  /\ UNCHANGED <<role, ticket>>

Next ==
  \/ \E p \in Processes :
       \/ \E key \in Keys, r \in Rides : CheckTicket(p, key, r)
       \/ createTicket(p)
       \/ \E t \in Ids, key \in CKeys, by \in {"USER", "ADMIN"} : CheckComment(p, t, key, by)
       \/ addComment(p)
  \/ \E a \in Admins, t \in Ids, to \in {"IN_PROGRESS", "RESOLVED"} : updateStatus(a, t, to)
  \/ \E r \in Rides : TakePart(r)

Spec == Init /\ [][Next]_supportVars

-----------------------------------------------------------------------------
(* Properties.                                                             *)

\* However often a request is repeated, and by whichever process it is served:
\* there is one ticket for each key and one comment for each key of a ticket.
OneTicketPerKey ==
  /\ \A t, u \in Known : ticket[t].key = ticket[u].key => t = u
  /\ \A c, e \in comments : c.ticket = e.ticket /\ c.key = e.key => c = e

\* The user has been told of every status the history of a ticket shows and of
\* every reply; the history ends with the status the ticket has.
UserIsTold ==
  /\ \A t \in Known : /\ Last(ticket[t].history) = ticket[t].status
                      /\ \A s \in ToSet(ticket[t].history) : <<t, s>> \in told
  /\ \A c \in comments : c.by = "ADMIN" => <<c.ticket, c.key>> \in told

\* A resolved ticket stays resolved.
ResolvedIsFinal ==
  [][\A t \in Ids : ticket[t].status = "RESOLVED" => ticket'[t] = ticket[t]]_supportVars

=============================================================================
