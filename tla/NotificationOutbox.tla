------------------------- MODULE NotificationOutbox -------------------------
(***************************************************************************)
(* Delivery of a notification as push message and as e-mail by one         *)
(* process: src/src/notifications/notifications.service.ts (enqueue),      *)
(* notifications.dispatcher.ts and notification-email.service.ts.          *)
(*                                                                         *)
(* A notification is a row, written alone or inside the transaction of the *)
(* business event.  The e-mail has a row of its own, inserted by a timer   *)
(* that may fire before that transaction commits.  A delivery is tried at  *)
(* once when its row was written, and by a poll for each channel.  The     *)
(* poll of the e-mails takes the oldest that are due, those given up among *)
(* them: enough older ones given up crowd a mail out.  What is scheduled   *)
(* and in flight is known to the process only.                             *)
(*                                                                         *)
(* Left out: texts; backoff (a due date may come at any time); further     *)
(* devices, of which one success is enough; older mails that are still     *)
(* tried: they are settled or given up.                                    *)
(***************************************************************************)
EXTENDS Naturals

CONSTANTS MaxAttempts, \* tries of either channel
          DeviceTries, \* tries after which a missing device ends the push
          MailBatch,   \* mails that one poll takes
          MaxCrashes   \* bound

VARIABLES event,    \* the row: not written, in an open transaction, committed or rolled back
          timer,   \* the e-mail timer of the process is set
          status,  \* channel |-> status of its delivery
          tries,   \* channel |-> attempts saved
          nudged,  \* channels of which a try is scheduled outside the poll
          flight,  \* channel |-> phase of the delivery in flight
          older,   \* mails given up that were written before this one
          sent,    \* channel |-> messages the recipient got
          crashes

vars == <<event, timer, status, tries, nudged, flight, older, sent, crashes>>

Channels == {"push", "mail"}

Init ==
  /\ event = "none" /\ timer = FALSE
  /\ status = [c \in Channels |-> "NONE"]
  /\ tries = [c \in Channels |-> 0]
  /\ nudged = {} /\ older = 0
  /\ flight = [c \in Channels |-> "idle"]
  /\ sent = [c \in Channels |-> 0]
  /\ crashes = 0

-----------------------------------------------------------------------------
(* enqueue.                                                                *)

\* A new row, in the caller's transaction or committed at once.
Enqueue ==
  /\ event = "none"
  /\ event' \in {"open", "committed"}
  /\ status' = [status EXCEPT !["push"] = "PENDING"]
  /\ timer' = TRUE
  /\ nudged' = nudged \cup {"push"}
  /\ UNCHANGED <<tries, flight, older, sent, crashes>>

\* The event is reported again under the same key: the row exists.  A push that
\* is pending is tried at once, unless this is inside a transaction.
EnqueueAgain ==
  /\ event = "committed"
  /\ timer' = TRUE
  /\ \/ status["push"] = "PENDING" /\ nudged' = nudged \cup {"push"}
     \/ UNCHANGED nudged
  /\ UNCHANGED <<event, status, tries, flight, older, sent, crashes>>

EndTransaction ==
  /\ event = "open"
  /\ event' \in {"committed", "rolledback"}
  /\ UNCHANGED <<timer, status, tries, nudged, flight, older, sent, crashes>>

\* The row of the e-mail references the notification: it is not inserted, and
\* not tried again, while that is uncommitted.  A try is scheduled of a new row
\* and of one that is pending.
ensureDeliveryQueued ==
  /\ timer /\ timer' = FALSE
  /\ status' = IF event = "committed" /\ status["mail"] = "NONE"
               THEN [status EXCEPT !["mail"] = "PENDING"] ELSE status
  /\ nudged' = IF status'["mail"] = "PENDING" THEN nudged \cup {"mail"} ELSE nudged
  /\ UNCHANGED <<event, tries, flight, older, sent, crashes>>

\* The last try of an older mail fails.  Its row stays due.
OlderMailIsGivenUp ==
  /\ older < MailBatch
  /\ older' = older + 1
  /\ UNCHANGED <<event, timer, status, tries, nudged, flight, sent, crashes>>

-----------------------------------------------------------------------------
(* One delivery.                                                           *)

\* Nobody of this process delivers it.
NotInFlight(c) == flight[c] = "idle"

\* Mutant: a push that failed once is not polled again.
FreshPushIsPolled ==
  event = "committed" /\ status["push"] = "PENDING" /\ tries["push"] = 0

\* What the poll of the pushes selects.
PushIsPolled ==
  event = "committed" /\ status["push"] = "PENDING" /\ tries["push"] < MaxAttempts

\* What the poll of the mails selects, in the order they were written, and does
\* not pass over because its tries are used up.
MailIsPolled ==
  /\ status["mail"] \in {"PENDING", "FAILED"} /\ older < MailBatch
  /\ tries["mail"] < MaxAttempts

\* What a scheduled try finds worth trying: pushes that failed for want of a
\* valid device are among it.
Deliverable(c) ==
  /\ event = "committed"
  /\ status[c] \in {"PENDING", "FAILED"}
  /\ status[c] = "FAILED" => tries[c] < MaxAttempts

\* What the delivery finds of the recipient: devices come and go at any time, an
\* address is verified or revoked.
Found(c) == {"sending", IF c = "push" THEN "absent" ELSE "skipped"}

\* The row is read, the recipient looked up.
Start(c) == \E phase \in Found(c) : flight' = [flight EXCEPT ![c] = phase]

\* The poll comes to it.
Deliver(c) ==
  /\ IF c = "push" THEN PushIsPolled ELSE MailIsPolled
  /\ NotInFlight(c)
  /\ Start(c)
  /\ UNCHANGED <<event, timer, status, tries, nudged, older, sent, crashes>>

\* The scheduled try comes, to nothing if the row is not visible or done, if a
\* delivery is under way or if it is not due after an earlier try.
DeliverAtOnce(c) ==
  /\ c \in nudged /\ nudged' = nudged \ {c}
  /\ \/ Deliverable(c) /\ NotInFlight(c) /\ Start(c)
     \/ ~(Deliverable(c) /\ NotInFlight(c) /\ tries[c] = 0) /\ UNCHANGED flight
  /\ UNCHANGED <<event, timer, status, tries, older, sent, crashes>>

\* The provider accepts it, or it reports (or seems to report) a failure: the
\* device of a push may be gone.
Send(c) ==
  /\ flight[c] = "sending"
  /\ \/ /\ flight' = [flight EXCEPT ![c] = "sent"]
        /\ sent' = [sent EXCEPT ![c] = @ + 1]
     \/ /\ \E phase \in {"failed"} \cup (IF c = "push" THEN {"invalid"} ELSE {}) :
             flight' = [flight EXCEPT ![c] = phase]
        /\ UNCHANGED sent
  /\ UNCHANGED <<event, timer, status, tries, nudged, older, crashes>>

\* What the outcome makes of the delivery after this try.
Outcome(c, n) ==
  CASE flight[c] = "sent" -> "SENT"
    [] flight[c] = "skipped" -> "SKIPPED"
    [] flight[c] = "invalid" -> "FAILED"
    [] flight[c] = "absent" /\ n >= DeviceTries -> "SENT"
    [] OTHER -> IF n >= MaxAttempts THEN "FAILED" ELSE "PENDING"

Save(c) ==
  /\ flight[c] \in {"sent", "failed", "invalid", "absent", "skipped"}
  /\ LET n == IF flight[c] = "skipped" THEN tries[c] ELSE tries[c] + 1 IN
     /\ status' = [status EXCEPT ![c] = Outcome(c, n)]
     /\ tries' = [tries EXCEPT ![c] = n]
  /\ flight' = [flight EXCEPT ![c] = "idle"]
  /\ UNCHANGED <<event, timer, nudged, older, sent, crashes>>

\* The process stops: its timers, what is scheduled and in flight are gone.
Crash ==
  /\ crashes < MaxCrashes
  /\ crashes' = crashes + 1
  /\ timer' = FALSE /\ nudged' = {}
  /\ flight' = [c \in Channels |-> "idle"]
  /\ event' = IF event = "open" THEN "rolledback" ELSE event
  /\ UNCHANGED <<status, tries, older, sent>>

-----------------------------------------------------------------------------
Work(c) == Deliver(c) \/ Send(c) \/ Save(c)

Next ==
  \/ Enqueue \/ EnqueueAgain \/ EndTransaction \/ ensureDeliveryQueued \/ OlderMailIsGivenUp
  \/ Crash
  \/ \E c \in Channels : Work(c) \/ DeliverAtOnce(c)

\* Both polls go on, deliveries run on, timers and scheduled tries come.
Fairness ==
  /\ WF_vars(ensureDeliveryQueued)
  /\ \A c \in Channels : WF_vars(Work(c)) /\ WF_vars(DeliverAtOnce(c))

Spec == Init /\ [][Next]_vars /\ Fairness

-----------------------------------------------------------------------------
(* Properties.                                                             *)

\* The recipient gets a push and a mail at most once, or once more per crash
\* of the process between sending and saving.
SentOncePerRun == \A c \in Channels : sent[c] <= 1 + crashes

Unsettled(c) == event = "committed" /\ status[c] = "PENDING"

\* The batch of every poll is full before this mail.
CrowdedOut == older >= MailBatch

\* A committed notification is pushed or given up, however devices come and go.
PushesAreSettled == Unsettled("push") ~> ~Unsettled("push")

\* A mail that got its row is sent, skipped or given up, unless as many older
\* mails as a poll takes were given up before it.
MailsAreSettled == Unsettled("mail") ~> (~Unsettled("mail") \/ CrowdedOut)

\* A timer that is still set when the notification is committed brings the mail
\* its row, and that is tried once even if crowded out, unless the process stops.
MailsAreTried ==
  \A k \in 0..MaxCrashes :
    (event = "committed" /\ timer /\ crashes = k) ~>
      (tries["mail"] > 0 \/ status["mail"] = "SKIPPED" \/ crashes > k)

NoticesAreSettled == PushesAreSettled /\ MailsAreSettled /\ MailsAreTried

\* Neither is so in general: a poll can be crowded out for good, and a timer can
\* fire before the commit and leave the notification without a mail.
EveryMailIsSettled == Unsettled("mail") ~> ~Unsettled("mail")
EveryNoticeGetsAMail ==
  (event = "committed" /\ crashes = 0) ~> (status["mail"] # "NONE" \/ crashes > 0)

=============================================================================
