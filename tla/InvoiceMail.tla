----------------------------- MODULE InvoiceMail -----------------------------
(***************************************************************************)
(* How an issued invoice reaches its rider: as a file that is rendered     *)
(* when it is first wanted, and by mail (invoices/invoice-worker.service.ts*)
(* and the downloads of invoices/invoices.service.ts).  Every task reads   *)
(* the row and saves its copy of it later.  Only mails of one process keep *)
(* out of each other's way, by a set in its memory.                        *)
(***************************************************************************)
EXTENDS Naturals

CONSTANTS Tasks,       \* what may be under way at once
          MaxAttempts, \* INVOICE_MAX_EMAIL_ATTEMPTS
          MaxReads,    \* bound: downloads and retries
          MaxFaults    \* bound: mails and files that fail, crashes

VARIABLES invoice,  \* status of the mail, attempts made, whether a file is known
          file,     \* the file is on the disk
          verified, \* the rider has a verified email
          inFlight, \* inFlightEmails has the invoice
          task,     \* task -> what it does, how far it is, its copy of the row
          mailed,   \* mails the rider got
          reads, faults

vars == <<invoice, file, verified, inFlight, task, mailed, reads, faults>>

Off == [kind |-> "none"]

Init ==
  /\ invoice = [status |-> "NONE", attempts |-> 0, pdf |-> FALSE]
  /\ verified \in BOOLEAN /\ file = FALSE /\ inFlight = FALSE
  /\ task = [t \in Tasks |-> Off] /\ mailed = 0 /\ reads = 0 /\ faults = 0

At(t, kind, step) == task[t].kind = kind /\ task[t].step = step

Moves(t, kind, step, copy) ==
  task' = [task EXCEPT ![t] = [kind |-> kind, step |-> step, copy |-> copy]]

Ends(t) == task' = [task EXCEPT ![t] = Off]

\* What there is nothing left to do about.
Final(copy) ==
  \/ copy.status \in {"SENT", "SKIPPED"}
  \/ copy.status = "FAILED" /\ copy.attempts >= MaxAttempts

-----------------------------------------------------------------------------
Issue ==
  /\ invoice.status = "NONE" /\ invoice' = [invoice EXCEPT !.status = "PENDING"]
  /\ UNCHANGED <<file, verified, inFlight, task, mailed, reads, faults>>

\* Downloads.

\* A rider or an administrator wants the file.
ReadPdf(t) ==
  /\ invoice.status # "NONE" /\ task[t] = Off /\ reads < MaxReads /\ reads' = reads + 1
  /\ Moves(t, "read", "pdf", invoice)
  /\ UNCHANGED <<invoice, file, verified, inFlight, mailed, faults>>

After(t, copy) ==
  IF task[t].kind = "read" THEN Ends(t) ELSE Moves(t, "mail", "address", copy)

\* A file that is known and there is read.
ServePdf(t) ==
  /\ task[t] # Off /\ task[t].step = "pdf"
  /\ task[t].copy.pdf /\ file /\ After(t, task[t].copy)
  /\ UNCHANGED <<invoice, file, verified, inFlight, mailed, reads, faults>>

\* Otherwise it is rendered, and kept unless the disk refuses; then the copy of
\* the row is saved with it.
RenderPdf(t) ==
  /\ task[t] # Off /\ task[t].step = "pdf" /\ ~(task[t].copy.pdf /\ file)
  /\ \/ /\ file' = TRUE /\ invoice' = [task[t].copy EXCEPT !.pdf = TRUE]
        /\ After(t, invoice') /\ UNCHANGED faults
     \/ /\ faults < MaxFaults /\ faults' = faults + 1
        /\ After(t, task[t].copy) /\ UNCHANGED <<invoice, file>>
  /\ UNCHANGED <<verified, inFlight, mailed, reads>>

-----------------------------------------------------------------------------
\* Mails.

\* The poll, the end of issuing or a list of invoices that are due.
DeliverEmail(t) ==
  /\ task[t] = Off /\ ~inFlight /\ inFlight' = TRUE
  /\ invoice.status \in {"PENDING", "FAILED"} /\ ~Final(invoice)
  /\ Moves(t, "mail", "find", invoice)
  /\ UNCHANGED <<invoice, file, verified, mailed, reads, faults>>

FindInvoice(t) ==
  /\ task[t] # Off /\ At(t, "mail", "find")
  /\ IF Final(invoice) THEN Ends(t) /\ inFlight' = FALSE
     ELSE Moves(t, "mail", "pdf", invoice) /\ UNCHANGED inFlight
  /\ UNCHANGED <<invoice, file, verified, mailed, reads, faults>>

Skip(t) == invoice' = [task[t].copy EXCEPT !.status = "SKIPPED"]

\* Who has no verified email gets none.
Address(t) ==
  /\ task[t] # Off /\ At(t, "mail", "address")
  /\ IF verified
     THEN /\ Moves(t, "mail", "send", [task[t].copy EXCEPT !.attempts = @ + 1])
          /\ UNCHANGED <<invoice, inFlight>>
     ELSE Skip(t) /\ Ends(t) /\ inFlight' = FALSE
  /\ UNCHANGED <<file, verified, mailed, reads, faults>>

\* The mail server takes the mail or not.
SendEmail(t) ==
  /\ task[t] # Off /\ At(t, "mail", "send")
  /\ \/ /\ mailed' = mailed + 1 /\ UNCHANGED faults
        /\ Moves(t, "mail", "save", [task[t].copy EXCEPT !.status = "SENT"])
     \/ /\ faults < MaxFaults /\ faults' = faults + 1 /\ UNCHANGED mailed
        /\ Moves(t, "mail", "save", [task[t].copy EXCEPT !.status =
             IF task[t].copy.attempts >= MaxAttempts THEN "FAILED" ELSE "PENDING"])
  /\ UNCHANGED <<invoice, file, verified, inFlight, reads>>

SaveEmail(t) ==
  /\ task[t] # Off /\ At(t, "mail", "save")
  /\ invoice' = task[t].copy /\ Ends(t) /\ inFlight' = FALSE
  /\ UNCHANGED <<file, verified, mailed, reads, faults>>

\* An administrator asks for the mail once more: the row is saved as pending and
\* a delivery that is under way is not waited for.
ReadForRetry(t) ==
  /\ task[t] = Off /\ reads < MaxReads /\ reads' = reads + 1
  /\ invoice.status \notin {"NONE", "SENT"} /\ Moves(t, "retry", "save", invoice)
  /\ UNCHANGED <<invoice, file, verified, inFlight, mailed, faults>>

RetryEmail(t) ==
  /\ task[t] # Off /\ At(t, "retry", "save")
  /\ invoice' = [task[t].copy EXCEPT !.status = "PENDING"]
  /\ Moves(t, "mail", "find", invoice') /\ inFlight' = TRUE
  /\ UNCHANGED <<file, verified, mailed, reads, faults>>

-----------------------------------------------------------------------------
\* The rider verifies an email.
VerifyEmail ==
  /\ ~verified /\ verified' = TRUE
  /\ UNCHANGED <<invoice, file, inFlight, task, mailed, reads, faults>>

\* The process stops, with all that is under way; sometimes it loses its disk.
Crash ==
  /\ faults < MaxFaults /\ faults' = faults + 1
  /\ task' = [t \in Tasks |-> Off] /\ inFlight' = FALSE /\ file' \in {file, FALSE}
  /\ UNCHANGED <<invoice, verified, mailed, reads>>

Works(t) ==
  \/ FindInvoice(t) \/ ServePdf(t) \/ RenderPdf(t)
  \/ Address(t) \/ SendEmail(t) \/ SaveEmail(t) \/ RetryEmail(t)

Next ==
  \/ \E t \in Tasks : ReadPdf(t) \/ DeliverEmail(t) \/ ReadForRetry(t) \/ Works(t)
  \/ Issue \/ VerifyEmail \/ Crash

\* Tasks go on, and the poll comes round.
Fairness ==
  /\ \A t \in Tasks : WF_vars(Works(t))
  /\ WF_vars(\E t \in Tasks : DeliverEmail(t))

Spec == Init /\ [][Next]_vars /\ Fairness

-----------------------------------------------------------------------------
\* An invoice that counts as mailed was mailed, and one whose file is known was
\* rendered, although stale copies of the row are saved.
SentIsMailed ==
  /\ invoice.status = "SENT" => mailed > 0
  /\ \A t \in Tasks : task[t] # Off => (task[t].copy.status = "SENT" => mailed > 0)

\* In the end the mail of an issued invoice is sent, skipped or given up for good.
MailIsSettled == <>[](invoice.status = "NONE" \/ Final(invoice))

=============================================================================
