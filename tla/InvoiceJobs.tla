----------------------------- MODULE InvoiceJobs -----------------------------
(***************************************************************************)
(* GST invoices of completed bookings:                                     *)
(* src/src/invoices/invoice-issuance.service.ts and invoice-worker.service *)
(* .ts.  A job per booking is taken up by the poll and by the rider who    *)
(* asks for invoices, also by several of them at once: nothing locks a     *)
(* job, each handler saves the copy it has read.  Only the row of the      *)
(* number sequence is locked, to the end of the issuing transaction.       *)
(* Left out: the PDF, the e-mail, taxes, series of other years, backoff    *)
(* (a due date may come at any time).                                      *)
(***************************************************************************)
EXTENDS Naturals, FiniteSets

CONSTANTS Bookings,    \* completed bookings, numbers in the order of their jobs
          Pollers,     \* runs of the poll
          Riders,      \* requests that list invoices
          Limit,       \* jobs the poll selects at most
          MaxAttempts, \* tries of a job
          MaxFaults    \* bound: failures to issue and crashes

VARIABLES jobs,     \* booking |-> its gst_invoice_jobs row; retry: it has a due date
          invoices, \* booking |-> the number of its invoice, 0 for none
          last,     \* last_value of the number sequence
          runs,     \* handler |-> the job it works on, its copy of the row, its phase
          faults

Handlers == Pollers \cup Riders

vars == <<jobs, invoices, last, runs, faults>>

Resting == [phase |-> "idle"]

Init ==
  /\ jobs = [b \in Bookings |-> [status |-> "NONE", attempts |-> 0, retry |-> FALSE]]
  /\ invoices = [b \in Bookings |-> 0]
  /\ last = 0
  /\ runs = [h \in Handlers |-> Resting]
  /\ faults = 0

\* The ride was completed, or the rider of a completed ride lists invoices.
enqueueJob(b) ==
  /\ jobs[b].status = "NONE" /\ \A d \in Bookings : d < b => jobs[d].status # "NONE"
  /\ jobs' = [jobs EXCEPT ![b].status = "PENDING"]
  /\ UNCHANGED <<invoices, last, runs, faults>>

-----------------------------------------------------------------------------
(* Taking up a job.                                                        *)

\* What processDue looks for, once due dates are over.
Due(b) ==
  \/ jobs[b].status = "PENDING"
  \/ jobs[b].status \in {"PROCESSING", "FAILED"} /\ jobs[b].retry

\* What processJobsForBookings selects for a rider.
Listed(b) == jobs[b].status \in {"PENDING", "PROCESSING", "FAILED"}

Exhausted(b) == jobs[b].status = "FAILED" /\ jobs[b].attempts >= MaxAttempts

\* Attempts are told apart up to the last one only.
Incremented(n) == IF n < MaxAttempts THEN n + 1 ELSE n

Read(h, b) ==
  /\ runs[h] = Resting /\ ~Exhausted(b)
  /\ runs' = [runs EXCEPT ![h] = [phase |-> "read", booking |-> b, number |-> 0,
                                  attempts |-> Incremented(jobs[b].attempts), retry |-> jobs[b].retry]]
  /\ UNCHANGED <<jobs, invoices, last, faults>>

\* The oldest due jobs, those that were given up among them.
Selected(b) == Due(b) /\ Cardinality({d \in Bookings : d < b /\ Due(d)}) < Limit

processDue(b) == \E h \in Pollers : Selected(b) /\ Read(h, b)
processJobsForBookings(b) == \E h \in Riders : Listed(b) /\ Read(h, b)

\* A save writes the handler's copy over whatever became of the row.
Saved(h, status, retry) ==
  [jobs EXCEPT ![runs[h].booking] = [status |-> status, attempts |-> runs[h].attempts, retry |-> retry]]

Advance(h, phase) == runs' = [runs EXCEPT ![h].phase = phase]
Finish(h) == runs' = [runs EXCEPT ![h] = Resting]

Claim(h) ==
  /\ runs[h].phase = "read"
  /\ jobs' = Saved(h, "PROCESSING", runs[h].retry)
  /\ Advance(h, "claimed")
  /\ UNCHANGED <<invoices, last, faults>>

-----------------------------------------------------------------------------
(* issueForJob.                                                            *)

\* The invoice may exist already.
FindExisting(h) ==
  /\ runs[h].phase = "claimed"
  /\ Advance(h, IF invoices[runs[h].booking] = 0 THEN "unnumbered" ELSE "issued")
  /\ UNCHANGED <<jobs, invoices, last, faults>>

SequenceFree == \A h \in Handlers : runs[h].phase # "numbered"

\* Mutant: the number is committed before the invoice is.
CommitNumber(h) ==
  /\ SequenceFree
  /\ runs' = [runs EXCEPT ![h].phase = "numbered", ![h].number = last + 1]
  /\ last' = last + 1

\* SELECT .. FOR UPDATE of the sequence row waits for the transaction before.
nextInvoiceNumber(h) ==
  /\ SequenceFree
  /\ runs' = [runs EXCEPT ![h].phase = "numbered", ![h].number = last + 1]
  /\ UNCHANGED last

TakeNumber(h) ==
  /\ runs[h].phase = "unnumbered" /\ nextInvoiceNumber(h)
  /\ UNCHANGED <<jobs, invoices, faults>>

Insert(h) ==
  /\ runs[h].phase = "numbered" /\ invoices[runs[h].booking] = 0
  /\ invoices' = [invoices EXCEPT ![runs[h].booking] = runs[h].number]
  /\ last' = runs[h].number
  /\ Advance(h, "issued")
  /\ UNCHANGED <<jobs, faults>>

\* The transaction rolled back: the copy is saved for another try, or given up.
GiveBack(h) ==
  /\ jobs' = Saved(h, IF runs[h].attempts >= MaxAttempts THEN "FAILED" ELSE "PENDING", TRUE)
  /\ Finish(h)
  /\ UNCHANGED <<invoices, last>>

\* Another handler inserted the invoice: the unique booking aborts this one.
LoseRace(h) ==
  /\ runs[h].phase = "numbered" /\ invoices[runs[h].booking] # 0
  /\ GiveBack(h) /\ UNCHANGED faults

\* No issuer is configured, or a statement fails.
FailIssue(h) ==
  /\ runs[h].phase \in {"unnumbered", "numbered"} /\ faults < MaxFaults
  /\ faults' = faults + 1
  /\ GiveBack(h)

SaveIssued(h) ==
  /\ runs[h].phase = "issued"
  /\ jobs' = Saved(h, "ISSUED", FALSE)
  /\ Finish(h)
  /\ UNCHANGED <<invoices, last, faults>>

\* The process stops; open transactions roll back.
Crash ==
  /\ faults < MaxFaults /\ \E h \in Handlers : runs[h] # Resting
  /\ faults' = faults + 1
  /\ runs' = [h \in Handlers |-> Resting]
  /\ UNCHANGED <<jobs, invoices, last>>

-----------------------------------------------------------------------------
processJob(h) ==
  \/ Claim(h) \/ FindExisting(h) \/ TakeNumber(h) \/ Insert(h) \/ LoseRace(h) \/ SaveIssued(h)

Next ==
  \/ \E b \in Bookings : enqueueJob(b) \/ processDue(b) \/ processJobsForBookings(b)
  \/ \E h \in Handlers : processJob(h) \/ FailIssue(h)
  \/ Crash

\* The poll goes through all jobs it selected; a handler that runs, runs on.
Fairness ==
  /\ \A b \in Bookings : SF_vars(processDue(b))
  /\ \A h \in Handlers : WF_vars(processJob(h))

Spec == Init /\ [][Next]_vars /\ Fairness

-----------------------------------------------------------------------------
(* Properties.                                                             *)

\* Invoice numbers are consecutive: each number up to the last one belongs to
\* one booking, whatever races, fails or stops in between.
NumbersAreGapless ==
  /\ {invoices[b] : b \in Bookings} \ {0} = 1..last
  /\ Cardinality({b \in Bookings : invoices[b] # 0}) = last

\* A queued booking gets its invoice unless the job was given up or a crash
\* left it PROCESSING with no due date: the poll passes over those, only the
\* rider's list takes them up again.
Stranded(b) ==
  /\ jobs[b].status = "PROCESSING" /\ ~jobs[b].retry
  /\ \A h \in Handlers : runs[h] # Resting => runs[h].booking # b

InvoicesAreIssued ==
  \A b \in Bookings :
    jobs[b].status # "NONE" ~> invoices[b] # 0 \/ Exhausted(b) \/ Stranded(b)

=============================================================================
