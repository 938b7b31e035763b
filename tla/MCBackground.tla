----------------------------- MODULE MCBackground -----------------------------
(***************************************************************************)
(* The background work that is independent of one another, checked in one  *)
(* run: the initial states choose which of NoShowClaims, InvoiceJobs,      *)
(* InvoiceTax, InvoiceMail and NotificationOutbox runs, the variables of   *)
(* the others keep still.                                                  *)
(***************************************************************************)
EXTENDS Integers, FiniteSets

CONSTANTS Parts, \* which of "claims", "invoices", "taxes", "mails", "outbox" are checked
          Passengers, Bookings, Workers, Pollers, Riders, Limit, Batch, MaxAttempts,
          DeviceTries, MailBatch, MaxClaims, MaxFaults, MaxCrashes,
          TaxAdmins, Ids, Types, States, Fares, LastMoment, TaxRows, \* of InvoiceTax
          Tasks, MaxReads, MaxMishaps                                \* of InvoiceMail

VARIABLES running,
          ride, bookings, claims, effects, tickets, queue, faults,
          jobs, invoices, last, runs,
          event, timer, status, tries, nudged, flight, older, sent, crashes,
          rule, editing, issuer, clock, invoice,
          letter, file, addressed, inFlight, task, mailed, reads, mishaps

NoShow == INSTANCE NoShowClaims WITH Bookings <- Passengers
Invoicing == INSTANCE InvoiceJobs
Outbox == INSTANCE NotificationOutbox

\* Rules for Regular rides, by the rate, the mode and the window: one that moves
\* over three moments, and others for the first two.
Rule(state, rate, mode, place, window) ==
  [status |-> state, types |-> {"REGULAR"}, rate |-> rate, mode |-> mode, place |-> place,
   window |-> window]

ThreeMoments ==
  {Rule(s, 500, "TAX_INCLUSIVE", "ISSUER_STATE", w) :
     s \in {"DRAFT", "ACTIVE", "INACTIVE"}, w \in {<<1, 2>>, <<2, 4>>, <<1, 3>>}}
  \cup {Rule("ACTIVE", 500, "TAX_EXCLUSIVE", "ISSUER_STATE", <<1, 3>>),
        Rule("ACTIVE", 1800, "TAX_INCLUSIVE", "ISSUER_STATE", <<1, 3>>),
        Rule("ACTIVE", 500, "TAX_INCLUSIVE", "RECIPIENT_STATE", <<1, 3>>)}

Taxes == INSTANCE InvoiceTax WITH Admins <- TaxAdmins, Rows <- TaxRows

ASSUME TaxParameters == Taxes!Parameters

Mailing == INSTANCE InvoiceMail WITH
             MaxFaults <- MaxMishaps,
             invoice <- letter, verified <- addressed, faults <- mishaps

noShowVars == <<ride, bookings, claims, effects, tickets, queue>>
invoicingVars == <<jobs, invoices, last, runs>>
outboxVars ==
  <<event, timer, status, tries, nudged, flight, older, sent, crashes>>
taxVars == <<rule, editing, issuer, clock, invoice>>
mailVars == <<letter, file, addressed, inFlight, task, mailed, reads, mishaps>>
vars == <<running, noShowVars, invoicingVars, outboxVars, taxVars, mailVars, faults>>

Init ==
  /\ running \in Parts
  /\ NoShow!Init /\ Invoicing!Init /\ Outbox!Init /\ Taxes!Init /\ Mailing!Init
  /\ running # "claims" => ride.type = "REGULAR"
  /\ running # "mails" => addressed

Next ==
  /\ UNCHANGED running
  /\ \/ /\ running = "claims" /\ NoShow!Next
        /\ UNCHANGED <<invoicingVars, outboxVars, taxVars, mailVars>>
     \/ /\ running = "invoices" /\ Invoicing!Next
        /\ UNCHANGED <<noShowVars, outboxVars, taxVars, mailVars>>
     \/ /\ running = "outbox" /\ Outbox!Next
        /\ UNCHANGED <<noShowVars, invoicingVars, taxVars, mailVars, faults>>
     \/ /\ running = "taxes" /\ Taxes!Next
        /\ UNCHANGED <<noShowVars, invoicingVars, outboxVars, mailVars, faults>>
     \/ /\ running = "mails" /\ Mailing!Next
        /\ UNCHANGED <<noShowVars, invoicingVars, outboxVars, taxVars, faults>>

\* Nothing of a part that does not run is enabled in its initial state that
\* fairness would ask for.
Spec ==
  /\ Init
  /\ [][Next]_vars
  /\ NoShow!Fairness /\ Invoicing!Fairness /\ Outbox!Fairness /\ Mailing!Fairness

\* Tickets are opened one at a time while no poll is under way, and of a Regular
\* ride, whose type is nothing to them.  What happens after an invoice was issued
\* is left to the other parts.
Small ==
  /\ invoice = Taxes!NoInvoice
  /\ \A c \in DOMAIN effects : effects[c].phase = "ticketed" =>
       /\ \A w \in Workers : queue[w] = <<>>
       /\ \A d \in DOMAIN effects : effects[d].phase = "ticketed" => c = d
  /\ ride.type = "ASSURED" => \A c \in DOMAIN effects : effects[c].attempts = 0

-----------------------------------------------------------------------------
\* Verdicts fit what became of the trip: only someone who was not picked up is
\* judged a no-show, with one verdict and one open claim per no-show.
VerdictsFit == NoShow!VerdictsFit

\* An invoice adds up and bears the tax of the only rule in force, and counts as
\* mailed only if it was.
InvoicesAreRight ==
  Taxes!InvoiceFitsRule /\ Taxes!OneRuleInForce /\ Mailing!SentIsMailed

\* Claims nobody answered are decided after their deadline by the worker, and a
\* rejected claimant ends up with one ticket, whatever crashes in between.
ClaimsAreSettled == NoShow!DueClaimsAreDecided /\ NoShow!RejectionsReachSupport

\* Nothing is done twice or skipped: invoice numbers are consecutive and used
\* once, a push and a mail arrive at most once, or once more per crash.
NothingTwice == Invoicing!NumbersAreGapless /\ Outbox!SentOncePerRun

\* Queued bookings get their invoice, are given up or were stranded by a crash;
\* committed notifications are pushed or given up, and so are mails unless older
\* ones that were given up fill the batch; a mail whose timer is set at the commit
\* is tried once even then; invoices by mail are settled too.
JobsAreSettled ==
  /\ Invoicing!InvoicesAreIssued /\ Outbox!NoticesAreSettled
  /\ Mailing!MailIsSettled

=============================================================================
