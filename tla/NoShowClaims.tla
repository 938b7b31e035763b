---------------------------- MODULE NoShowClaims ----------------------------
(***************************************************************************)
(* No-show claims on one ride: src/src/no-show/no-show-claims.service.ts   *)
(* with the ticket it opens in src/src/support/support.service.ts.         *)
(*                                                                         *)
(* A passenger reports the driver, or the driver a passenger; the other    *)
(* side approves or rejects, or the worker approves once the deadline is   *)
(* over.  Every decision locks the ride, then the claim, and queues its    *)
(* effects in the same transaction.  An effect runs under the lock of its  *)
(* row, but the ticket it opens is committed by a transaction of its own.  *)
(* Left out: the notices, an effect that takes the same path and leaves    *)
(* nothing outside its transaction; backoff, an effect may be tried again  *)
(* at any time; Commute rides.  What a settlement moves is modelled by     *)
(* RegularRide and AssuredSettlement.                                      *)
(***************************************************************************)
EXTENDS Naturals, Sequences, FiniteSets, SequencesExt

CONSTANTS Bookings,    \* the ride's bookings, each of another passenger
          Workers,     \* processes polling for due claims
          Batch,       \* claims a poll takes at most
          MaxAttempts, \* tries of an effect
          MaxClaims,   \* bound: claims filed
          MaxFaults    \* bound: transactions rolled back, processes stopped

VARIABLES ride,     \* type, status and reason of its cancellation
          bookings, \* booking |-> status, reason and whether picked up
          claims,   \* no_show_claims in the order of their deadlines
          effects,  \* claim |-> its OPEN_SUPPORT effect, and where its run stands
          tickets,  \* claim |-> support tickets opened for it
          queue,    \* worker |-> the due claims its poll has still to settle
          faults

trip == <<ride, bookings>>
vars == <<trip, claims, effects, tickets, queue, faults>>

Init ==
  /\ \E type \in {"REGULAR", "ASSURED"} :
       ride = [type |-> type, status |-> "PUBLISHED", reason |-> "none"]
  /\ bookings = [b \in Bookings |-> [status |-> "CONFIRMED", reason |-> "none", picked |-> FALSE]]
  /\ claims = <<>> /\ effects = <<>> /\ tickets = <<>>
  /\ queue = [w \in Workers |-> <<>>]
  /\ faults = 0

-----------------------------------------------------------------------------
(* What the ride goes through besides.                                     *)

OnOffer == ride.status \in {"PUBLISHED", "IN_PROGRESS"}
Confirmed(b) == bookings[b].status = "CONFIRMED"

Cancelled(S, reason) ==
  [b \in Bookings |-> IF b \in S /\ Confirmed(b)
     THEN [bookings[b] EXCEPT !.status = "CANCELLED", !.reason = reason] ELSE bookings[b]]

CancelledRide(reason) == [ride EXCEPT !.status = "CANCELLED", !.reason = reason]

Start == ride.status = "PUBLISHED" /\ ride' = [ride EXCEPT !.status = "IN_PROGRESS"] /\ UNCHANGED bookings

VerifyPickup(b) ==
  /\ ride.status = "IN_PROGRESS" /\ Confirmed(b) /\ ~bookings[b].picked
  /\ bookings' = [bookings EXCEPT ![b].picked = TRUE]
  /\ UNCHANGED ride

Leave(b) ==
  OnOffer /\ Confirmed(b) /\ bookings' = Cancelled({b}, "RIDER_CANCELLED") /\ UNCHANGED ride

CancelByDriver ==
  /\ ride.status = "PUBLISHED"
  /\ ride' = CancelledRide("DRIVER_CANCELLED")
  /\ bookings' = Cancelled(Bookings, "RIDE_CANCELLED")

Complete ==
  /\ ride.status = "IN_PROGRESS" /\ \A b \in Bookings : Confirmed(b) => bookings[b].picked
  /\ ride' = [ride EXCEPT !.status = "COMPLETED"]
  /\ bookings' = [b \in Bookings |-> IF Confirmed(b)
       THEN [bookings[b] EXCEPT !.status = "COMPLETED"] ELSE bookings[b]]

RideMoves ==
  /\ Start \/ CancelByDriver \/ Complete \/ \E b \in Bookings : VerifyPickup(b) \/ Leave(b)
  /\ UNCHANGED <<claims, effects, tickets, queue, faults>>

-----------------------------------------------------------------------------
(* Filing a claim.                                                         *)

\* Claims about the same no-show: of the driver, or of one passenger.
About(kind, b) ==
  {c \in DOMAIN claims : claims[c].kind = kind /\ (kind = "PASSENGER" => claims[c].booking = b)}

NoEffect == [status |-> "NONE", attempts |-> 0, phase |-> "idle"]

\* An open claim about it is answered again, a rejected one cannot be refiled.
Report(kind, b) ==
  /\ Len(claims) < MaxClaims
  /\ OnOffer /\ Confirmed(b) /\ ~bookings[b].picked
  /\ \A c \in About(kind, b) : claims[c].status \notin {"PENDING", "REJECTED"}
  /\ claims' = Append(claims, [kind |-> kind, booking |-> b, status |-> "PENDING",
                               due |-> FALSE, ticket |-> FALSE])
  /\ effects' = Append(effects, NoEffect)
  /\ tickets' = Append(tickets, 0)
  /\ UNCHANGED <<trip, queue, faults>>

Expire(c) ==
  /\ c \in DOMAIN claims /\ ~claims[c].due /\ \A d \in 1..(c - 1) : claims[d].due
  /\ claims' = [claims EXCEPT ![c].due = TRUE]
  /\ UNCHANGED <<trip, effects, tickets, queue, faults>>

-----------------------------------------------------------------------------
(* Deciding a claim, under the locks of the ride and the claim.            *)

\* Mutant: nobody looks whether the passenger was picked up meanwhile.
PickupBlindGuard(c) ==
  IF ride.status = "CANCELLED" \/ (claims[c].kind = "PASSENGER" /\ ~Confirmed(claims[c].booking))
  THEN "SUPERSEDED" ELSE "none"

\* What became of the trip may decide the claim before any settlement.
settlementGuard(c) ==
  LET picked == bookings[claims[c].booking].picked IN
  IF claims[c].kind = "DRIVER"
  THEN IF ride.status = "COMPLETED" THEN "REJECTED"
       ELSE IF ride.status = "CANCELLED" THEN "SUPERSEDED"
       ELSE IF picked THEN "REJECTED" ELSE "none"
  ELSE IF picked THEN "REJECTED"
       ELSE IF ~Confirmed(claims[c].booking) \/ ~OnOffer THEN "SUPERSEDED" ELSE "none"

\* The settlement of an Assured driver claim fails unless the claimant still
\* has a place; a cancellation fails when the booking ended another way.
Refused(c) ==
  /\ settlementGuard(c) = "none" /\ ~Confirmed(claims[c].booking)
  /\ claims[c].kind = "DRIVER" => ride.type = "ASSURED"

\* upsertPendingEffect; the attempts of a failed effect are not reset.
Queued(eff) == IF eff.status = "PENDING" THEN eff ELSE [eff EXCEPT !.status = "PENDING"]

\* queueResolutionEffects for a claim that is (now) decided as status says.
EffectsOf(c, status) ==
  [effects EXCEPT ![c] = IF status = "REJECTED" /\ ~claims[c].ticket THEN Queued(@) ELSE @]

Decided(c, status) == [claims EXCEPT ![c].status = status]

\* An approved claim against the driver supersedes open ones against passengers.
Approved(c) ==
  [d \in DOMAIN claims |->
     IF d = c THEN [claims[d] EXCEPT !.status = "APPROVED"]
     ELSE IF claims[c].kind = "DRIVER" /\ claims[d].kind = "PASSENGER" /\ claims[d].status = "PENDING"
     THEN [claims[d] EXCEPT !.status = "SUPERSEDED"] ELSE claims[d]]

settleApproved(c) ==
  \/ /\ claims[c].kind = "DRIVER"
     /\ ride' = CancelledRide("DRIVER_NO_SHOW")
     /\ bookings' = Cancelled(Bookings, "DRIVER_NO_SHOW")
  \/ /\ claims[c].kind = "PASSENGER"
     /\ bookings' = Cancelled({claims[c].booking}, "RIDER_NO_SHOW")
     /\ UNCHANGED ride

\* An open claim is settled or decided by the guard; the decision taken before
\* is given again and queues again what of its effects failed.
Approve(c) ==
  \/ /\ claims[c].status = "PENDING" /\ settlementGuard(c) = "none" /\ ~Refused(c)
     /\ settleApproved(c)
     /\ claims' = Approved(c) /\ effects' = EffectsOf(c, "APPROVED")
  \/ /\ claims[c].status = "PENDING" /\ settlementGuard(c) # "none"
     /\ claims' = Decided(c, settlementGuard(c)) /\ effects' = EffectsOf(c, settlementGuard(c))
     /\ UNCHANGED trip
  \/ /\ claims[c].status = "APPROVED"
     /\ effects' = EffectsOf(c, "APPROVED") /\ UNCHANGED <<trip, claims>>

Reject(c) ==
  /\ claims[c].status \in {"PENDING", "REJECTED"}
  /\ claims' = Decided(c, "REJECTED") /\ effects' = EffectsOf(c, "REJECTED")
  /\ UNCHANGED trip

Respond(c) ==
  c \in DOMAIN claims /\ (Approve(c) \/ Reject(c)) /\ UNCHANGED <<tickets, queue, faults>>

-----------------------------------------------------------------------------
(* The worker.                                                             *)

DueClaims == SetToSortSeq({c \in DOMAIN claims : claims[c].due /\ claims[c].status = "PENDING"}, <)

\* drainDueClaims reads a batch without locks, one batch at a time per process.
Poll(w) ==
  /\ queue[w] = <<>> /\ DueClaims # <<>>
  /\ queue' = [queue EXCEPT ![w] = SubSeq(DueClaims, 1, IF Len(DueClaims) < Batch THEN Len(DueClaims) ELSE Batch)]
  /\ UNCHANGED <<trip, claims, effects, tickets, faults>>

\* A claim that was decided otherwise or whose settlement fails is passed over.
SettleNext(w) ==
  LET c == Head(queue[w]) IN
  /\ queue[w] # <<>> /\ c \in DOMAIN claims
  /\ queue' = [queue EXCEPT ![w] = Tail(@)]
  /\ \/ Approve(c)
     \/ /\ claims[c].status \in {"REJECTED", "SUPERSEDED"} \/ (claims[c].status = "PENDING" /\ Refused(c))
        /\ UNCHANGED <<trip, claims, effects>>
  /\ UNCHANGED <<tickets, faults>>

\* A settlement rolls back, or the process stops and forgets the batch.
Fault(w) ==
  /\ queue[w] # <<>> /\ faults < MaxFaults
  /\ faults' = faults + 1
  /\ \E rest \in {Tail(queue[w]), <<>>} : queue' = [queue EXCEPT ![w] = rest]
  /\ UNCHANGED <<trip, claims, effects, tickets>>

-----------------------------------------------------------------------------
(* The effect of a rejection: a ticket for the claimant.                   *)

\* FOR UPDATE SKIP LOCKED: whoever runs an effect keeps the others away.
Runnable(c) ==
  /\ c \in DOMAIN claims /\ effects[c].phase = "idle"
  /\ effects[c].status = "PENDING" /\ effects[c].attempts < MaxAttempts

\* Mutant: tickets are opened without an idempotency key.
OpenAnother(c) == tickets' = [tickets EXCEPT ![c] = @ + 1]

\* createTicket with the claim as its key returns the ticket it already has.
createTicket(c) == tickets' = [tickets EXCEPT ![c] = 1]

OpenTicket(c) ==
  /\ Runnable(c)
  /\ createTicket(c)
  /\ effects' = [effects EXCEPT ![c].phase = "ticketed"]
  /\ UNCHANGED <<trip, claims, queue, faults>>

AfterAttempt(eff, status) == [status |-> status, attempts |-> eff.attempts + 1, phase |-> "idle"]

\* The ticket is linked to its claim in the transaction of the effect.
FinishEffect(c) ==
  /\ c \in DOMAIN claims /\ effects[c].phase = "ticketed"
  /\ effects' = [effects EXCEPT ![c] = AfterAttempt(@, "COMPLETED")]
  /\ claims' = [claims EXCEPT ![c].ticket = TRUE]
  /\ UNCHANGED <<trip, tickets, queue, faults>>

\* The ticket service throws: the last attempt gives the effect up.
FailEffect(c) ==
  /\ Runnable(c)
  /\ effects' = [effects EXCEPT ![c] =
       AfterAttempt(@, IF @.attempts + 1 >= MaxAttempts THEN "FAILED" ELSE "PENDING")]
  /\ UNCHANGED <<trip, claims, tickets, queue, faults>>

\* A statement fails or the process stops: everything but the ticket rolls back.
LoseEffect(c) ==
  /\ c \in DOMAIN claims /\ effects[c].phase = "ticketed" /\ faults < MaxFaults
  /\ faults' = faults + 1
  /\ effects' = [effects EXCEPT ![c].phase = "idle"]
  /\ UNCHANGED <<trip, claims, tickets, queue>>

Work(w) == Poll(w) \/ SettleNext(w)
RunEffect(c) == OpenTicket(c) \/ FinishEffect(c) \/ FailEffect(c)

Next ==
  \/ RideMoves
  \/ \E b \in Bookings, kind \in {"DRIVER", "PASSENGER"} : Report(kind, b)
  \/ \E c \in 1..MaxClaims :
       Respond(c) \/ Expire(c) \/ RunEffect(c) \/ LoseEffect(c)
  \/ \E w \in Workers : Work(w) \/ Fault(w)

\* Workers poll and what they begin runs on; people need not do anything.
Fairness ==
  /\ \A w \in Workers : WF_vars(Work(w))
  /\ \A c \in 1..MaxClaims : WF_vars(RunEffect(c))

Spec == Init /\ [][Next]_vars /\ Fairness

-----------------------------------------------------------------------------
(* Properties.                                                             *)

\* Only someone who was not picked up is judged a no-show or missed the driver,
\* and the trip says the same as the verdict; one verdict and one open claim
\* per no-show.
VerdictsFit ==
  \A c \in DOMAIN claims :
    LET row == bookings[claims[c].booking] IN
    /\ claims[c].status = "APPROVED" =>
         IF claims[c].kind = "DRIVER"
         THEN ride.status = "CANCELLED" /\ ride.reason = "DRIVER_NO_SHOW" /\ ~row.picked
         ELSE row.status = "CANCELLED" /\ row.reason = "RIDER_NO_SHOW" /\ ~row.picked
    /\ \A d \in About(claims[c].kind, claims[c].booking) \ {c} :
         {claims[c].status, claims[d].status} \notin {{"PENDING"}, {"APPROVED"}}

\* A claim nobody answered is decided after its deadline, whatever the workers
\* and the other side do at the same time.  Only that of an Assured passenger
\* against the driver stays open when its claimant has left the ride.
Overdue(c) == c \in DOMAIN claims /\ claims[c].due /\ claims[c].status = "PENDING"

Abandoned(c) ==
  /\ c \in DOMAIN claims /\ claims[c].kind = "DRIVER" /\ ride.type = "ASSURED"
  /\ ~Confirmed(claims[c].booking)

DueClaimsAreDecided == \A c \in 1..MaxClaims : Overdue(c) ~> ~Overdue(c) \/ Abandoned(c)

\* A rejected claimant ends up with one ticket, linked to the claim, unless all
\* attempts to open it failed; crashes in between open no second one.
Dismissed(c) == c \in DOMAIN claims /\ claims[c].status = "REJECTED"

HasItsTicket(c) ==
  c \in DOMAIN claims /\ (effects[c].attempts >= MaxAttempts \/ (tickets[c] = 1 /\ claims[c].ticket))

RejectionsReachSupport == \A c \in 1..MaxClaims : Dismissed(c) ~> []HasItsTicket(c)

=============================================================================
