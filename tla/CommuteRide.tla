---------------------------- MODULE CommuteRide ----------------------------
(***************************************************************************)
(* One Daily Office Commute ride and its booking requests:                 *)
(* src/src/bookings/bookings.service.ts (request, accept, reject, pickup), *)
(* commute-cancellation.service.ts, commute-settlement.service.ts,         *)
(* src/src/rides/rides.service.ts (update, start, complete), the admin's   *)
(* cancellation and what an approved no-show claim does.                   *)
(*                                                                         *)
(* The fare is debited when a seat is asked for; the driver accepts or     *)
(* rejects later, and only an accepted request takes seats.  Every         *)
(* transaction locks the ride row before anything else, so each is one     *)
(* action.  Refunds go through the wallet under one idempotency key per    *)
(* booking and reason, so the key alone does not exclude a second refund.  *)
(***************************************************************************)
EXTENDS Sums

CONSTANTS N,          \* booking requests 1..N
          Rider,      \* request |-> passenger
          Seats,      \* request |-> seats asked for
          Discounts,  \* points a fare coupon takes off
          Price,      \* the driver's price per seat
          Markup,     \* the platform's part per seat
          MaxSeats    \* bound: seats a driver publishes

ASSUME CommuteRideAssumption ==
  /\ N \in Nat
  /\ Seats \in [1..N -> Nat \ {0}]
  /\ Discounts \subseteq Nat /\ 0 \in Discounts
  /\ Price \in Nat /\ Markup \in Nat
  /\ MaxSeats \in Nat

VARIABLES ride,      \* the rides row
          departed,  \* the departure time (and the no-show grace) has passed
          bookings,  \* request |-> its bookings row
          refunds,   \* request |-> reasons whose refund is in the ledger
          settled,   \* requests whose driver and platform credits are there
          driverClaim, \* the no-show claim against the driver, and whose it is
          riderClaims  \* booking |-> the claim against its passenger

claims == <<driverClaim, riderClaims>>
vars == <<ride, departed, bookings, refunds, settled, claims>>

Bookings == 1..N
Reasons == {"rider-cancel", "reject", "ride-full", "ride-cancel",
            "driver-no-show", "passenger-no-show", "admin-cancel"}

NoBooking == [status |-> "NONE", payment |-> "NONE", total |-> 0, picked |-> FALSE,
              reason |-> "none"]

Init ==
  /\ \E n \in 1..MaxSeats :
       ride = [status |-> "PUBLISHED", total |-> n, available |-> n, reason |-> "none"]
  /\ departed = FALSE
  /\ bookings = [b \in Bookings |-> NoBooking]
  /\ refunds = [b \in Bookings |-> {}]
  /\ settled = {}
  /\ driverClaim = [status |-> "NONE", by |-> 0]
  /\ riderClaims = [b \in Bookings |-> "NONE"]

-----------------------------------------------------------------------------
(* Fares and seats.                                                        *)

DriverShare(b) == Price * Seats[b]
PlatformShare(b) == Markup * Seats[b]
Fare(b) == DriverShare(b) + PlatformShare(b)

\* The settlement's check of the snapshots against the amount paid.
SharesAddUp(b) == DriverShare(b) + PlatformShare(b) = bookings[b].total

\* What the completion asks of a confirmed booking.
Settles(b) == bookings[b].picked /\ bookings[b].payment = "PAID" /\ SharesAddUp(b)

Active == {b \in Bookings : bookings[b].status \in {"PENDING", "CONFIRMED"}}
Confirmed == {b \in Bookings : bookings[b].status = "CONFIRMED"}
Pending == {b \in Bookings : bookings[b].status = "PENDING"}

SeatsOf(S) == SumOver(S, Seats, N)

\* Mutant: a change of the seats counts the requests and forgets the riders.
PendingSeats == SeatsOf(Pending)

\* sumActiveBookedSeats: a pending request counts although it holds no seat.
BookedSeats == SeatsOf(Active)

Smaller(m, n) == IF m <= n THEN m ELSE n

Refundable(b) == bookings[b].payment = "PAID" /\ bookings[b].total > 0

\* Cancels the bookings in S: each that was paid is refunded under its key.
CancelAll(S, why) ==
  /\ bookings' = [b \in Bookings |-> IF b \in S
       THEN [bookings[b] EXCEPT !.status = "CANCELLED", !.reason = why,
               !.payment = IF Refundable(b) THEN "REFUNDED" ELSE @]
       ELSE bookings[b]]
  /\ refunds' = [b \in Bookings |-> IF b \in S /\ Refundable(b)
       THEN refunds[b] \cup {why} ELSE refunds[b]]

-----------------------------------------------------------------------------
(* Booking requests.                                                       *)

\* The whole fare less the coupon's discount is debited at once.
Request(b) ==
  /\ ride.status = "PUBLISHED" /\ ~departed
  /\ bookings[b] = NoBooking
  /\ Seats[b] <= ride.total
  /\ \A c \in Active : Rider[c] # Rider[b]
  /\ \E d \in Discounts :
       /\ d <= Fare(b)
       /\ bookings' = [bookings EXCEPT ![b] = [NoBooking EXCEPT
                         !.status = "PENDING", !.payment = "PAID", !.total = Fare(b) - d]]
  /\ UNCHANGED <<ride, departed, refunds, settled, claims>>

\* Accepting the request that fills the ride cancels the other requests.
Accept(b) ==
  /\ bookings[b].status = "PENDING"
  /\ ride.status = "PUBLISHED"
  /\ Seats[b] <= ride.available
  /\ ride' = [ride EXCEPT !.available = @ - Seats[b]]
  /\ LET others == IF ride.available = Seats[b] THEN Pending \ {b} ELSE {} IN
     /\ bookings' = [c \in Bookings |->
          IF c = b THEN [bookings[c] EXCEPT !.status = "CONFIRMED"]
          ELSE IF c \in others
               THEN [bookings[c] EXCEPT !.status = "CANCELLED", !.reason = "ride-full",
                       !.payment = IF Refundable(c) THEN "REFUNDED" ELSE @]
               ELSE bookings[c]]
     /\ refunds' = [c \in Bookings |-> IF c \in others /\ Refundable(c)
          THEN refunds[c] \cup {"ride-full"} ELSE refunds[c]]
  /\ UNCHANGED <<departed, settled, claims>>

\* Mutant: a booking cancelled for another reason is rejected and refunded too.
RejectAgain(b) ==
  /\ bookings[b].status \in {"PENDING", "CANCELLED"}
  /\ bookings' = [bookings EXCEPT ![b].status = "CANCELLED", ![b].reason = "reject"]
  /\ refunds' = [refunds EXCEPT ![b] = @ \cup {"reject"}]
  /\ UNCHANGED <<ride, departed, settled, claims>>

\* Rejecting looks at the booking only, not at the state of the ride.
Reject(b) ==
  /\ bookings[b].status = "PENDING"
  /\ CancelAll({b}, "reject")
  /\ UNCHANGED <<ride, departed, settled, claims>>

\* A confirmed booking gives its seats back, up to the seats there are.
RestoreSeats(b) ==
  ride' = [ride EXCEPT !.available =
    IF b \in Confirmed THEN Smaller(ride.total, @ + Seats[b]) ELSE @]

CancelByRider(b) ==
  /\ b \in Active
  /\ RestoreSeats(b)
  /\ CancelAll({b}, "rider-cancel")
  /\ UNCHANGED <<departed, settled, claims>>

-----------------------------------------------------------------------------
(* The ride.                                                               *)

\* Every active booking, the pending ones too, is taken off the new total.
UpdateSeats(n) ==
  /\ ride.status = "PUBLISHED"
  /\ BookedSeats <= n
  /\ ride' = [ride EXCEPT !.total = n, !.available = n - BookedSeats]
  /\ UNCHANGED <<departed, bookings, refunds, settled, claims>>

Depart ==
  /\ ~departed
  /\ departed' = TRUE
  /\ UNCHANGED <<ride, bookings, refunds, settled, claims>>

Start ==
  /\ ride.status = "PUBLISHED"
  /\ ride' = [ride EXCEPT !.status = "IN_PROGRESS"]
  /\ UNCHANGED <<departed, bookings, refunds, settled, claims>>

VerifyPickup(b) ==
  /\ ride.status = "IN_PROGRESS"
  /\ b \in Confirmed /\ ~bookings[b].picked
  /\ bookings' = [bookings EXCEPT ![b].picked = TRUE]
  /\ UNCHANGED <<ride, departed, refunds, settled, claims>>

\* Mutant: as for the other ride types, pending requests are completed too.
CompleteAll ==
  /\ ride.status = "IN_PROGRESS"
  /\ \A b \in Confirmed : Settles(b)
  /\ ride' = [ride EXCEPT !.status = "COMPLETED"]
  /\ bookings' = [b \in Bookings |-> IF b \in Active
       THEN [bookings[b] EXCEPT !.status = "COMPLETED"] ELSE bookings[b]]
  /\ settled' = settled \cup Confirmed
  /\ UNCHANGED <<departed, refunds, claims>>

\* Everyone confirmed is on board and settles; one booking that does not add up
\* aborts the completion.  Pending requests stay as they are.
Complete ==
  /\ ride.status = "IN_PROGRESS"
  /\ \A b \in Confirmed : Settles(b)
  /\ ride' = [ride EXCEPT !.status = "COMPLETED"]
  /\ bookings' = [b \in Bookings |-> IF b \in Confirmed
       THEN [bookings[b] EXCEPT !.status = "COMPLETED"] ELSE bookings[b]]
  /\ settled' = settled \cup Confirmed
  /\ UNCHANGED <<departed, refunds, claims>>

\* cancelRideInTransaction: all active bookings go back, seats stay as they are.
CallOff(why) ==
  /\ ride' = [ride EXCEPT !.status = "CANCELLED", !.reason = why]
  /\ CancelAll(Active, why)
  /\ UNCHANGED <<departed, settled, claims>>

CancelByDriver == ride.status = "PUBLISHED" /\ CallOff("ride-cancel")

\* A ride on its way is cancelled without refunds, for support to settle.
CancelByAdmin ==
  /\ ride.status \in {"PUBLISHED", "IN_PROGRESS"}
  /\ ride' = [ride EXCEPT !.status = "CANCELLED", !.reason = "admin-cancel",
                !.available = Smaller(ride.total, @ + SeatsOf(Confirmed))]
  /\ \/ ride.status = "PUBLISHED" /\ CancelAll(Active, "admin-cancel")
     \/ /\ ride.status = "IN_PROGRESS"
        /\ bookings' = [b \in Bookings |-> IF b \in Active
             THEN [bookings[b] EXCEPT !.status = "CANCELLED", !.reason = "admin-cancel"]
             ELSE bookings[b]]
        /\ UNCHANGED refunds
  /\ UNCHANGED <<departed, settled, claims>>

-----------------------------------------------------------------------------
(* No-shows.                                                               *)

OnOffer == ride.status \in {"PUBLISHED", "IN_PROGRESS"}

Late(b) == departed /\ OnOffer /\ b \in Confirmed /\ ~bookings[b].picked

\* One claim against the driver is open per ride, and none after a rejected one.
ReportDriver(b) ==
  /\ Late(b) /\ driverClaim.status = "NONE"
  /\ driverClaim' = [status |-> "PENDING", by |-> b]
  /\ UNCHANGED <<ride, departed, bookings, refunds, settled, riderClaims>>

ReportRider(b) ==
  /\ Late(b) /\ riderClaims[b] = "NONE"
  /\ riderClaims' = [riderClaims EXCEPT ![b] = "PENDING"]
  /\ UNCHANGED <<ride, departed, bookings, refunds, settled, driverClaim>>

\* The driver approves the claim or lets it time out; only the ride and the
\* claimant's pickup are looked at again, not whether the booking still stands.
ApproveDriverNoShow ==
  LET picked == bookings[driverClaim.by].picked IN
  /\ driverClaim.status = "PENDING"
  /\ \/ /\ OnOffer /\ ~picked
        /\ ride' = [ride EXCEPT !.status = "CANCELLED", !.reason = "driver-no-show"]
        /\ CancelAll(Active, "driver-no-show")
        /\ driverClaim' = [driverClaim EXCEPT !.status = "APPROVED"]
        /\ riderClaims' = [b \in Bookings |->
             IF riderClaims[b] = "PENDING" THEN "SUPERSEDED" ELSE riderClaims[b]]
     \/ /\ ~OnOffer \/ picked
        /\ driverClaim' = [driverClaim EXCEPT !.status =
             IF ride.status = "CANCELLED" THEN "SUPERSEDED" ELSE "REJECTED"]
        /\ UNCHANGED <<ride, bookings, refunds, riderClaims>>
  /\ UNCHANGED <<departed, settled>>

\* The passenger approves or lets the claim time out: the booking is refunded.
ApproveRiderNoShow(b) ==
  /\ riderClaims[b] = "PENDING"
  /\ \/ /\ OnOffer /\ b \in Active /\ ~bookings[b].picked
        /\ riderClaims' = [riderClaims EXCEPT ![b] = "APPROVED"]
        /\ RestoreSeats(b)
        /\ CancelAll({b}, "passenger-no-show")
     \/ /\ ~OnOffer \/ b \notin Active \/ bookings[b].picked
        /\ riderClaims' = [riderClaims EXCEPT ![b] =
             IF bookings[b].picked THEN "REJECTED" ELSE "SUPERSEDED"]
        /\ UNCHANGED <<ride, bookings, refunds>>
  /\ UNCHANGED <<departed, settled, driverClaim>>

RejectDriverClaim ==
  /\ driverClaim.status = "PENDING"
  /\ driverClaim' = [driverClaim EXCEPT !.status = "REJECTED"]
  /\ UNCHANGED <<ride, departed, bookings, refunds, settled, riderClaims>>

RejectRiderClaim(b) ==
  /\ riderClaims[b] = "PENDING"
  /\ riderClaims' = [riderClaims EXCEPT ![b] = "REJECTED"]
  /\ UNCHANGED <<ride, departed, bookings, refunds, settled, driverClaim>>

-----------------------------------------------------------------------------
\* The ride is over, no booking or claim is open: nothing is left to happen.
Over ==
  /\ departed /\ ~OnOffer /\ Active = {}
  /\ driverClaim.status # "PENDING" /\ \A b \in Bookings : riderClaims[b] # "PENDING"
  /\ UNCHANGED vars

Next ==
  \/ \E b \in Bookings :
       \/ Request(b) \/ Accept(b) \/ Reject(b) \/ CancelByRider(b)
       \/ VerifyPickup(b) \/ ReportDriver(b) \/ ReportRider(b)
       \/ ApproveRiderNoShow(b) \/ RejectRiderClaim(b)
  \/ ApproveDriverNoShow \/ RejectDriverClaim
  \/ \E n \in 1..MaxSeats : UpdateSeats(n)
  \/ Depart \/ Start \/ Complete \/ CancelByDriver \/ CancelByAdmin \/ Over

Spec == Init /\ [][Next]_vars

-----------------------------------------------------------------------------
(* Properties.                                                             *)

ClaimStatus == {"NONE", "PENDING", "APPROVED", "REJECTED", "SUPERSEDED"}
BookingStatus == {"NONE", "PENDING", "CONFIRMED", "CANCELLED", "COMPLETED"}

RideRow == [status : {"PUBLISHED", "IN_PROGRESS", "COMPLETED", "CANCELLED"},
            total : 1..MaxSeats, available : Nat, reason : Reasons \cup {"none"}]
BookingRow == [status : BookingStatus, payment : {"NONE", "PAID", "REFUNDED"},
               total : Nat, picked : BOOLEAN, reason : Reasons \cup {"none"}]

\* The ride, its bookings and the ledger stay within their domains.
TypeOK ==
  /\ ride \in RideRow
  /\ departed \in BOOLEAN
  /\ bookings \in [Bookings -> BookingRow]
  /\ refunds \in [Bookings -> SUBSET Reasons]
  /\ settled \subseteq Bookings
  /\ driverClaim \in [status : ClaimStatus, by : 0..N]
  /\ driverClaim.status # "NONE" => driverClaim.by \in Bookings
  /\ riderClaims \in [Bookings -> ClaimStatus]

\* However requests are accepted, cancelled and the seats changed in between,
\* the accepted bookings fit into the ride and into what it says is taken.
SeatsNeverOversold == SeatsOf(Confirmed) <= ride.total - ride.available

\* A fare goes one way: a settled booking was never refunded, a booking is
\* refunded once over all reasons, and a refund ends it.
FareGoesOneWay ==
  \A b \in Bookings :
    /\ Cardinality(refunds[b]) <= 1
    /\ b \in settled => refunds[b] = {} /\ bookings[b].status = "COMPLETED"
    /\ refunds[b] # {} => bookings[b].status = "CANCELLED"

\* Where the fare of a booking is.  A coupon that covers all of it leaves no
\* fare: nothing is debited, and nothing is returned or kept later.
FareState(b) ==
  IF bookings[b].total = 0 THEN "none"
  ELSE IF b \in settled THEN "earned"
  ELSE IF b \in Active THEN "held"
  ELSE IF refunds[b] # {} THEN "returned" ELSE "kept"

TripState ==
  IF ride.status = "COMPLETED" THEN "done"
  ELSE IF ride.status = "CANCELLED" THEN "off" ELSE "open"

Trip == INSTANCE PrepaidTrip WITH
  fare <- [b \in Bookings |-> FareState(b)], trip <- TripState

\* The bookings, refunds and settlements implement the prepaid trip: nothing is
\* earned after the one completion, and calling the trip off leaves no fare held.
ImplementsPrepaidTrip == Trip!Spec

\* commute-settlement.service.ts asserts that the shares of every confirmed
\* booking add up to what its rider paid when the ride is completed.
SnapshotsAddUp ==
  ride.status = "IN_PROGRESS" => \A b \in Confirmed : SharesAddUp(b)

=============================================================================
