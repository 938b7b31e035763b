---------------------------- MODULE RegularRide ----------------------------
(***************************************************************************)
(* One Regular ride and its bookings: src/src/bookings/bookings.service.ts *)
(* (createPayNow, createPayLater, pickup), the rider's exit in             *)
(* assured-lifecycle.service.ts, regular-ride-cancellation.service.ts,     *)
(* src/src/fare/fare-settlement.service.ts, src/src/rides/rides.service.ts *)
(* and the admin's cancellation.                                           *)
(*                                                                         *)
(* A PAY_NOW request names an idempotency key, which is looked up before   *)
(* the transaction and again behind the lock of the ride row; a PAY_LATER  *)
(* request has none and its fare is paid, by wallet or in cash, after the  *)
(* ride is completed.  Every transaction that writes a ride or an open     *)
(* booking locks the ride row first, so each is one action.                *)
(***************************************************************************)
EXTENDS Sums, FiniteSets

CONSTANTS N,         \* booking requests 1..N; a booking has its request's number
          Asked,     \* request |-> passenger, method, key and seats
          Points,    \* passenger |-> points to spend
          Price,     \* points per seat
          MaxSeats   \* bound: seats a driver publishes

Bookings == 1..N
Passengers == {Asked[b].passenger : b \in Bookings}

VARIABLES ride,      \* the rides row
          departed,  \* the departure time and the no-show grace are over
          bookings,  \* request |-> its bookings row
          pc,        \* request |-> where it stands
          ledger,    \* wallet_transactions about the ride: kind and booking
          driverClaim, \* the no-show claim against the driver, and whose it is
          riderClaims  \* booking |-> the claim against its passenger

claims == <<driverClaim, riderClaims>>
vars == <<ride, departed, bookings, pc, ledger, claims>>

NoBooking == [status |-> "NONE", payment |-> "UNPAID", picked |-> FALSE]

Init ==
  /\ \E n \in 1..MaxSeats : ride = [status |-> "PUBLISHED", total |-> n, available |-> n]
  /\ departed = FALSE
  /\ bookings = [b \in Bookings |-> NoBooking]
  /\ pc = [b \in Bookings |-> "idle"]
  /\ ledger = {}
  /\ driverClaim = [status |-> "NONE", by |-> 0]
  /\ riderClaims = [b \in Bookings |-> "NONE"]

-----------------------------------------------------------------------------
Fare(b) == Price * Asked[b].seats

\* A row of the ledger: one per kind and booking, as its idempotency key says.
Row(kind, b) == [kind |-> kind, booking |-> b]
Posted(kind, b) == Row(kind, b) \in ledger

\* What a passenger has left: fares paid, at booking or after the ride, less
\* the refunds.
Balance(p) ==
  Points[p] + SumTo([b \in Bookings |->
    IF Asked[b].passenger # p THEN 0
    ELSE (IF Posted("refund", b) THEN Fare(b) ELSE 0)
       - (IF Posted("debit", b) THEN Fare(b) ELSE 0)], N)

Active == {b \in Bookings : bookings[b].status = "CONFIRMED"}
SeatsOf(S) == SumOver(S, [b \in Bookings |-> Asked[b].seats], N)

OnOffer == ride.status \in {"PUBLISHED", "IN_PROGRESS"}
Smaller(m, n) == IF m <= n THEN m ELSE n

-----------------------------------------------------------------------------
(* Booking.                                                                *)

\* The bookings made under the key of request b.
UnderKey(b) ==
  {c \in Bookings : /\ bookings[c].status # "NONE"
                    /\ Asked[c].method = "PAY_NOW" /\ Asked[b].method = "PAY_NOW"
                    /\ Asked[c].key = Asked[b].key}

SameRequest(b, c) ==
  Asked[b].passenger = Asked[c].passenger /\ Asked[b].seats = Asked[c].seats

\* A booking found under the key is the answer, if it was asked for like this.
Replay(b) ==
  \E c \in UnderKey(b) :
    pc' = [pc EXCEPT ![b] = IF SameRequest(b, c) THEN "booked" ELSE "refused"]

Answer(b, how) == pc' = [pc EXCEPT ![b] = how]

LookUp(b) ==
  /\ pc[b] = "idle"
  /\ \/ UnderKey(b) # {} /\ Replay(b)
     \/ UnderKey(b) = {} /\ Answer(b, "looked")
  /\ UNCHANGED <<ride, departed, bookings, ledger, claims>>

\* Mutant: nothing is asked about the passenger's other bookings.
BookableAgain(b) == ride.status = "PUBLISHED" /\ ~departed /\ Asked[b].seats <= ride.available

\* The ride takes bookings, has the seats, and the passenger has none on it.
Bookable(b) ==
  /\ ride.status = "PUBLISHED" /\ ~departed
  /\ Asked[b].seats <= ride.available
  /\ \A c \in Active : Asked[c].passenger # Asked[b].passenger

Book(b) ==
  /\ pc[b] = "looked" /\ Bookable(b) /\ UnderKey(b) = {}
  /\ \/ /\ Asked[b].method = "PAY_NOW"
        /\ Fare(b) <= Balance(Asked[b].passenger)
        /\ ledger' = ledger \cup {Row("debit", b)}
        /\ bookings' = [bookings EXCEPT ![b] =
             [status |-> "CONFIRMED", payment |-> "PAID", picked |-> FALSE]]
     \/ /\ Asked[b].method = "PAY_LATER"
        /\ bookings' = [bookings EXCEPT ![b] =
             [status |-> "CONFIRMED", payment |-> "UNPAID", picked |-> FALSE]]
        /\ UNCHANGED ledger
  /\ ride' = [ride EXCEPT !.available = @ - Asked[b].seats]
  /\ Answer(b, "booked")
  /\ UNCHANGED <<departed, claims>>

\* The ride's rules come before the second look for the key.
RefuseBooking(b) ==
  /\ pc[b] = "looked"
  /\ \/ ~Bookable(b) /\ Answer(b, "refused")
     \/ Bookable(b) /\ UnderKey(b) # {} /\ Replay(b)
     \/ /\ Bookable(b) /\ UnderKey(b) = {}
        /\ Asked[b].method = "PAY_NOW" /\ Fare(b) > Balance(Asked[b].passenger)
        /\ Answer(b, "refused")
  /\ UNCHANGED <<ride, departed, bookings, ledger, claims>>

-----------------------------------------------------------------------------
(* Cancellations.                                                          *)

RestoreSeats(S) ==
  ride' = [ride EXCEPT !.available = Smaller(ride.total, @ + SeatsOf(S))]

Cancelled(S, refunded) ==
  [b \in Bookings |->
     IF b \notin S THEN bookings[b]
     ELSE [bookings[b] EXCEPT !.status = "CANCELLED",
                              !.payment = IF b \in refunded THEN "REFUNDED" ELSE @]]

Prepaid == {b \in Active : Asked[b].method = "PAY_NOW" /\ bookings[b].payment = "PAID"}

\* A rider leaves, whenever the ride is not over; a prepaid fare is returned.
CancelByRider(b) ==
  /\ b \in Active /\ OnOffer
  /\ RestoreSeats({b})
  /\ bookings' = Cancelled({b}, {b} \cap Prepaid)
  /\ ledger' = ledger \cup {Row("refund", c) : c \in {b} \cap Prepaid}
  /\ UNCHANGED <<departed, pc, claims>>

\* cancelRideInTransaction moves no money and leaves the seats as they are.
CancelRide ==
  /\ ride' = [ride EXCEPT !.status = "CANCELLED"]
  /\ bookings' = Cancelled(Active, {})
  /\ UNCHANGED <<departed, pc, ledger>>

CancelByDriver ==
  ride.status = "PUBLISHED" /\ CancelRide /\ UNCHANGED claims

\* The admin returns what was collected unless the ride is on its way.
CancelByAdmin ==
  LET refunded == IF ride.status = "PUBLISHED"
                  THEN {b \in Active : bookings[b].payment = "PAID"} ELSE {}
  IN
  /\ OnOffer
  /\ ride' = [ride EXCEPT !.status = "CANCELLED",
                          !.available = Smaller(ride.total, @ + SeatsOf(Active))]
  /\ bookings' = Cancelled(Active, refunded)
  /\ ledger' = ledger \cup {Row("refund", b) : b \in refunded}
  /\ UNCHANGED <<departed, pc, claims>>

-----------------------------------------------------------------------------
(* No-show claims.                                                         *)

Late(b) == departed /\ OnOffer /\ b \in Active /\ ~bookings[b].picked

\* One claim against the driver is open per ride, and none after a rejected one.
ReportDriver(b) ==
  /\ Late(b) /\ driverClaim.status = "NONE"
  /\ driverClaim' = [status |-> "PENDING", by |-> b]
  /\ UNCHANGED <<ride, departed, bookings, pc, ledger, riderClaims>>

ReportRider(b) ==
  /\ Late(b) /\ riderClaims[b] = "NONE"
  /\ riderClaims' = [riderClaims EXCEPT ![b] = "PENDING"]
  /\ UNCHANGED <<ride, departed, bookings, pc, ledger, driverClaim>>

\* The driver did not come: the ride is off, and claims against its passengers
\* are superseded.  The claimant's booking need not stand any more.
ApproveDriverNoShow ==
  LET picked == bookings[driverClaim.by].picked IN
  /\ driverClaim.status = "PENDING"
  /\ \/ /\ OnOffer /\ ~picked
        /\ CancelRide
        /\ driverClaim' = [driverClaim EXCEPT !.status = "APPROVED"]
        /\ riderClaims' = [b \in Bookings |->
             IF riderClaims[b] = "PENDING" THEN "SUPERSEDED" ELSE riderClaims[b]]
     \/ /\ ~OnOffer \/ picked
        /\ driverClaim' = [driverClaim EXCEPT !.status =
             IF ride.status = "CANCELLED" THEN "SUPERSEDED" ELSE "REJECTED"]
        /\ UNCHANGED <<ride, departed, bookings, pc, ledger, riderClaims>>

\* The passenger did not come: the booking ends and a prepaid fare is kept.
ApproveRiderNoShow(b) ==
  /\ riderClaims[b] = "PENDING"
  /\ \/ /\ OnOffer /\ b \in Active /\ ~bookings[b].picked
        /\ riderClaims' = [riderClaims EXCEPT ![b] = "APPROVED"]
        /\ RestoreSeats({b})
        /\ bookings' = Cancelled({b}, {})
     \/ /\ ~OnOffer \/ b \notin Active \/ bookings[b].picked
        /\ riderClaims' = [riderClaims EXCEPT ![b] =
             IF bookings[b].picked THEN "REJECTED" ELSE "SUPERSEDED"]
        /\ UNCHANGED <<ride, bookings>>
  /\ UNCHANGED <<departed, pc, ledger, driverClaim>>

RejectDriverClaim ==
  /\ driverClaim.status = "PENDING"
  /\ driverClaim' = [driverClaim EXCEPT !.status = "REJECTED"]
  /\ UNCHANGED <<ride, departed, bookings, pc, ledger, riderClaims>>

RejectRiderClaim(b) ==
  /\ riderClaims[b] = "PENDING"
  /\ riderClaims' = [riderClaims EXCEPT ![b] = "REJECTED"]
  /\ UNCHANGED <<ride, departed, bookings, pc, ledger, driverClaim>>

-----------------------------------------------------------------------------
(* The ride and its settlement.                                            *)

UpdateSeats(n) ==
  /\ ride.status = "PUBLISHED" /\ SeatsOf(Active) <= n
  /\ ride' = [ride EXCEPT !.total = n, !.available = n - SeatsOf(Active)]
  /\ UNCHANGED <<departed, bookings, pc, ledger, claims>>

Depart ==
  /\ ~departed /\ departed' = TRUE
  /\ UNCHANGED <<ride, bookings, pc, ledger, claims>>

Start ==
  /\ ride.status = "PUBLISHED"
  /\ ride' = [ride EXCEPT !.status = "IN_PROGRESS"]
  /\ UNCHANGED <<departed, bookings, pc, ledger, claims>>

VerifyPickup(b) ==
  /\ ride.status = "IN_PROGRESS" /\ b \in Active /\ ~bookings[b].picked
  /\ bookings' = [bookings EXCEPT ![b].picked = TRUE]
  /\ UNCHANGED <<ride, departed, pc, ledger, claims>>

\* Mutant: the driver is credited for every booking, paid or not.
CreditAll == Active

\* The fares the driver receives at completion; PAY_LATER is deferred.
CreditedAtCompletion == {b \in Active : Asked[b].method = "PAY_NOW"}

Complete ==
  /\ ride.status = "IN_PROGRESS"
  /\ \A b \in Active : bookings[b].picked
  /\ ride' = [ride EXCEPT !.status = "COMPLETED"]
  /\ bookings' = [b \in Bookings |-> IF b \in Active
       THEN [bookings[b] EXCEPT !.status = "COMPLETED"] ELSE bookings[b]]
  /\ ledger' = ledger \cup {Row("credit", b) : b \in CreditedAtCompletion}
  /\ UNCHANGED <<departed, pc, claims>>

Owing(b) ==
  /\ Asked[b].method = "PAY_LATER"
  /\ bookings[b].status = "COMPLETED" /\ ride.status = "COMPLETED"
  /\ bookings[b].payment = "UNPAID"

PayWithWallet(b) ==
  /\ Owing(b) /\ Fare(b) <= Balance(Asked[b].passenger)
  /\ ledger' = ledger \cup {Row("debit", b), Row("credit", b)}
  /\ bookings' = [bookings EXCEPT ![b].payment = "PAID"]
  /\ UNCHANGED <<ride, departed, pc, claims>>

PayWithCash(b) ==
  /\ Owing(b)
  /\ bookings' = [bookings EXCEPT ![b].payment = "PAID"]
  /\ UNCHANGED <<ride, departed, pc, ledger, claims>>

-----------------------------------------------------------------------------
\* The ride is over, everybody is answered, and no fare or claim is open.
Over ==
  /\ departed /\ ~OnOffer
  /\ driverClaim.status # "PENDING" /\ \A b \in Bookings : riderClaims[b] # "PENDING"
  /\ \A b \in Bookings : pc[b] \in {"booked", "refused"} /\ ~Owing(b)
  /\ UNCHANGED vars

Next ==
  \/ \E b \in Bookings :
       \/ LookUp(b) \/ Book(b) \/ RefuseBooking(b) \/ CancelByRider(b)
       \/ ReportDriver(b) \/ ReportRider(b)
       \/ ApproveRiderNoShow(b) \/ RejectRiderClaim(b)
       \/ VerifyPickup(b) \/ PayWithWallet(b) \/ PayWithCash(b)
  \/ ApproveDriverNoShow \/ RejectDriverClaim
  \/ \E n \in 1..MaxSeats : UpdateSeats(n)
  \/ Depart \/ Start \/ Complete \/ CancelByDriver \/ CancelByAdmin \/ Over

Spec == Init /\ [][Next]_vars

-----------------------------------------------------------------------------
(* Properties.                                                             *)

ClaimStatus == {"NONE", "PENDING", "APPROVED", "REJECTED", "SUPERSEDED"}
BookingRow == [status : {"NONE", "CONFIRMED", "CANCELLED", "COMPLETED"},
               payment : {"UNPAID", "PAID", "REFUNDED"}, picked : BOOLEAN]

RideRow == [status : {"PUBLISHED", "IN_PROGRESS", "COMPLETED", "CANCELLED"},
            total : 1..MaxSeats, available : Nat]
LedgerRow == [kind : {"debit", "credit", "refund"}, booking : Bookings]

\* The ride, its bookings and the ledger stay within their domains; in
\* particular seats on offer are never negative.
TypeOK ==
  /\ ride \in RideRow
  /\ departed \in BOOLEAN
  /\ bookings \in [Bookings -> BookingRow]
  /\ pc \in [Bookings -> {"idle", "looked", "booked", "refused"}]
  /\ ledger \subseteq LedgerRow
  /\ driverClaim \in [status : ClaimStatus, by : 0..N]
  /\ driverClaim.status # "NONE" => driverClaim.by \in Bookings
  /\ riderClaims \in [Bookings -> ClaimStatus]

\* As long as the ride is on offer, the seats its row has left are its seats
\* less those of the bookings that stand, whoever books, leaves, is reported or
\* changes the seats in between.
SeatsExact == OnOffer => ride.available = ride.total - SeatsOf(Active)

\* The driver is credited for completed bookings whose fare was debited, and a
\* refund goes to a cancelled one: no fare is both earned and returned.
CreditsAreEarned ==
  \A b \in Bookings :
    /\ Posted("credit", b) => bookings[b].status = "COMPLETED" /\ Posted("debit", b)
    /\ Posted("refund", b) => bookings[b].status = "CANCELLED" /\ Posted("debit", b)

\* A key makes one booking and a passenger has one active booking on the ride.
OneBookingEach ==
  /\ \A b \in Bookings : Cardinality(UnderKey(b)) <= 1
  /\ \A b, c \in Active : Asked[b].passenger = Asked[c].passenger => b = c

-----------------------------------------------------------------------------
(* What the proofs about a Regular ride in TripsProofs need to know of it.  *)

\* What a ride is asked: whole seats, and one of the two ways to pay.
Parameters ==
  /\ N \in Nat /\ Price \in Nat /\ MaxSeats \in Nat
  /\ \A b \in Bookings : Asked[b].seats \in Nat /\ Asked[b].method \in {"PAY_NOW", "PAY_LATER"}

\* A request that was not answered made no booking.
Unanswered == \A b \in Bookings : pc[b] \in {"idle", "looked"} => bookings[b].status = "NONE"

\* The fare of a booking that stands was debited if it was to be paid at once,
\* and is still to be paid if it is to be paid later.
FaresKnown ==
  \A b \in Active : /\ Asked[b].method = "PAY_NOW" => Posted("debit", b)
                    /\ Asked[b].method = "PAY_LATER" => bookings[b].payment = "UNPAID"

\* A key made one booking.
Made == {b \in Bookings : bookings[b].status # "NONE"}
SameKey(b, c) ==
  /\ Asked[b].method = "PAY_NOW" /\ Asked[c].method = "PAY_NOW" /\ Asked[b].key = Asked[c].key
KeysOnce == \A b, c \in Made : SameKey(b, c) => b = c

OnePerPassenger == \A b, c \in Active : Asked[b].passenger = Asked[c].passenger => b = c

BookingsInv == Unanswered /\ FaresKnown /\ KeysOnce /\ OnePerPassenger /\ CreditsAreEarned

RegularInv == TypeOK /\ SeatsExact /\ BookingsInv

=============================================================================
